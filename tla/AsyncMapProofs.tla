--------------------------- MODULE AsyncMapProofs ---------------------------
(***************************************************************************)
(* What is proved of the concurrent map, for any keys, requests and        *)
(* dependency functions.  The inductive invariant Inv says where every     *)
(* task of a consumer can be relative to the others (TaskShape,            *)
(* ChainInOrder), what the nodes hold on to (AwaitingLive, OnFailLive),    *)
(* where failures come from and whom they reach (FailureQueued,            *)
(* FailureRegistered, FailureCaused), and that no consumer is forgotten    *)
(* (Somewhere).  Each action is first shown to have one of the effects of  *)
(* the lemmas ...Next, each of which preserves Inv.                        *)
(***************************************************************************)
EXTENDS AsyncMap, TLAPS

(* The task in which consumer c waits for its p-th key: that in which it     *)
(* asked for its keys, then one continuation after the other.                *)
Blk(c, p)  == IF p # 1 THEN Task("chain", c, p) ELSE IF c \in Roots THEN Task("call", c, 1) ELSE Task("create", c, 1)
Consume(c) == Task("consume", c, 0)
FailOf(c)  == Task("fail", c, 0)
Pos(c)     == 1 .. Len(deps[c]) + 1

Asking  == {"ensure", "add", "mark"}
Waiting == {"onfail_test", "onfail_lock", "await_test", "await_lock", "record"}
Passed  == {"record", "done"}
Registering == {"await_test", "await_lock", "record", "done"}

(* Where each kind of task can be, and what it has at hand there. *)
TaskShape ==
  /\ \A c \in Roots : st[Blk(c, 1)].pc \in Asking \cup Waiting \cup {"done"}
  /\ \A c \in Keys  : st[Blk(c, 1)].pc \in Asking \cup Waiting \cup {"none", "create", "log", "set", "done"}
  /\ \A c \in Consumers : \A p \in Pos(c) :
       /\ p # 1 => st[Blk(c, p)].pc \in Waiting \cup {"none", "block", "done"}
       /\ st[Blk(c, p)].pc \in Waiting => p \in DOMAIN deps[c]
       /\ st[Blk(c, p)].pc \in {"none", "create"} => st[Blk(c, p)].i = 1
       /\ st[Blk(c, p)].pc \in {"add", "mark"} => st[Blk(c, p)].i \in DOMAIN deps[c]
       /\ At(Blk(c, p), "log") => st[Blk(c, p)].key \in Keys
  /\ \A c \in Consumers :
       /\ st[Consume(c)].pc \in {"none", "consume", "log", "set", "done"}
       /\ st[Consume(c)].pc \in {"log", "set"} => c \in Keys
       /\ At(Consume(c), "log") => st[Consume(c)].key \in Keys
  /\ \A c \in Keys \cup WithFail : st[FailOf(c)].pc \in {"none", "fail", "done"}

(* A node has one creator, and never both a value and the mark of failure. *)
CreatorOnce ==
  /\ again = {}
  /\ \A k \in Keys : node[k].queued <=> ~At(Blk(k, 1), "none")

(* A consumer waits for its keys one after the other. *)
ChainInOrder ==
  \A c \in Consumers :
    /\ \A p, q \in Pos(c) : ~At(Blk(c, p), "none") /\ q < p =>
         st[Blk(c, q)].pc \in Passed /\ node[deps[c][q]].ready
    /\ ~At(Consume(c), "none") =>
         /\ \A q \in Pos(c) : st[Blk(c, q)].pc \in Passed
         /\ \A q \in DOMAIN deps[c] : node[deps[c][q]].ready

(* Only the next continuation of a consumer that has passed awaits a node, *)
(* and only one that may still get a value.                                *)
AwaitingLive ==
  \A k \in Keys : \A t \in node[k].awaiting :
    /\ ~node[k].ready /\ ~node[k].failed /\ node[k].queued /\ At(t, "none")
    /\ \E c \in Consumers : \E p \in DOMAIN deps[c] :
         t = Blk(c, p + 1) /\ deps[c][p] = k /\ st[Blk(c, p)].pc \in Passed

OnFailLive ==
  \A k \in Keys : ~node[k].ready => \A t \in node[k].onfail :
    /\ ~node[k].failed
    /\ \E c \in Keys \cup WithFail : \E p \in DOMAIN deps[c] :
         t = FailOf(c) /\ deps[c][p] = k /\ st[Blk(c, p)].pc \in Registering

FailureQueued ==
  \A c \in Keys \cup WithFail : ~At(FailOf(c), "none") =>
    \E p \in DOMAIN deps[c] : node[deps[c][p]].failed /\ st[Blk(c, p)].pc \in Registering

(* The keys asked for have their creators queued. *)
DepsQueued ==
  /\ \A c \in Consumers : st[Blk(c, 1)].pc \in Asking =>
       \A q \in DOMAIN deps[c] : q < st[Blk(c, 1)].i => node[deps[c][q]].queued
  /\ \A c \in Consumers : \A p \in Pos(c) :
       st[Blk(c, p)].pc \in Waiting \cup {"block"} \/ (\E k \in Keys : Blk(c, p) \in node[k].awaiting)
         => \A q \in DOMAIN deps[c] : node[deps[c][q]].queued

(* Whoever waits for a node has its failure function registered. *)
Answerable(c) == c \in Keys \cup WithFail => ~At(FailOf(c), "none")
FailureRegistered ==
  \A c \in Keys \cup WithFail : \A p \in DOMAIN deps[c] :
    st[Blk(c, p)].pc \in {"await_test", "await_lock"} \/ Blk(c, p + 1) \in node[deps[c][p]].awaiting
      => ~At(FailOf(c), "none") \/ node[deps[c][p]].ready \/ FailOf(c) \in node[deps[c][p]].onfail

(* Every consumer that started is on its way or waits for a node that can   *)
(* still answer, or has its answer.                                         *)
Stopped  == {"none", "record", "done"}
Active(c) == \E p \in Pos(c) : st[Blk(c, p)].pc \notin Stopped
Awaits(c) == \E p \in DOMAIN deps[c] : Blk(c, p + 1) \in node[deps[c][p]].awaiting
Refused(c) == Answerable(c) /\ \E p \in DOMAIN deps[c] : node[deps[c][p]].failed
Somewhere ==
  \A c \in Consumers :
    \/ At(Blk(c, 1), "none") \/ (c \in Keys /\ node[c].failed)
    \/ Active(c) \/ Awaits(c) \/ Refused(c) \/ ~At(Consume(c), "none")

(* Where failures come from. *)
Bad(c) == c \in failing \/ Reach(c) \cap failing # {}
FailureCaused ==
  /\ \A k \in Keys : /\ node[k].failed => Bad(k)
                     /\ k \in failing => ~node[k].ready
                     /\ parent[k] \in Keys => \E p \in DOMAIN deps[parent[k]] : deps[parent[k]][p] = k
  /\ \A t \in Tasks :
       /\ At(t, "log") => t.c \in failing /\ \A k \in Keys : st[t].key = k => Bad(k)
       /\ At(t, "set") \/ (At(t, "log") /\ st[t].key # t.c) => t.c \in Keys /\ node[t.c].failed

(* A node gets its value from its consumer. *)
ValueFromConsumer ==
  \A k \in Keys :
    /\ ~(node[k].ready /\ node[k].failed)
    /\ node[k].ready => ~At(Consume(k), "none")
    /\ At(Consume(k), "done") => node[k].ready \/ node[k].failed
    /\ At(FailOf(k), "done") => node[k].ready \/ node[k].failed

(* A node is in the map before anything happens to it. *)
KnownNodes ==
  /\ \A k \in Keys : \/ node[k].exists
                     \/ /\ ~node[k].queued /\ ~node[k].ready /\ ~node[k].failed
                        /\ node[k].awaiting = {} /\ node[k].onfail = {}
  /\ \A c \in Consumers : At(Blk(c, 1), "mark") => node[deps[c][st[Blk(c, 1)].i]].exists
  /\ \A c, k \in Keys : /\ At(Blk(c, 1), "log") /\ st[Blk(c, 1)].key = k => node[k].exists
                        /\ At(Consume(c), "log") /\ st[Consume(c)].key = k => node[k].exists
                        /\ parent[c] = k => node[k].exists

Inv ==
  /\ TypeOK /\ TaskShape /\ CreatorOnce /\ ChainInOrder /\ AwaitingLive /\ OnFailLive /\ FailureQueued
  /\ DepsQueued /\ FailureRegistered /\ Somewhere /\ FailureCaused /\ ValueFromConsumer /\ KnownNodes

-----------------------------------------------------------------------------
(* Tasks are told apart by what they do, for whom and at which position. *)
LEMMA TaskFacts ==
  /\ \A c, p : Blk(c, p).c = c /\ Blk(c, p).pos = p
  /\ \A c, p, d, q : Blk(c, p) = Blk(d, q) => c = d /\ p = q
  /\ \A c, p, d : Blk(c, p) # Consume(d) /\ Blk(c, p) # FailOf(d) /\ Consume(c) # FailOf(d)
  /\ \A c, d : (Consume(c) = Consume(d) => c = d) /\ (FailOf(c) = FailOf(d) => c = d)
  /\ \A c : Consume(c).c = c /\ FailOf(c).c = c
  /\ \A c, p : p # 1 => First(Blk(c, p)) = "block"
  /\ \A k \in Keys : First(Blk(k, 1)) = "create"
  /\ \A c : First(Consume(c)) = "consume" /\ First(FailOf(c)) = "fail"
<1>1. \A c, p : Blk(c, p).c = c /\ Blk(c, p).pos = p /\ Blk(c, p).op \in {"chain", "call", "create"}
  BY DEF Blk, Task
<1>2. \A c : /\ Consume(c).c = c /\ FailOf(c).c = c
             /\ Consume(c).op = "consume" /\ FailOf(c).op = "fail"
  BY DEF Consume, FailOf, Task
<1>3. \A c, p : p # 1 => First(Blk(c, p)) = "block"
  BY DEF Blk, Task, First
<1>4. \A k \in Keys : First(Blk(k, 1)) = "create"
  BY ConsumerAssumption DEF Blk, Task, First
<1>5. \A c : First(Consume(c)) = "consume" /\ First(FailOf(c)) = "fail"
  BY <1>2 DEF First
<1>6. \A c, p, d, q : Blk(c, p) = Blk(d, q) => c = d /\ p = q
  BY <1>1
<1>7. \A c, p, d : Blk(c, p) # Consume(d) /\ Blk(c, p) # FailOf(d) /\ Consume(c) # FailOf(d)
  BY <1>1, <1>2
<1>8. \A c, d : (Consume(c) = Consume(d) => c = d) /\ (FailOf(c) = FailOf(d) => c = d)
  BY <1>2
<1> QED
  BY <1>1, <1>2, <1>3, <1>4, <1>5, <1>6, <1>7, <1>8

(* The keys that consumers ask for, and the positions they take. *)
LEMMA DepsFacts ==
  ASSUME [deps |-> deps, failing |-> failing] \in Problems
  PROVE  /\ failing \subseteq Keys
         /\ \A c \in Consumers :
              /\ deps[c] \in Seq(Keys) /\ Len(deps[c]) \in Nat /\ DOMAIN deps[c] = 1 .. Len(deps[c])
              /\ 1 \in Pos(c) /\ Len(deps[c]) + 1 \in Pos(c)
              /\ deps[c] = <<>> <=> Len(deps[c]) = 0
              /\ \A q \in Pos(c) : q \in Nat /\ (q \in DOMAIN deps[c] <=> q # Len(deps[c]) + 1)
              /\ \A q \in Pos(c) : q # Len(deps[c]) + 1 => q < Len(deps[c]) + 1
         /\ \A c \in Consumers : \A p \in DOMAIN deps[c] :
              /\ deps[c][p] \in Keys /\ p \in Pos(c) /\ p + 1 \in Pos(c)
              /\ p \in Nat \ {0} /\ p + 1 # 1 /\ p + 1 # p /\ p < p + 1
              /\ \A q \in Pos(c) : q < p + 1 <=> q < p \/ q = p
<1>1. failing \subseteq Keys /\ deps \in [Consumers -> Seq(Keys)]
  <2> DEFINE pr == [deps |-> deps, failing |-> failing]
  <2>1. pr.deps = deps /\ pr.failing = failing
    OBVIOUS
  <2>2. pr \in [deps : [Consumers -> Seq(Keys)], failing : SUBSET Keys]
    BY ProblemAssumption
  <2> QED
    BY <2>1, <2>2
<1>2. ASSUME NEW c \in Consumers
      PROVE  /\ deps[c] \in Seq(Keys) /\ Len(deps[c]) \in Nat /\ DOMAIN deps[c] = 1 .. Len(deps[c])
             /\ deps[c] = <<>> <=> Len(deps[c]) = 0
  BY <1>1
<1>3. ASSUME NEW c \in Consumers
      PROVE  /\ 1 \in Pos(c) /\ Len(deps[c]) + 1 \in Pos(c)
             /\ \A q \in Pos(c) : q \in Nat /\ (q \in DOMAIN deps[c] <=> q # Len(deps[c]) + 1)
             /\ \A q \in Pos(c) : q # Len(deps[c]) + 1 => q < Len(deps[c]) + 1
  <2> DEFINE n == Len(deps[c])
  <2>1. n \in Nat /\ DOMAIN deps[c] = 1 .. n /\ Pos(c) = 1 .. n + 1
    BY <1>2 DEF Pos
  <2> HIDE DEF n
  <2>2. /\ 1 \in 1 .. n + 1 /\ n + 1 \in 1 .. n + 1
        /\ \A q \in 1 .. n + 1 : q \in Nat /\ (q \in 1 .. n <=> q # n + 1) /\ (q # n + 1 => q < n + 1)
    BY <2>1
  <2> QED
    BY <2>1, <2>2 DEF n
<1>4. ASSUME NEW c \in Consumers, NEW p \in DOMAIN deps[c]
      PROVE  /\ deps[c][p] \in Keys /\ p \in Pos(c) /\ p + 1 \in Pos(c)
             /\ p \in Nat \ {0} /\ p + 1 # 1 /\ p + 1 # p /\ p < p + 1
             /\ \A q \in Pos(c) : q < p + 1 <=> q < p \/ q = p
  <2> DEFINE n == Len(deps[c])
  <2>1. n \in Nat /\ DOMAIN deps[c] = 1 .. n /\ Pos(c) = 1 .. n + 1 /\ deps[c][p] \in Keys
    BY <1>2 DEF Pos
  <2> HIDE DEF n
  <2>2. /\ p \in 1 .. n + 1 /\ p + 1 \in 1 .. n + 1
        /\ p \in Nat \ {0} /\ p + 1 # 1 /\ p + 1 # p /\ p < p + 1
        /\ \A q \in 1 .. n + 1 : q < p + 1 <=> q < p \/ q = p
    BY <2>1
  <2> QED
    BY <2>1, <2>2
<1> QED
  BY <1>1, <1>2, <1>3, <1>4

(* Only the last position of a consumer has no key to wait for. *)
LEMMA PosOrder ==
  ASSUME [deps |-> deps, failing |-> failing] \in Problems
  PROVE  \A c \in Consumers : \A q, r \in Pos(c) : r < q => r \in DOMAIN deps[c]
<1> SUFFICES ASSUME NEW c \in Consumers, NEW q \in Pos(c), NEW r \in Pos(c), r < q
             PROVE  r \in DOMAIN deps[c]
  OBVIOUS
<1>1. Len(deps[c]) \in Nat /\ DOMAIN deps[c] = 1 .. Len(deps[c])
  BY DepsFacts
<1> QED
  BY <1>1 DEF Pos

(* The tasks there are. *)
LEMMA TaskSet ==
  ASSUME [deps |-> deps, failing |-> failing] \in Problems
  PROVE  /\ \A c \in Consumers : \A p \in Pos(c) : Blk(c, p) \in Tasks
         /\ \A c \in Consumers : Consume(c) \in Tasks
         /\ \A c : FailOf(c) \in Tasks <=> c \in Keys \cup WithFail
         /\ \A t \in Tasks : \/ \E c \in Consumers : \E p \in Pos(c) : t = Blk(c, p)
                             \/ \E c \in Consumers : t = Consume(c)
                             \/ \E c \in Keys \cup WithFail : t = FailOf(c)
         /\ \A c : FailTasks(c) = IF c \in Keys \cup WithFail THEN {FailOf(c)} ELSE {}
         /\ \A c \in Consumers : c \in Keys \/ c \in Roots
         /\ \A c \in Keys : c \in Consumers /\ c \notin Roots
         /\ \A c \in Roots : c \in Consumers /\ c \notin Keys
         /\ \A c \in Keys \cup WithFail : c \in Consumers
         /\ "none" \notin Consumers
<1>1. \A t : t \in Tasks <=> \/ \E r \in Roots : t = Task("call", r, 1)
                             \/ \E k \in Keys : t = Task("create", k, 1)
                             \/ \E c \in Consumers : \E p \in 2 .. Len(deps[c]) + 1 : t = Task("chain", c, p)
                             \/ \E c \in Consumers : t = Consume(c)
                             \/ \E c \in Keys \cup WithFail : t = FailOf(c)
  <2>1. deps \in {p.deps : p \in Problems}
    OBVIOUS
  <2>2. Tasks = Askers \cup Chains(deps) \cup Consuming \cup Failures
    BY <2>1 DEF Tasks, TasksOf
  <2>3. \A t : t \in Askers <=> (\E r \in Roots : t = Task("call", r, 1)) \/ \E k \in Keys : t = Task("create", k, 1)
    BY DEF Askers
  <2>4. \A t : t \in Chains(deps) <=>
          \E c \in Consumers : \E p \in 2 .. Len(deps[c]) + 1 : t = Task("chain", c, p)
    BY DEF Chains
  <2>5. \A t : t \in Consuming <=> \E c \in Consumers : t = Consume(c)
    BY DEF Consuming, Consume
  <2>6. \A t : t \in Failures <=> \E c \in Keys \cup WithFail : t = FailOf(c)
    BY DEF Failures, FailOf
  <2> QED
    BY <2>2, <2>3, <2>4, <2>5, <2>6
<1>2. /\ \A c \in Consumers : c \in Keys \/ c \in Roots
      /\ \A c \in Keys : c \in Consumers /\ c \notin Roots
      /\ \A c \in Roots : c \in Consumers /\ c \notin Keys
      /\ \A c \in Keys \cup WithFail : c \in Consumers
      /\ "none" \notin Consumers
  BY ConsumerAssumption DEF Consumers
<1>3. \A c \in Consumers : \A p \in Pos(c) : p # 1 <=> p \in 2 .. Len(deps[c]) + 1
  BY DepsFacts DEF Pos
<1>4. \A c \in Consumers : \A p \in 2 .. Len(deps[c]) + 1 : p \in Pos(c) /\ p # 1
  BY DepsFacts DEF Pos
<1>5. ASSUME NEW c \in Consumers, NEW p \in Pos(c)
      PROVE  Blk(c, p) \in Tasks
  <2>1. CASE p = 1 /\ c \in Roots
    BY <1>1, <2>1 DEF Blk
  <2>2. CASE p = 1 /\ c \notin Roots
    BY <1>1, <1>2, <2>2 DEF Blk
  <2>3. CASE p # 1
    BY <1>1, <1>3, <2>3 DEF Blk
  <2> QED
    BY <2>1, <2>2, <2>3
<1>6. \A c \in Consumers : Consume(c) \in Tasks
  BY <1>1
<1>7. \A c : FailOf(c) \in Tasks <=> c \in Keys \cup WithFail
  <2>1. \A c : FailOf(c).op = "fail" /\ FailOf(c).c = c
    BY DEF FailOf, Task
  <2>2. \A c, p : Task("call", c, p).op = "call" /\ Task("create", c, p).op = "create" /\ Task("chain", c, p).op = "chain"
    BY DEF Task
  <2>3. \A c : Consume(c).op = "consume"
    BY DEF Consume, Task
  <2>4. ASSUME NEW c, FailOf(c) \in Tasks
        PROVE  c \in Keys \cup WithFail
    <3>1. \E d \in Keys \cup WithFail : FailOf(c) = FailOf(d)
      BY <1>1, <2>1, <2>2, <2>3, <2>4
    <3> QED
      BY <2>1, <3>1
  <2>5. ASSUME NEW c \in Keys \cup WithFail
        PROVE  FailOf(c) \in Tasks
    BY <1>1
  <2> QED
    BY <2>4, <2>5
<1>8. ASSUME NEW t \in Tasks
      PROVE  \/ \E c \in Consumers : \E p \in Pos(c) : t = Blk(c, p)
             \/ \E c \in Consumers : t = Consume(c)
             \/ \E c \in Keys \cup WithFail : t = FailOf(c)
  <2>1. ASSUME NEW r \in Roots, t = Task("call", r, 1)
        PROVE  \E c \in Consumers : \E p \in Pos(c) : t = Blk(c, p)
    BY <2>1, <1>2, DepsFacts DEF Blk
  <2>2. ASSUME NEW k \in Keys, t = Task("create", k, 1)
        PROVE  \E c \in Consumers : \E p \in Pos(c) : t = Blk(c, p)
    BY <2>2, <1>2, DepsFacts DEF Blk
  <2>3. ASSUME NEW c \in Consumers, NEW p \in 2 .. Len(deps[c]) + 1, t = Task("chain", c, p)
        PROVE  \E d \in Consumers : \E q \in Pos(d) : t = Blk(d, q)
    BY <2>3, <1>4 DEF Blk
  <2> QED
    BY <1>1, <2>1, <2>2, <2>3
<1>9. \A c : FailTasks(c) = IF c \in Keys \cup WithFail THEN {FailOf(c)} ELSE {}
  BY <1>7 DEF FailTasks, FailOf
<1> QED
  BY <1>2, <1>5, <1>6, <1>7, <1>8, <1>9

(* What a consumer depends on. *)
LEMMA ReachFacts ==
  ASSUME [deps |-> deps, failing |-> failing] \in Problems
  PROVE  /\ \A c \in Consumers : Reach(c) \subseteq Keys
         /\ \A c \in Consumers : \A p \in DOMAIN deps[c] :
              deps[c][p] \in Reach(c) /\ Reach(deps[c][p]) \subseteq Reach(c)
         /\ \A c \in Consumers : \A k \in Reach(c) : \A p \in DOMAIN deps[k] : deps[k][p] \in Reach(c)
         /\ \A c \in Consumers : \A S \in SUBSET Keys :
              /\ \A p \in DOMAIN deps[c] : deps[c][p] \in S
              /\ \A k \in S : \A p \in DOMAIN deps[k] : deps[k][p] \in S
              => Reach(c) \subseteq S
         /\ \A k, x : x \in Succ({k}) <=> \E p \in DOMAIN deps[k] : x = deps[k][p]
<1>1. \A c, S : Succ({c} \cup S) \subseteq S <=>
        /\ \A p \in DOMAIN deps[c] : deps[c][p] \in S
        /\ \A k \in S : \A p \in DOMAIN deps[k] : deps[k][p] \in S
  <2> TAKE c, S
  <2>1. \A x : x \in Succ({c} \cup S) <=> \E k \in {c} \cup S : \E p \in DOMAIN deps[k] : x = deps[k][p]
    BY DEF Succ
  <2> QED
    BY <2>1
<1>2. \A k, x : x \in Succ({k}) <=> \E p \in DOMAIN deps[k] : x = deps[k][p]
  BY DEF Succ
<1>3. \A c \in Consumers : \A p \in DOMAIN deps[c] : deps[c][p] \in Keys /\ deps[c][p] \in Consumers
  BY DepsFacts, TaskSet
<1>4. ASSUME NEW c \in Consumers, NEW p \in DOMAIN deps[c]
      PROVE  deps[c][p] \in Reach(c) /\ Reach(deps[c][p]) \subseteq Reach(c)
  <2>1. \A S \in SUBSET Keys : Succ({c} \cup S) \subseteq S =>
          deps[c][p] \in S /\ Succ({deps[c][p]} \cup S) \subseteq S
    BY <1>1
  <2> QED
    BY <1>3, <2>1 DEF Reach
<1>5. ASSUME NEW c \in Consumers, NEW k \in Reach(c), NEW p \in DOMAIN deps[k]
      PROVE  deps[k][p] \in Reach(c)
  <2>1. k \in Keys
    BY DEF Reach
  <2>2. deps[k][p] \in Keys
    BY <1>3, <2>1, TaskSet
  <2>3. \A S \in SUBSET Keys : Succ({c} \cup S) \subseteq S => deps[k][p] \in S
    BY <1>1 DEF Reach
  <2> QED
    BY <2>2, <2>3 DEF Reach
<1>6. ASSUME NEW c \in Consumers, NEW S \in SUBSET Keys,
             \A p \in DOMAIN deps[c] : deps[c][p] \in S,
             \A k \in S : \A p \in DOMAIN deps[k] : deps[k][p] \in S
      PROVE  Reach(c) \subseteq S
  BY <1>1, <1>6 DEF Reach
<1>7. \A c \in Consumers : Reach(c) \subseteq Keys
  BY DEF Reach
<1> QED
  BY <1>2, <1>4, <1>5, <1>6, <1>7

(* Whoever asks for a key that cannot be had cannot be answered. *)
LEMMA BadFacts ==
  ASSUME [deps |-> deps, failing |-> failing] \in Problems,
         NEW c \in Consumers, NEW p \in DOMAIN deps[c], Bad(deps[c][p])
  PROVE  Bad(c)
BY ReachFacts DEF Bad

(* What is never changed. *)
LEMMA StaticFacts ==
  ASSUME UNCHANGED <<deps, failing>>
  PROVE  /\ Tasks' = Tasks
         /\ \A c : Pos(c)' = Pos(c) /\ FailTasks(c)' = FailTasks(c) /\ Reach(c)' = Reach(c) /\ Bad(c)' = Bad(c)
         /\ \A K : Succ(K)' = Succ(K)
<1>1. Tasks' = Tasks
  BY DEF Tasks
<1>2. \A K : Succ(K)' = Succ(K)
  BY DEF Succ
<1>3. \A c : Reach(c)' = Reach(c)
  BY <1>2 DEF Reach
<1> QED
  BY <1>1, <1>2, <1>3 DEF Pos, FailTasks, Bad

(* Which tasks come to which line. *)
LEMMA Kinds ==
  ASSUME Inv, NEW t \in Tasks
  PROVE  /\ st[t].pc \in Waiting => \E c \in Consumers : \E p \in DOMAIN deps[c] :
              t = Blk(c, p) /\ t.c = c /\ t.pos = p /\ Key(t) = deps[c][p]
         /\ st[t].pc \in Asking => \E c \in Consumers : t = Blk(c, 1) /\ t.c = c
         /\ At(t, "block") => \E c \in Consumers : \E p \in Pos(c) : p # 1 /\ t = Blk(c, p) /\ t.c = c /\ t.pos = p
         /\ At(t, "create") => \E k \in Keys : t = Blk(k, 1) /\ t.c = k
         /\ At(t, "log") \/ At(t, "set") => \E k \in Keys : t.c = k /\ (t = Blk(k, 1) \/ t = Consume(k))
         /\ At(t, "consume") => \E c \in Consumers : t = Consume(c) /\ t.c = c
         /\ At(t, "fail") => \E c \in Keys \cup WithFail : t = FailOf(c) /\ t.c = c
<1>0. [deps |-> deps, failing |-> failing] \in Problems
  BY DEF Inv, TypeOK
<1>1. ASSUME NEW c \in Consumers, NEW p \in Pos(c), p # 1, t = Blk(c, p)
      PROVE  /\ st[t].pc \in Waiting \cup {"none", "block", "done"}
             /\ st[t].pc \in Waiting => p \in DOMAIN deps[c]
             /\ t.c = c /\ t.pos = p
  BY <1>1, TaskFacts DEF Inv, TaskShape
<1>2. ASSUME NEW c \in Consumers, t = Blk(c, 1)
      PROVE  /\ c \in Roots => st[t].pc \in Asking \cup Waiting \cup {"done"}
             /\ c \in Keys => st[t].pc \in Asking \cup Waiting \cup {"none", "create", "log", "set", "done"}
             /\ st[t].pc \in Waiting => 1 \in DOMAIN deps[c]
             /\ t.c = c /\ t.pos = 1
  BY <1>0, <1>2, TaskFacts, DepsFacts DEF Inv, TaskShape
<1>3. ASSUME NEW c \in Consumers, t = Consume(c)
      PROVE  /\ st[t].pc \in {"none", "consume", "log", "set", "done"}
             /\ st[t].pc \in {"log", "set"} => c \in Keys
             /\ t.c = c
  BY <1>3, TaskFacts DEF Inv, TaskShape
<1>4. ASSUME NEW c \in Keys \cup WithFail, t = FailOf(c)
      PROVE  st[t].pc \in {"none", "fail", "done"} /\ t.c = c
  BY <1>4, TaskFacts DEF Inv, TaskShape
<1>5. CASE \E c \in Consumers : \E p \in Pos(c) : p # 1 /\ t = Blk(c, p)
  BY <1>1, <1>5 DEF Waiting, Asking, At, Key
<1>6. CASE \E c \in Consumers : t = Blk(c, 1)
  BY <1>0, <1>2, <1>6, TaskSet DEF Waiting, Asking, At, Key
<1>7. CASE \E c \in Consumers : t = Consume(c)
  BY <1>3, <1>7 DEF Waiting, Asking, At
<1>8. CASE \E c \in Keys \cup WithFail : t = FailOf(c)
  BY <1>4, <1>8 DEF Waiting, Asking, At
<1> QED
  BY <1>0, <1>5, <1>6, <1>7, <1>8, TaskSet

-----------------------------------------------------------------------------
(* What a step leaves alone: the tasks that are not named, and all that the  *)
(* invariant says of the nodes.                                              *)
BlksKept(S)     == \A d \in Consumers : \A q \in Pos(d) : Blk(d, q) \notin S => st'[Blk(d, q)] = st[Blk(d, q)]
ConsumesKept(S) == \A d \in Consumers : d \notin S => st'[Consume(d)] = st[Consume(d)]
FailuresKept(S) == \A d \in Keys \cup WithFail : d \notin S => st'[FailOf(d)] = st[FailOf(d)]

(* Task t goes to line l, with loop counter i and key at hand. *)
Becomes(t, l, i, key) ==
  DOMAIN st'[t] = {"pc", "i", "key"} /\ st'[t].pc = l /\ st'[t].i = i /\ st'[t].key = key
Starts(u, l) == At(u, "none") /\ Becomes(u, l, st[u].i, st[u].key)

NodeKept(k) ==
  /\ DOMAIN node'[k] = DOMAIN NoNode /\ node'[k].exists \in BOOLEAN /\ (node[k].exists => node'[k].exists)
  /\ node'[k].queued = node[k].queued /\ node'[k].ready = node[k].ready /\ node'[k].failed = node[k].failed
  /\ node'[k].awaiting = node[k].awaiting /\ node'[k].onfail = node[k].onfail
NodesKept(S) == DOMAIN node' = Keys /\ \A k \in Keys \ S : NodeKept(k)

NodeBecomes(k, queued, ready, failed, awaiting, onfail) ==
  /\ DOMAIN node'[k] = DOMAIN NoNode /\ node[k].exists /\ node'[k].exists = TRUE
  /\ node'[k].queued = queued /\ node'[k].ready = ready /\ node'[k].failed = failed
  /\ node'[k].awaiting = awaiting /\ node'[k].onfail = onfail

Static == DOMAIN st' = Tasks /\ UNCHANGED <<deps, failing, again>> /\ requests' \subseteq Keys \X Keys

(* The failure functions registered with a node that can still get a value  *)
(* are those of consumers that wait for it, and none of them is queued yet. *)
LEMMA OnFailIdle ==
  ASSUME Inv, NEW k \in Keys, ~node[k].ready
  PROVE  \A t \in node[k].onfail :
           /\ At(t, "none") /\ ~node[k].failed
           /\ \E d \in Keys \cup WithFail : \E p \in DOMAIN deps[d] :
                t = FailOf(d) /\ deps[d][p] = k /\ st[Blk(d, p)].pc \in Registering
<1> SUFFICES ASSUME NEW t \in node[k].onfail
             PROVE  /\ At(t, "none") /\ ~node[k].failed
                    /\ \E d \in Keys \cup WithFail : \E p \in DOMAIN deps[d] :
                         t = FailOf(d) /\ deps[d][p] = k /\ st[Blk(d, p)].pc \in Registering
  OBVIOUS
<1>0. [deps |-> deps, failing |-> failing] \in Problems
  BY DEF Inv, TypeOK
<1>1. PICK d \in Keys \cup WithFail : \E p \in DOMAIN deps[d] :
        t = FailOf(d) /\ deps[d][p] = k /\ st[Blk(d, p)].pc \in Registering
  BY DEF Inv, OnFailLive
<1>2. PICK p \in DOMAIN deps[d] : t = FailOf(d) /\ deps[d][p] = k /\ st[Blk(d, p)].pc \in Registering
  BY <1>1
<1>3. ~node[k].failed
  BY DEF Inv, OnFailLive
<1>4. ASSUME ~At(t, "none")
      PROVE  FALSE
  <2>1. PICK q \in DOMAIN deps[d] : node[deps[d][q]].failed /\ st[Blk(d, q)].pc \in Registering
    BY <1>2, <1>4 DEF Inv, FailureQueued
  <2>2. d \in Consumers /\ p \in Pos(d) /\ q \in Pos(d) /\ p \in Nat /\ q \in Nat /\ deps[d][q] \in Keys
    BY <1>0, TaskSet, DepsFacts
  <2>3. p # q
    BY <1>2, <1>3, <2>1
  <2>4. p < q \/ q < p
    BY <2>2, <2>3
  <2>5. ~(p < q)
    BY <1>2, <2>1, <2>2 DEF Inv, ChainInOrder, At, Registering
  <2>6. ~(q < p)
    BY <1>2, <2>1, <2>2 DEF Inv, ChainInOrder, ValueFromConsumer, At, Registering
  <2> QED
    BY <2>4, <2>5, <2>6
<1> QED
  BY <1>2, <1>3, <1>4

(* A consumer asks, waits, or goes on, and no other task is concerned. *)
LEMMA MoveNext ==
  ASSUME Inv, Static, NEW c \in Consumers, NEW p \in Pos(c), NEW l, NEW i \in Nat \ {0},
         Becomes(Blk(c, p), l, i, st[Blk(c, p)].key),
         BlksKept({Blk(c, p)}), ConsumesKept({}), FailuresKept({}), NodesKept({}), parent' = parent,
         st[Blk(c, p)].pc \in Asking \cup Waiting \cup {"create", "block"},
         l \in Asking \cup Waiting \cup {"done"},
         l \in Asking => p = 1 /\ \A q \in DOMAIN deps[c] : q < i => node[deps[c][q]].queued,
         l \in {"add", "mark"} => i \in DOMAIN deps[c], l = "mark" => node'[deps[c][i]].exists,
         l \in Waiting => p \in DOMAIN deps[c] /\ \A q \in DOMAIN deps[c] : node[deps[c][q]].queued,
         st[Blk(c, p)].pc \in Registering => l \in Registering,
         st[Blk(c, p)].pc \in Passed => l \in Passed,
         l \in {"await_test", "await_lock"} /\ c \in Keys \cup WithFail =>
           ~At(FailOf(c), "none") \/ node[deps[c][p]].ready \/ FailOf(c) \in node[deps[c][p]].onfail,
         l \in Stopped => st[Blk(c, p)].pc \in Stopped \/ Refused(c)
  PROVE  Inv'
<1>s. /\ [deps |-> deps, failing |-> failing] \in Problems
      /\ deps' = deps /\ failing' = failing /\ again' = again /\ Tasks' = Tasks
      /\ \A d : Pos(d)' = Pos(d) /\ Bad(d)' = Bad(d)
      /\ DOMAIN st' = Tasks /\ requests' \subseteq Keys \X Keys
  BY StaticFacts DEF Inv, TypeOK, Static
<1>t. /\ \A k \in Keys : k \in Consumers
      /\ \A d \in Roots : d \in Consumers
      /\ \A d \in Keys \cup WithFail : d \in Consumers
      /\ \A d \in Consumers : 1 \in Pos(d) /\ \A q, r \in Pos(d) : r < q => r \in DOMAIN deps[d]
      /\ \A d \in Consumers : \A q \in DOMAIN deps[d] :
           deps[d][q] \in Keys /\ q \in Pos(d) /\ q + 1 \in Pos(d)
  BY <1>s, PosOrder, DepsFacts, TaskSet
<1>n. /\ DOMAIN node' = Keys
      /\ \A k \in Keys :
           /\ DOMAIN node'[k] = DOMAIN NoNode /\ node'[k].exists \in BOOLEAN
           /\ node'[k].queued = node[k].queued /\ node'[k].ready = node[k].ready /\ node'[k].failed = node[k].failed
           /\ node'[k].awaiting = node[k].awaiting /\ node'[k].onfail = node[k].onfail
  BY DEF NodesKept, NodeKept
<1>b. \A d \in Consumers : \A q \in Pos(d) : (d = c /\ q = p) \/ st'[Blk(d, q)] = st[Blk(d, q)]
  BY TaskFacts DEF BlksKept
<1>c. \A d \in Consumers : st'[Consume(d)] = st[Consume(d)]
  BY DEF ConsumesKept
<1>f. \A d \in Keys \cup WithFail : st'[FailOf(d)] = st[FailOf(d)]
  BY DEF FailuresKept
<1>m. /\ st'[Blk(c, p)].pc = l /\ st'[Blk(c, p)].i = i /\ st'[Blk(c, p)].key = st[Blk(c, p)].key
      /\ DOMAIN st'[Blk(c, p)] = {"pc", "i", "key"}
  BY DEF Becomes
<1>k. Blk(c, p) \in Tasks /\ \A t \in Tasks : t = Blk(c, p) \/ st'[t] = st[t]
  BY <1>s, <1>b, <1>c, <1>f, TaskSet
<1>x. \A d \in Consumers : \A q \in Pos(d) :
        /\ At(Blk(d, q), "none")' <=> At(Blk(d, q), "none")
        /\ st[Blk(d, q)].pc \in Passed => st'[Blk(d, q)].pc \in Passed
  BY <1>b, <1>m DEF At, Asking, Waiting, Passed
<1>h. \A x \in Keys : node[x].exists => node'[x].exists
  BY DEF NodesKept, NodeKept, NodeBecomes
<1>1. TypeOK'
  BY <1>s, <1>t, <1>n, <1>k, <1>m DEF Inv, At, TypeOK, PCs, Asking, Waiting
<1>2. TaskShape'
  BY <1>s, <1>t, <1>n, <1>b, <1>c, <1>f, <1>m DEF Inv, At, TaskShape, Asking, Waiting, Passed, Registering, Stopped
<1>3. CreatorOnce'
  BY <1>s, <1>t, <1>n, <1>b, <1>c, <1>f, <1>m DEF Inv, At, CreatorOnce, Asking, Waiting, Passed, Registering, Stopped
<1>4. ChainInOrder'
  BY <1>s, <1>t, <1>n, <1>c, <1>x DEF Inv, At, ChainInOrder
<1>5. AwaitingLive'
  BY <1>s, <1>t, <1>n, <1>b, <1>c, <1>f, <1>m DEF Inv, At, AwaitingLive, Asking, Waiting, Passed, Registering, Stopped
<1>6. OnFailLive'
  BY <1>s, <1>t, <1>n, <1>b, <1>c, <1>f, <1>m DEF Inv, At, OnFailLive, Asking, Waiting, Passed, Registering, Stopped
<1>7. FailureQueued'
  BY <1>s, <1>t, <1>n, <1>b, <1>c, <1>f, <1>m DEF Inv, At, FailureQueued, Asking, Waiting, Passed, Registering, Stopped
<1>8. DepsQueued'
  <2>1. ASSUME NEW d \in Consumers, st'[Blk(d, 1)].pc \in Asking, NEW q \in DOMAIN deps[d], q < st'[Blk(d, 1)].i
        PROVE  node[deps[d][q]].queued
    <3>1. CASE d = c /\ p = 1
      BY <1>m, <2>1, <3>1
    <3>2. CASE ~(d = c /\ p = 1)
      BY <1>b, <1>t, <2>1, <3>2 DEF Inv, DepsQueued
    <3> QED
      BY <3>1, <3>2
  <2>2. ASSUME NEW d \in Consumers, NEW q \in Pos(d),
               st'[Blk(d, q)].pc \in Waiting \cup {"block"} \/ (\E k \in Keys : Blk(d, q) \in node[k].awaiting),
               NEW r \in DOMAIN deps[d]
        PROVE  node[deps[d][r]].queued
    <3>1. CASE d = c /\ q = p /\ l \in Waiting
      BY <3>1
    <3>2. CASE d = c /\ q = p /\ l \notin Waiting
      BY <1>m, <2>2, <3>2 DEF Inv, DepsQueued, Asking
    <3>3. CASE ~(d = c /\ q = p)
      BY <1>b, <2>2, <3>3 DEF Inv, DepsQueued
    <3> QED
      BY <3>1, <3>2, <3>3
  <2>3. \A k \in Keys : node'[k].queued = node[k].queued /\ node'[k].awaiting = node[k].awaiting
    BY <1>n
  <2> QED
    BY <1>s, <1>t, <2>1, <2>2, <2>3 DEF DepsQueued
<1>9. FailureRegistered'
  BY SMTT(30), <1>s, <1>t, <1>n, <1>b, <1>c, <1>f, <1>m DEF Inv, At, FailureRegistered, Asking, Waiting, Passed, Registering, Stopped
<1>10. Somewhere'
  <2>1. ASSUME NEW d \in Consumers
        PROVE  \/ At(Blk(d, 1), "none")' \/ (d \in Keys /\ node[d].failed)
               \/ Active(d)' \/ Awaits(d) \/ Refused(d) \/ ~At(Consume(d), "none")
    <3>1. CASE Active(d)
      <4>1. PICK q \in Pos(d) : st[Blk(d, q)].pc \notin Stopped
        BY <3>1 DEF Active
      <4>2. CASE d = c /\ q = p
        BY <1>s, <1>m, <4>1, <4>2 DEF Active
      <4>3. CASE ~(d = c /\ q = p)
        BY <1>s, <1>b, <4>1, <4>3 DEF Active
      <4> QED
        BY <4>2, <4>3
    <3>2. CASE ~Active(d)
      BY <1>x, <1>t, <1>c, <3>2 DEF Inv, Somewhere, At
    <3> QED
      BY <3>1, <3>2
  <2>2. \A d \in Consumers : /\ Awaits(d)' = Awaits(d)
                             /\ Refused(d)' = Refused(d)
                             /\ At(Consume(d), "none")' = At(Consume(d), "none")
    BY <1>s, <1>t, <1>n, <1>c, <1>f DEF Awaits, Refused, Answerable, At
  <2> QED
    BY <1>s, <1>t, <1>n, <2>1, <2>2 DEF Somewhere, At
<1>11. FailureCaused'
  <2>1. \A t \in Tasks : t = Blk(c, p) => ~At(t, "log")' /\ ~At(t, "set")'
    BY <1>m DEF At, Asking, Waiting
  <2> QED
    BY <1>s, <1>t, <1>n, <1>k, <2>1 DEF Inv, At, FailureCaused
<1>12. ValueFromConsumer'
  BY <1>s, <1>t, <1>n, <1>b, <1>c, <1>f, <1>m DEF Inv, At, ValueFromConsumer, Asking, Waiting, Passed, Registering, Stopped
<1>13. KnownNodes'
  <2>1. \A x \in Keys : \/ node'[x].exists
                        \/ /\ ~node'[x].queued /\ ~node'[x].ready /\ ~node'[x].failed
                           /\ node'[x].awaiting = {} /\ node'[x].onfail = {}
    <3> SUFFICES ASSUME NEW x \in Keys, ~node'[x].exists
                 PROVE  /\ ~node'[x].queued /\ ~node'[x].ready /\ ~node'[x].failed
                        /\ node'[x].awaiting = {} /\ node'[x].onfail = {}
      OBVIOUS
    <3>1. ~node[x].exists
      BY <1>h
    <3>2. /\ ~node[x].queued /\ ~node[x].ready /\ ~node[x].failed
          /\ node[x].awaiting = {} /\ node[x].onfail = {}
      BY <3>1 DEF Inv, KnownNodes
    <3>3. /\ node'[x].queued = node[x].queued /\ node'[x].ready = node[x].ready /\ node'[x].failed = node[x].failed
          /\ node'[x].awaiting = node[x].awaiting /\ node'[x].onfail = node[x].onfail
      BY <1>n
    <3> QED
      BY <3>2, <3>3
  <2>2. ASSUME NEW x \in Consumers, st'[Blk(x, 1)].pc = "mark"
        PROVE  node'[deps[x][st'[Blk(x, 1)].i]].exists
    <3>1. st[Blk(x, 1)].pc = "mark" => st[Blk(x, 1)].i \in DOMAIN deps[x] /\ node[deps[x][st[Blk(x, 1)].i]].exists
      BY <1>t DEF Inv, TaskShape, KnownNodes, At
    <3>2. CASE st'[Blk(x, 1)] = st[Blk(x, 1)]
      BY <1>t, <1>h, <2>2, <3>1, <3>2
    <3>3. CASE st'[Blk(x, 1)] # st[Blk(x, 1)]
      <4>1. x = c /\ p = 1
        BY <1>t, <1>b, <3>3
      <4>2. l = "mark" /\ st'[Blk(x, 1)].i = i
        BY <1>m, <2>2, <4>1
      <4> QED
        BY <4>1, <4>2
    <3> QED
      BY <3>2, <3>3
  <2>3. ASSUME NEW x \in Keys, NEW y \in Keys
        PROVE  /\ At(Blk(x, 1), "log")' /\ st'[Blk(x, 1)].key = y => node'[y].exists
               /\ At(Consume(x), "log")' /\ st'[Consume(x)].key = y => node'[y].exists
               /\ parent'[x] = y => node'[y].exists
    <3>1. /\ st[Blk(x, 1)].pc = "log" /\ st[Blk(x, 1)].key = y => node'[y].exists
          /\ st[Consume(x)].pc = "log" /\ st[Consume(x)].key = y => node'[y].exists
          /\ parent[x] = y => node'[y].exists
      BY <1>h DEF Inv, KnownNodes, At
    <3> QED
      BY <1>s, <1>t, <1>n, <1>b, <1>c, <1>f, <1>m, <1>h, <3>1 DEF At, Asking, Waiting
  <2> QED
    BY <1>s, <2>1, <2>2, <2>3 DEF KnownNodes, At
<1> QED
  BY <1>1, <1>2, <1>3, <1>4, <1>5, <1>6, <1>7, <1>8, <1>9, <1>10, <1>11, <1>12, <1>13 DEF Inv

(* The last task of a consumer queues the consumer itself. *)
LEMMA ConsumeQueuedNext ==
  ASSUME Inv, Static, NEW c \in Consumers, NEW p \in Pos(c), p \notin DOMAIN deps[c],
         st[Blk(c, p)].pc \in {"ensure", "block"}, \A q \in Pos(c) : q = p \/ q < p,
         Becomes(Blk(c, p), "done", 1, st[Blk(c, p)].key), Starts(Consume(c), "consume"),
         BlksKept({Blk(c, p)}), ConsumesKept({c}), FailuresKept({}), NodesKept({}), parent' = parent
  PROVE  Inv'
<1>s. /\ [deps |-> deps, failing |-> failing] \in Problems
      /\ deps' = deps /\ failing' = failing /\ again' = again /\ Tasks' = Tasks
      /\ \A d : Pos(d)' = Pos(d) /\ Bad(d)' = Bad(d)
      /\ DOMAIN st' = Tasks /\ requests' \subseteq Keys \X Keys
  BY StaticFacts DEF Inv, TypeOK, Static
<1>t. /\ \A k \in Keys : k \in Consumers
      /\ \A d \in Roots : d \in Consumers
      /\ \A d \in Keys \cup WithFail : d \in Consumers
      /\ \A d \in Consumers : 1 \in Pos(d) /\ \A q, r \in Pos(d) : r < q => r \in DOMAIN deps[d]
      /\ \A d \in Consumers : \A q \in DOMAIN deps[d] :
           deps[d][q] \in Keys /\ q \in Pos(d) /\ q + 1 \in Pos(d)
  BY <1>s, PosOrder, DepsFacts, TaskSet
<1>n. /\ DOMAIN node' = Keys
      /\ \A k \in Keys :
           /\ DOMAIN node'[k] = DOMAIN NoNode /\ node'[k].exists \in BOOLEAN
           /\ node'[k].queued = node[k].queued /\ node'[k].ready = node[k].ready /\ node'[k].failed = node[k].failed
           /\ node'[k].awaiting = node[k].awaiting /\ node'[k].onfail = node[k].onfail
  BY DEF NodesKept, NodeKept
<1>b. \A d \in Consumers : \A q \in Pos(d) : (d = c /\ q = p) \/ st'[Blk(d, q)] = st[Blk(d, q)]
  BY TaskFacts DEF BlksKept
<1>c. \A d \in Consumers : d = c \/ st'[Consume(d)] = st[Consume(d)]
  BY DEF ConsumesKept
<1>f. \A d \in Keys \cup WithFail : st'[FailOf(d)] = st[FailOf(d)]
  BY DEF FailuresKept
<1>m. /\ st'[Blk(c, p)].pc = "done" /\ st'[Blk(c, p)].i = 1
      /\ st'[Blk(c, p)].key = st[Blk(c, p)].key
      /\ DOMAIN st'[Blk(c, p)] = {"pc", "i", "key"}
  BY DEF Becomes
<1>u. /\ st[Consume(c)].pc = "none" /\ st'[Consume(c)].pc = "consume"
      /\ st'[Consume(c)].i = st[Consume(c)].i /\ st'[Consume(c)].key = st[Consume(c)].key
      /\ DOMAIN st'[Consume(c)] = {"pc", "i", "key"}
  BY DEF Becomes, Starts, At
<1>k. /\ Blk(c, p) \in Tasks /\ Consume(c) \in Tasks
      /\ \A t \in Tasks : t = Blk(c, p) \/ t = Consume(c) \/ st'[t] = st[t]
  BY <1>s, <1>t, <1>b, <1>c, <1>f, TaskSet
<1>z. \A q \in Pos(c) : q = p \/ (st[Blk(c, q)].pc \in Passed /\ q \in DOMAIN deps[c] /\ node[deps[c][q]].ready)
  BY <1>t DEF Inv, ChainInOrder, At
<1>h. \A x \in Keys : node[x].exists => node'[x].exists
  BY DEF NodesKept, NodeKept, NodeBecomes
<1>1. TypeOK'
  BY <1>s, <1>t, <1>n, <1>k, <1>m, <1>u DEF Inv, At, TypeOK, PCs, Asking, Waiting
<1>2. TaskShape'
  BY <1>s, <1>t, <1>n, <1>b, <1>c, <1>f, <1>m, <1>u DEF Inv, At, TaskShape, Asking, Waiting, Passed, Registering, Stopped
<1>3. CreatorOnce'
  BY <1>s, <1>t, <1>n, <1>b, <1>c, <1>f, <1>m, <1>u DEF Inv, At, CreatorOnce, Asking, Waiting, Passed, Registering, Stopped
<1>4. ChainInOrder'
  BY <1>s, <1>t, <1>n, <1>b, <1>c, <1>f, <1>m, <1>u, <1>z DEF Inv, At, ChainInOrder, Asking, Waiting, Passed, Registering, Stopped
<1>5. AwaitingLive'
  BY <1>s, <1>t, <1>n, <1>b, <1>c, <1>f, <1>m, <1>u DEF Inv, At, AwaitingLive, Asking, Waiting, Passed, Registering, Stopped
<1>6. OnFailLive'
  BY <1>s, <1>t, <1>n, <1>b, <1>c, <1>f, <1>m, <1>u DEF Inv, At, OnFailLive, Asking, Waiting, Passed, Registering, Stopped
<1>7. FailureQueued'
  BY <1>s, <1>t, <1>n, <1>b, <1>c, <1>f, <1>m, <1>u DEF Inv, At, FailureQueued, Asking, Waiting, Passed, Registering, Stopped
<1>8. DepsQueued'
  BY SMTT(30), <1>s, <1>t, <1>n, <1>b, <1>c, <1>f, <1>m, <1>u DEF Inv, At, DepsQueued, Asking, Waiting, Passed, Registering, Stopped
<1>9. FailureRegistered'
  BY <1>s, <1>t, <1>n, <1>b, <1>c, <1>f, <1>m, <1>u DEF Inv, At, FailureRegistered, Asking, Waiting, Passed, Registering, Stopped
<1>10. Somewhere'
  <2>1. ASSUME NEW d \in Consumers, d # c
        PROVE  /\ At(Blk(d, 1), "none")' = At(Blk(d, 1), "none") /\ Active(d)' = Active(d)
               /\ At(Consume(d), "none")' = At(Consume(d), "none")
    BY <1>s, <1>t, <1>b, <1>c, <2>1 DEF At, Active
  <2>2. ~At(Consume(c), "none")'
    BY <1>u DEF At
  <2>3. \A d \in Consumers : /\ Awaits(d)' = Awaits(d) /\ Refused(d)' = Refused(d)
                             /\ d \in Keys => node'[d].failed = node[d].failed
    BY <1>s, <1>t, <1>n, <1>f DEF Awaits, Refused, Answerable, At
  <2> QED
    BY <1>s, <2>1, <2>2, <2>3 DEF Inv, Somewhere
<1>11. FailureCaused'
  <2>1. \A t \in Tasks : t = Blk(c, p) \/ t = Consume(c) => ~At(t, "log")' /\ ~At(t, "set")'
    BY <1>m, <1>u DEF At, Asking, Waiting
  <2> QED
    BY <1>s, <1>t, <1>n, <1>k, <2>1 DEF Inv, At, FailureCaused
<1>12. ValueFromConsumer'
  BY <1>s, <1>t, <1>n, <1>b, <1>c, <1>f, <1>m, <1>u DEF Inv, At, ValueFromConsumer, Asking, Waiting, Passed, Registering, Stopped
<1>13. KnownNodes'
  <2>1. \A x \in Keys : \/ node'[x].exists
                        \/ /\ ~node'[x].queued /\ ~node'[x].ready /\ ~node'[x].failed
                           /\ node'[x].awaiting = {} /\ node'[x].onfail = {}
    <3> SUFFICES ASSUME NEW x \in Keys, ~node'[x].exists
                 PROVE  /\ ~node'[x].queued /\ ~node'[x].ready /\ ~node'[x].failed
                        /\ node'[x].awaiting = {} /\ node'[x].onfail = {}
      OBVIOUS
    <3>1. ~node[x].exists
      BY <1>h
    <3>2. /\ ~node[x].queued /\ ~node[x].ready /\ ~node[x].failed
          /\ node[x].awaiting = {} /\ node[x].onfail = {}
      BY <3>1 DEF Inv, KnownNodes
    <3>3. /\ node'[x].queued = node[x].queued /\ node'[x].ready = node[x].ready /\ node'[x].failed = node[x].failed
          /\ node'[x].awaiting = node[x].awaiting /\ node'[x].onfail = node[x].onfail
      BY <1>n
    <3> QED
      BY <3>2, <3>3
  <2>2. ASSUME NEW x \in Consumers, st'[Blk(x, 1)].pc = "mark"
        PROVE  node'[deps[x][st'[Blk(x, 1)].i]].exists
    <3>1. st[Blk(x, 1)].pc = "mark" => st[Blk(x, 1)].i \in DOMAIN deps[x] /\ node[deps[x][st[Blk(x, 1)].i]].exists
      BY <1>t DEF Inv, TaskShape, KnownNodes, At
    <3>2. CASE st'[Blk(x, 1)] = st[Blk(x, 1)]
      BY <1>t, <1>h, <2>2, <3>1, <3>2
    <3>3. CASE st'[Blk(x, 1)] # st[Blk(x, 1)]
      BY <1>s, <1>t, <1>n, <1>b, <1>c, <1>f, <1>m, <1>u, <1>h, <2>2, <3>1, <3>3
    <3> QED
      BY <3>2, <3>3
  <2>3. ASSUME NEW x \in Keys, NEW y \in Keys
        PROVE  /\ At(Blk(x, 1), "log")' /\ st'[Blk(x, 1)].key = y => node'[y].exists
               /\ At(Consume(x), "log")' /\ st'[Consume(x)].key = y => node'[y].exists
               /\ parent'[x] = y => node'[y].exists
    <3>1. /\ st[Blk(x, 1)].pc = "log" /\ st[Blk(x, 1)].key = y => node'[y].exists
          /\ st[Consume(x)].pc = "log" /\ st[Consume(x)].key = y => node'[y].exists
          /\ parent[x] = y => node'[y].exists
      BY <1>h DEF Inv, KnownNodes, At
    <3> QED
      BY <1>s, <1>t, <1>n, <1>b, <1>c, <1>f, <1>m, <1>u, <1>h, <3>1 DEF At, Asking, Waiting
  <2> QED
    BY <1>s, <2>1, <2>2, <2>3 DEF KnownNodes, At
<1> QED
  BY <1>1, <1>2, <1>3, <1>4, <1>5, <1>6, <1>7, <1>8, <1>9, <1>10, <1>11, <1>12, <1>13 DEF Inv

(* A task of a consumer finds its node ready and queues the next task. *)
LEMMA NextQueuedNext ==
  ASSUME Inv, Static, NEW c \in Consumers, NEW p \in DOMAIN deps[c], node[deps[c][p]].ready,
         st[Blk(c, p)].pc \in {"await_test", "await_lock"},
         Becomes(Blk(c, p), "done", 1, st[Blk(c, p)].key), Starts(Blk(c, p + 1), "block"),
         BlksKept({Blk(c, p), Blk(c, p + 1)}), ConsumesKept({}), FailuresKept({}), NodesKept({}),
         parent' = parent
  PROVE  Inv'
<1>s. /\ [deps |-> deps, failing |-> failing] \in Problems
      /\ deps' = deps /\ failing' = failing /\ again' = again /\ Tasks' = Tasks
      /\ \A d : Pos(d)' = Pos(d) /\ Bad(d)' = Bad(d)
      /\ DOMAIN st' = Tasks /\ requests' \subseteq Keys \X Keys
  BY StaticFacts DEF Inv, TypeOK, Static
<1>t. /\ \A k \in Keys : k \in Consumers
      /\ \A d \in Roots : d \in Consumers
      /\ \A d \in Keys \cup WithFail : d \in Consumers
      /\ \A d \in Consumers : 1 \in Pos(d) /\ \A q, r \in Pos(d) : r < q => r \in DOMAIN deps[d]
      /\ \A d \in Consumers : \A q \in DOMAIN deps[d] :
           deps[d][q] \in Keys /\ q \in Pos(d) /\ q + 1 \in Pos(d)
  BY <1>s, PosOrder, DepsFacts, TaskSet
<1>n. /\ DOMAIN node' = Keys
      /\ \A k \in Keys :
           /\ DOMAIN node'[k] = DOMAIN NoNode /\ node'[k].exists \in BOOLEAN
           /\ node'[k].queued = node[k].queued /\ node'[k].ready = node[k].ready /\ node'[k].failed = node[k].failed
           /\ node'[k].awaiting = node[k].awaiting /\ node'[k].onfail = node[k].onfail
  BY DEF NodesKept, NodeKept
<1>o. /\ p \in Pos(c) /\ p + 1 \in Pos(c) /\ p + 1 # 1 /\ p + 1 # p
      /\ \A q \in Pos(c) : q < p + 1 <=> q < p \/ q = p
      /\ \A q \in Pos(c) : p + 1 < q => p < q
  BY <1>s, DepsFacts DEF Pos
<1>b. \A d \in Consumers : \A q \in Pos(d) :
        (d = c /\ (q = p \/ q = p + 1)) \/ st'[Blk(d, q)] = st[Blk(d, q)]
  BY TaskFacts DEF BlksKept
<1>c. \A d \in Consumers : st'[Consume(d)] = st[Consume(d)]
  BY DEF ConsumesKept
<1>f. \A d \in Keys \cup WithFail : st'[FailOf(d)] = st[FailOf(d)]
  BY DEF FailuresKept
<1>m. /\ st'[Blk(c, p)].pc = "done" /\ st'[Blk(c, p)].i = 1
      /\ st'[Blk(c, p)].key = st[Blk(c, p)].key
      /\ DOMAIN st'[Blk(c, p)] = {"pc", "i", "key"}
  BY DEF Becomes
<1>u. /\ st[Blk(c, p + 1)].pc = "none" /\ st'[Blk(c, p + 1)].pc = "block"
      /\ st'[Blk(c, p + 1)].i = st[Blk(c, p + 1)].i
      /\ st'[Blk(c, p + 1)].key = st[Blk(c, p + 1)].key
      /\ DOMAIN st'[Blk(c, p + 1)] = {"pc", "i", "key"}
  BY DEF Becomes, Starts, At
<1>k. /\ Blk(c, p) \in Tasks /\ Blk(c, p + 1) \in Tasks
      /\ \A t \in Tasks : t = Blk(c, p) \/ t = Blk(c, p + 1) \/ st'[t] = st[t]
  BY <1>s, <1>t, <1>b, <1>c, <1>f, TaskSet
<1>z. \A q \in DOMAIN deps[c] : node[deps[c][q]].queued
  BY <1>o DEF Inv, DepsQueued, Waiting
<1>y. /\ \A q \in Pos(c) : q < p => st[Blk(c, q)].pc \in Passed /\ node[deps[c][q]].ready
      /\ \A q \in Pos(c) : ~(p < q) \/ At(Blk(c, q), "none")
      /\ \A k \in Keys : Blk(c, p + 1) \notin node[k].awaiting
  <2>1. st[Blk(c, p)].pc \notin Passed
    BY DEF Passed
  <2>2. \A k \in Keys : Blk(c, p + 1) \notin node[k].awaiting
    <3>1. \A d, q : Blk(d, q) = Blk(c, p + 1) => d = c /\ q = p + 1
      BY TaskFacts
    <3>2. \A d \in Consumers : \A q \in DOMAIN deps[d] : d = c /\ q + 1 = p + 1 => q = p
      BY <1>o, <1>s, DepsFacts
    <3> QED
      BY <2>1, <3>1, <3>2 DEF Inv, AwaitingLive
  <2> QED
    BY <1>o, <2>1, <2>2 DEF Inv, ChainInOrder, At
<1>h. \A x \in Keys : node[x].exists => node'[x].exists
  BY DEF NodesKept, NodeKept, NodeBecomes
<1>1. TypeOK'
  BY <1>s, <1>t, <1>n, <1>k, <1>m, <1>u DEF Inv, At, TypeOK, PCs, Asking, Waiting
<1>2. TaskShape'
  BY <1>s, <1>t, <1>n, <1>o, <1>b, <1>c, <1>f, <1>m, <1>u, <1>z DEF Inv, At, TaskShape, Asking, Waiting, Passed, Registering, Stopped
<1>3. CreatorOnce'
  BY <1>s, <1>t, <1>n, <1>o, <1>b, <1>c, <1>f, <1>m, <1>u, <1>z DEF Inv, At, CreatorOnce, Asking, Waiting, Passed, Registering, Stopped
<1>4. ChainInOrder'
  BY <1>s, <1>t, <1>n, <1>o, <1>b, <1>c, <1>f, <1>m, <1>u, <1>z, <1>y DEF Inv, At, ChainInOrder, Asking, Waiting, Passed, Registering, Stopped
<1>5. AwaitingLive'
  BY <1>s, <1>t, <1>n, <1>o, <1>b, <1>c, <1>f, <1>m, <1>u, <1>z, <1>y DEF Inv, At, AwaitingLive, Asking, Waiting, Passed, Registering, Stopped
<1>6. OnFailLive'
  BY <1>s, <1>t, <1>n, <1>o, <1>b, <1>c, <1>f, <1>m, <1>u, <1>z DEF Inv, At, OnFailLive, Asking, Waiting, Passed, Registering, Stopped
<1>7. FailureQueued'
  BY <1>s, <1>t, <1>n, <1>o, <1>b, <1>c, <1>f, <1>m, <1>u, <1>z DEF Inv, At, FailureQueued, Asking, Waiting, Passed, Registering, Stopped
<1>8. DepsQueued'
  BY <1>s, <1>t, <1>n, <1>o, <1>b, <1>c, <1>f, <1>m, <1>u, <1>z DEF Inv, At, DepsQueued, Asking, Waiting, Passed, Registering, Stopped
<1>9. FailureRegistered'
  BY <1>s, <1>t, <1>n, <1>o, <1>b, <1>c, <1>f, <1>m, <1>u, <1>z DEF Inv, At, FailureRegistered, Asking, Waiting, Passed, Registering, Stopped
<1>10. Somewhere'
  <2> SUFFICES ASSUME NEW d \in Consumers
               PROVE  (\/ At(Blk(d, 1), "none") \/ (d \in Keys /\ node[d].failed)
                       \/ Active(d) \/ Awaits(d) \/ Refused(d) \/ ~At(Consume(d), "none"))'
    BY <1>s DEF Somewhere
  <2>1. CASE d = c
    <3>1. p + 1 \in Pos(d) /\ p + 1 \in Pos(d)' /\ st'[Blk(d, p + 1)].pc \notin Stopped
      BY <2>1, <1>s, <1>o, <1>u DEF Stopped, Pos
    <3> QED BY <3>1 DEF Active
  <2>2. CASE d # c
    <3>1. /\ Pos(d)' = Pos(d) /\ deps'[d] = deps[d] /\ 1 \in Pos(d)
          /\ \A q \in DOMAIN deps[d] : q \in Pos(d) /\ q + 1 \in Pos(d) /\ deps[d][q] \in Keys
          /\ \A q \in Pos(d) : st'[Blk(d, q)] = st[Blk(d, q)]
      BY <2>2, <1>s, <1>t, <1>b DEF Pos
    <3>2. \/ At(Blk(d, 1), "none") \/ (d \in Keys /\ node[d].failed)
          \/ Active(d) \/ Awaits(d) \/ Refused(d) \/ ~At(Consume(d), "none")
      BY DEF Inv, Somewhere
    <3>3. At(Blk(d, 1), "none") => At(Blk(d, 1), "none")'
      BY <3>1 DEF At
    <3>4. d \in Keys /\ node[d].failed => node'[d].failed
      BY <1>n
    <3>5. Active(d) => Active(d)'
      BY <3>1 DEF Active
    <3>6. Awaits(d) => Awaits(d)'
      BY <3>1, <1>n DEF Awaits
    <3>7. Refused(d) => Refused(d)'
      BY <3>1, <1>n, <1>f DEF Refused, Answerable, At
    <3>8. ~At(Consume(d), "none") => ~At(Consume(d), "none")'
      BY <1>c DEF At
    <3> QED BY <3>2, <3>3, <3>4, <3>5, <3>6, <3>7, <3>8
  <2> QED BY <2>1, <2>2
<1>11. FailureCaused'
  <2>1. \A t \in Tasks : t = Blk(c, p) \/ t = Blk(c, p + 1) => ~At(t, "log")' /\ ~At(t, "set")'
    BY <1>m, <1>u DEF At, Asking, Waiting
  <2> QED
    BY <1>s, <1>t, <1>n, <1>k, <2>1 DEF Inv, At, FailureCaused
<1>12. ValueFromConsumer'
  BY <1>s, <1>t, <1>n, <1>o, <1>b, <1>c, <1>f, <1>m, <1>u, <1>z DEF Inv, At, ValueFromConsumer, Asking, Waiting, Passed, Registering, Stopped
<1>13. KnownNodes'
  <2>1. \A x \in Keys : \/ node'[x].exists
                        \/ /\ ~node'[x].queued /\ ~node'[x].ready /\ ~node'[x].failed
                           /\ node'[x].awaiting = {} /\ node'[x].onfail = {}
    <3> SUFFICES ASSUME NEW x \in Keys, ~node'[x].exists
                 PROVE  /\ ~node'[x].queued /\ ~node'[x].ready /\ ~node'[x].failed
                        /\ node'[x].awaiting = {} /\ node'[x].onfail = {}
      OBVIOUS
    <3>1. ~node[x].exists
      BY <1>h
    <3>2. /\ ~node[x].queued /\ ~node[x].ready /\ ~node[x].failed
          /\ node[x].awaiting = {} /\ node[x].onfail = {}
      BY <3>1 DEF Inv, KnownNodes
    <3>3. /\ node'[x].queued = node[x].queued /\ node'[x].ready = node[x].ready /\ node'[x].failed = node[x].failed
          /\ node'[x].awaiting = node[x].awaiting /\ node'[x].onfail = node[x].onfail
      BY <1>n
    <3> QED
      BY <3>2, <3>3
  <2>2. ASSUME NEW x \in Consumers, st'[Blk(x, 1)].pc = "mark"
        PROVE  node'[deps[x][st'[Blk(x, 1)].i]].exists
    <3>1. st[Blk(x, 1)].pc = "mark" => st[Blk(x, 1)].i \in DOMAIN deps[x] /\ node[deps[x][st[Blk(x, 1)].i]].exists
      BY <1>t DEF Inv, TaskShape, KnownNodes, At
    <3>2. CASE st'[Blk(x, 1)] = st[Blk(x, 1)]
      BY <1>t, <1>h, <2>2, <3>1, <3>2
    <3>3. CASE st'[Blk(x, 1)] # st[Blk(x, 1)]
      BY <1>s, <1>t, <1>n, <1>o, <1>b, <1>c, <1>f, <1>m, <1>u, <1>z, <1>h, <2>2, <3>1, <3>3
    <3> QED
      BY <3>2, <3>3
  <2>3. ASSUME NEW x \in Keys, NEW y \in Keys
        PROVE  /\ At(Blk(x, 1), "log")' /\ st'[Blk(x, 1)].key = y => node'[y].exists
               /\ At(Consume(x), "log")' /\ st'[Consume(x)].key = y => node'[y].exists
               /\ parent'[x] = y => node'[y].exists
    <3>1. /\ st[Blk(x, 1)].pc = "log" /\ st[Blk(x, 1)].key = y => node'[y].exists
          /\ st[Consume(x)].pc = "log" /\ st[Consume(x)].key = y => node'[y].exists
          /\ parent[x] = y => node'[y].exists
      BY <1>h DEF Inv, KnownNodes, At
    <3> QED
      BY <1>s, <1>t, <1>n, <1>o, <1>b, <1>c, <1>f, <1>m, <1>u, <1>z, <1>h, <3>1 DEF At, Asking, Waiting
  <2> QED
    BY <1>s, <2>1, <2>2, <2>3 DEF KnownNodes, At
<1> QED
  BY <1>1, <1>2, <1>3, <1>4, <1>5, <1>6, <1>7, <1>8, <1>9, <1>10, <1>11, <1>12, <1>13 DEF Inv

(* The failure function of a consumer is queued once a node it waits for has failed. *)
LEMMA FailureQueuedNext ==
  ASSUME Inv, Static, NEW c \in Keys \cup WithFail, NEW p \in DOMAIN deps[c],
         node[deps[c][p]].failed,
         At(Blk(c, p), "onfail_lock"),
         Becomes(Blk(c, p), "await_test", st[Blk(c, p)].i, st[Blk(c, p)].key),
         Starts(FailOf(c), "fail"),
         BlksKept({Blk(c, p)}), ConsumesKept({}), FailuresKept({c}), NodesKept({}), parent' = parent
  PROVE  Inv'
<1>s. /\ [deps |-> deps, failing |-> failing] \in Problems
      /\ deps' = deps /\ failing' = failing /\ again' = again /\ Tasks' = Tasks
      /\ \A d : Pos(d)' = Pos(d) /\ Bad(d)' = Bad(d)
      /\ DOMAIN st' = Tasks /\ requests' \subseteq Keys \X Keys
  BY StaticFacts DEF Inv, TypeOK, Static
<1>t. /\ \A k \in Keys : k \in Consumers
      /\ \A d \in Roots : d \in Consumers
      /\ \A d \in Keys \cup WithFail : d \in Consumers
      /\ \A d \in Consumers : 1 \in Pos(d) /\ \A q, r \in Pos(d) : r < q => r \in DOMAIN deps[d]
      /\ \A d \in Consumers : \A q \in DOMAIN deps[d] :
           deps[d][q] \in Keys /\ q \in Pos(d) /\ q + 1 \in Pos(d)
  BY <1>s, PosOrder, DepsFacts, TaskSet
<1>n. /\ DOMAIN node' = Keys
      /\ \A k \in Keys :
           /\ DOMAIN node'[k] = DOMAIN NoNode /\ node'[k].exists \in BOOLEAN
           /\ node'[k].queued = node[k].queued /\ node'[k].ready = node[k].ready /\ node'[k].failed = node[k].failed
           /\ node'[k].awaiting = node[k].awaiting /\ node'[k].onfail = node[k].onfail
  BY DEF NodesKept, NodeKept
<1>o. c \in Consumers /\ p \in Pos(c)
  BY <1>s, <1>t
<1>b. \A d \in Consumers : \A q \in Pos(d) : (d = c /\ q = p) \/ st'[Blk(d, q)] = st[Blk(d, q)]
  BY TaskFacts DEF BlksKept
<1>c. \A d \in Consumers : st'[Consume(d)] = st[Consume(d)]
  BY DEF ConsumesKept
<1>f. \A d \in Keys \cup WithFail : d = c \/ st'[FailOf(d)] = st[FailOf(d)]
  BY DEF FailuresKept
<1>m. /\ st'[Blk(c, p)].pc = "await_test" /\ st'[Blk(c, p)].i = st[Blk(c, p)].i
      /\ st'[Blk(c, p)].key = st[Blk(c, p)].key
      /\ DOMAIN st'[Blk(c, p)] = {"pc", "i", "key"}
  BY DEF Becomes
<1>u. /\ st[FailOf(c)].pc = "none" /\ st'[FailOf(c)].pc = "fail"
      /\ st'[FailOf(c)].i = st[FailOf(c)].i /\ st'[FailOf(c)].key = st[FailOf(c)].key
      /\ DOMAIN st'[FailOf(c)] = {"pc", "i", "key"}
  BY DEF Becomes, Starts, At
<1>k. /\ Blk(c, p) \in Tasks /\ FailOf(c) \in Tasks
      /\ \A t \in Tasks : t = Blk(c, p) \/ t = FailOf(c) \/ st'[t] = st[t]
  BY <1>s, <1>t, <1>b, <1>c, <1>f, TaskSet
<1>h. \A x \in Keys : node[x].exists => node'[x].exists
  BY DEF NodesKept, NodeKept, NodeBecomes
<1>1. TypeOK'
  BY <1>s, <1>t, <1>n, <1>k, <1>m, <1>u DEF Inv, At, TypeOK, PCs, Asking, Waiting
<1>2. TaskShape'
  BY <1>s, <1>t, <1>n, <1>o, <1>b, <1>c, <1>f, <1>m, <1>u DEF Inv, At, TaskShape, Asking, Waiting, Passed, Registering, Stopped
<1>3. CreatorOnce'
  BY <1>s, <1>t, <1>n, <1>o, <1>b, <1>c, <1>f, <1>m, <1>u DEF Inv, At, CreatorOnce, Asking, Waiting, Passed, Registering, Stopped
<1>4. ChainInOrder'
  BY <1>s, <1>t, <1>n, <1>o, <1>b, <1>c, <1>f, <1>m, <1>u DEF Inv, At, ChainInOrder, Asking, Waiting, Passed, Registering, Stopped
<1>5. AwaitingLive'
  BY <1>s, <1>t, <1>n, <1>o, <1>b, <1>c, <1>f, <1>m, <1>u DEF Inv, At, AwaitingLive, Asking, Waiting, Passed, Registering, Stopped
<1>6. OnFailLive'
  BY <1>s, <1>t, <1>n, <1>o, <1>b, <1>c, <1>f, <1>m, <1>u DEF Inv, At, OnFailLive, Asking, Waiting, Passed, Registering, Stopped
<1>7. FailureQueued'
  BY <1>s, <1>t, <1>n, <1>o, <1>b, <1>c, <1>f, <1>m, <1>u DEF Inv, At, FailureQueued, Asking, Waiting, Passed, Registering, Stopped
<1>8. DepsQueued'
  BY <1>s, <1>t, <1>n, <1>o, <1>b, <1>c, <1>f, <1>m, <1>u DEF Inv, At, DepsQueued, Asking, Waiting, Passed, Registering, Stopped
<1>9. FailureRegistered'
  BY <1>s, <1>t, <1>n, <1>o, <1>b, <1>c, <1>f, <1>m, <1>u DEF Inv, At, FailureRegistered, Asking, Waiting, Passed, Registering, Stopped
<1>10. Somewhere'
  BY <1>s, <1>t, <1>n, <1>o, <1>b, <1>c, <1>f, <1>m, <1>u DEF Inv, At, Somewhere, Active, Awaits, Refused, Answerable, Asking, Waiting, Passed, Registering, Stopped
<1>11. FailureCaused'
  <2>1. \A t \in Tasks : t = Blk(c, p) \/ t = FailOf(c) => ~At(t, "log")' /\ ~At(t, "set")'
    BY <1>m, <1>u DEF At, Asking, Waiting
  <2> QED
    BY <1>s, <1>t, <1>n, <1>k, <2>1 DEF Inv, At, FailureCaused
<1>12. ValueFromConsumer'
  BY <1>s, <1>t, <1>n, <1>o, <1>b, <1>c, <1>f, <1>m, <1>u DEF Inv, At, ValueFromConsumer, Asking, Waiting, Passed, Registering, Stopped
<1>13. KnownNodes'
  <2>1. \A x \in Keys : \/ node'[x].exists
                        \/ /\ ~node'[x].queued /\ ~node'[x].ready /\ ~node'[x].failed
                           /\ node'[x].awaiting = {} /\ node'[x].onfail = {}
    <3> SUFFICES ASSUME NEW x \in Keys, ~node'[x].exists
                 PROVE  /\ ~node'[x].queued /\ ~node'[x].ready /\ ~node'[x].failed
                        /\ node'[x].awaiting = {} /\ node'[x].onfail = {}
      OBVIOUS
    <3>1. ~node[x].exists
      BY <1>h
    <3>2. /\ ~node[x].queued /\ ~node[x].ready /\ ~node[x].failed
          /\ node[x].awaiting = {} /\ node[x].onfail = {}
      BY <3>1 DEF Inv, KnownNodes
    <3>3. /\ node'[x].queued = node[x].queued /\ node'[x].ready = node[x].ready /\ node'[x].failed = node[x].failed
          /\ node'[x].awaiting = node[x].awaiting /\ node'[x].onfail = node[x].onfail
      BY <1>n
    <3> QED
      BY <3>2, <3>3
  <2>2. ASSUME NEW x \in Consumers, st'[Blk(x, 1)].pc = "mark"
        PROVE  node'[deps[x][st'[Blk(x, 1)].i]].exists
    <3>1. st[Blk(x, 1)].pc = "mark" => st[Blk(x, 1)].i \in DOMAIN deps[x] /\ node[deps[x][st[Blk(x, 1)].i]].exists
      BY <1>t DEF Inv, TaskShape, KnownNodes, At
    <3>2. CASE st'[Blk(x, 1)] = st[Blk(x, 1)]
      BY <1>t, <1>h, <2>2, <3>1, <3>2
    <3>3. CASE st'[Blk(x, 1)] # st[Blk(x, 1)]
      BY <1>s, <1>t, <1>n, <1>o, <1>b, <1>c, <1>f, <1>m, <1>u, <1>h, <2>2, <3>1, <3>3
    <3> QED
      BY <3>2, <3>3
  <2>3. ASSUME NEW x \in Keys, NEW y \in Keys
        PROVE  /\ At(Blk(x, 1), "log")' /\ st'[Blk(x, 1)].key = y => node'[y].exists
               /\ At(Consume(x), "log")' /\ st'[Consume(x)].key = y => node'[y].exists
               /\ parent'[x] = y => node'[y].exists
    <3>1. /\ st[Blk(x, 1)].pc = "log" /\ st[Blk(x, 1)].key = y => node'[y].exists
          /\ st[Consume(x)].pc = "log" /\ st[Consume(x)].key = y => node'[y].exists
          /\ parent[x] = y => node'[y].exists
      BY <1>h DEF Inv, KnownNodes, At
    <3> QED
      BY <1>s, <1>t, <1>n, <1>o, <1>b, <1>c, <1>f, <1>m, <1>u, <1>h, <3>1 DEF At, Asking, Waiting
  <2> QED
    BY <1>s, <2>1, <2>2, <2>3 DEF KnownNodes, At
<1> QED
  BY <1>1, <1>2, <1>3, <1>4, <1>5, <1>6, <1>7, <1>8, <1>9, <1>10, <1>11, <1>12, <1>13 DEF Inv

(* The first consumer that asks for a key queues its creator. *)
LEMMA CreatorQueuedNext ==
  ASSUME Inv, Static, NEW c \in Consumers, At(Blk(c, 1), "mark"), NEW i \in DOMAIN deps[c],
         st[Blk(c, 1)].i = i,
         NEW j \in Nat \ {0}, \A q \in DOMAIN deps[c] : q < j => q < i \/ q = i,
         NEW k \in Keys, k = deps[c][i], Becomes(Blk(c, 1), "ensure", j, st[Blk(c, 1)].key),
         Starts(Blk(k, 1), "create"), BlksKept({Blk(c, 1), Blk(k, 1)}), ConsumesKept({}),
         FailuresKept({}),
         NodesKept({k}),
         NodeBecomes(k, TRUE, node[k].ready, node[k].failed, node[k].awaiting, node[k].onfail),
         parent' = [parent EXCEPT ![k] = c]
  PROVE  Inv'
<1>s. /\ [deps |-> deps, failing |-> failing] \in Problems
      /\ deps' = deps /\ failing' = failing /\ again' = again /\ Tasks' = Tasks
      /\ \A d : Pos(d)' = Pos(d) /\ Bad(d)' = Bad(d)
      /\ DOMAIN st' = Tasks /\ requests' \subseteq Keys \X Keys
  BY StaticFacts DEF Inv, TypeOK, Static
<1>t. /\ \A x \in Keys : x \in Consumers
      /\ \A d \in Roots : d \in Consumers
      /\ \A d \in Keys \cup WithFail : d \in Consumers
      /\ \A d \in Consumers : 1 \in Pos(d) /\ \A q, r \in Pos(d) : r < q => r \in DOMAIN deps[d]
      /\ \A d \in Consumers : \A q \in DOMAIN deps[d] :
           deps[d][q] \in Keys /\ q \in Pos(d) /\ q + 1 \in Pos(d)
  BY <1>s, PosOrder, DepsFacts, TaskSet
<1>n. /\ DOMAIN node' = Keys
      /\ \A x \in Keys : DOMAIN node'[x] = DOMAIN NoNode /\ node'[x].exists \in BOOLEAN
      /\ \A x \in Keys : x = k \/
           /\ node'[x].queued = node[x].queued /\ node'[x].ready = node[x].ready /\ node'[x].failed = node[x].failed
           /\ node'[x].awaiting = node[x].awaiting /\ node'[x].onfail = node[x].onfail
      /\ node'[k].queued = TRUE /\ node'[k].ready = node[k].ready
      /\ node'[k].failed = node[k].failed
      /\ node'[k].awaiting = node[k].awaiting /\ node'[k].onfail = node[k].onfail
  BY DEF NodesKept, NodeKept, NodeBecomes
<1>o. c # k
  BY DEF Starts, At
<1>b. \A d \in Consumers : \A q \in Pos(d) :
        ((d = c \/ d = k) /\ q = 1) \/ st'[Blk(d, q)] = st[Blk(d, q)]
  BY TaskFacts DEF BlksKept
<1>c. \A d \in Consumers : st'[Consume(d)] = st[Consume(d)]
  BY DEF ConsumesKept
<1>f. \A d \in Keys \cup WithFail : st'[FailOf(d)] = st[FailOf(d)]
  BY DEF FailuresKept
<1>m. /\ st'[Blk(c, 1)].pc = "ensure" /\ st'[Blk(c, 1)].i = j
      /\ st'[Blk(c, 1)].key = st[Blk(c, 1)].key
      /\ DOMAIN st'[Blk(c, 1)] = {"pc", "i", "key"}
  BY DEF Becomes
<1>u. /\ st[Blk(k, 1)].pc = "none" /\ st'[Blk(k, 1)].pc = "create"
      /\ st'[Blk(k, 1)].i = st[Blk(k, 1)].i /\ st'[Blk(k, 1)].key = st[Blk(k, 1)].key
      /\ DOMAIN st'[Blk(k, 1)] = {"pc", "i", "key"}
  BY DEF Becomes, Starts, At
<1>k. /\ Blk(c, 1) \in Tasks /\ Blk(k, 1) \in Tasks
      /\ \A t \in Tasks : t = Blk(c, 1) \/ t = Blk(k, 1) \/ st'[t] = st[t]
  BY <1>s, <1>t, <1>b, <1>c, <1>f, TaskSet
<1>q. c \in Keys => node[c].exists
  BY DEF Inv, CreatorOnce, KnownNodes, At
<1>g. parent' \in [Keys -> Consumers \cup {"none"}] /\ parent'[k] = c /\ \A x \in Keys : x = k \/ parent'[x] = parent[x]
  BY DEF Inv, TypeOK
<1>h. node'[k].exists /\ \A x \in Keys : node[x].exists => node'[x].exists
  BY DEF NodesKept, NodeKept, NodeBecomes
<1>1. TypeOK'
  <2>1. \A x \in Keys : /\ {node'[x].exists, node'[x].queued, node'[x].ready, node'[x].failed} \subseteq BOOLEAN
                        /\ node'[x].awaiting \cup node'[x].onfail \subseteq Tasks
    <3>1. \A x \in Keys : /\ {node[x].exists, node[x].queued, node[x].ready, node[x].failed} \subseteq BOOLEAN
                          /\ node[x].awaiting \cup node[x].onfail \subseteq Tasks
      BY DEF Inv, TypeOK
    <3>2. \A x \in Keys : node[x].ready \in BOOLEAN /\ node[x].failed \in BOOLEAN /\ node[x].queued \in BOOLEAN
      BY <3>1
    <3>3. \A x \in Keys : /\ node'[x].queued \in BOOLEAN /\ node'[x].ready \in BOOLEAN /\ node'[x].failed \in BOOLEAN
                          /\ node'[x].awaiting = node[x].awaiting /\ node'[x].onfail = node[x].onfail
      BY <1>n, <3>2
    <3> QED
      BY <1>n, <3>1, <3>2, <3>3
  <2>2. \A t \in Tasks : /\ DOMAIN st'[t] = {"pc", "i", "key"}
                         /\ st'[t].pc \in PCs /\ st'[t].i \in Nat \ {0} /\ st'[t].key \in Keys \cup {"none"}
    <3>1. \A t \in Tasks : /\ DOMAIN st[t] = {"pc", "i", "key"}
                           /\ st[t].pc \in PCs /\ st[t].i \in Nat \ {0} /\ st[t].key \in Keys \cup {"none"}
      BY DEF Inv, TypeOK
    <3> QED
      BY <1>t, <1>k, <1>m, <1>u, <3>1 DEF PCs
  <2> QED
    BY <1>s, <1>n, <2>1, <2>2, <1>g DEF Inv, TypeOK
<1>2. TaskShape'
  BY SMTT(30), <1>s, <1>t, <1>n, <1>o, <1>b, <1>c, <1>f, <1>m, <1>u, <1>g DEF Inv, At, TaskShape, Asking, Waiting, Passed, Registering, Stopped
<1>3. CreatorOnce'
  BY <1>s, <1>t, <1>n, <1>o, <1>b, <1>c, <1>f, <1>m, <1>u, <1>g DEF Inv, At, CreatorOnce, Asking, Waiting, Passed, Registering, Stopped
<1>4. ChainInOrder'
  <2>1. ASSUME NEW d \in Consumers, NEW q \in Pos(d)
        PROVE  /\ st[Blk(d, q)].pc \in Passed => st'[Blk(d, q)].pc \in Passed
               /\ st'[Blk(d, q)].pc # "none" => q = 1 \/ st[Blk(d, q)].pc # "none"
    BY <1>b, <1>m, <1>u DEF At, Passed
  <2>2. \A d \in Consumers : \A q \in Pos(d) : ~(q < 1)
    BY <1>s, DepsFacts DEF Pos
  <2>3. \A x \in Keys : node'[x].ready = node[x].ready
    BY <1>n
  <2> QED
    BY <1>s, <1>t, <1>c, <2>1, <2>2, <2>3 DEF Inv, ChainInOrder, At
<1>5. AwaitingLive'
  <2>1. \A d \in Consumers : \A q \in DOMAIN deps[d] : q + 1 # 1
    BY <1>s, DepsFacts
  <2>2. \A x \in Keys : \A t \in node[x].awaiting : st'[t] = st[t] /\ t # Blk(c, 1) /\ t # Blk(k, 1)
    <3>1. \A d, q : Blk(d, q) = Blk(k, 1) => q = 1
      BY TaskFacts
    <3>2. \A x \in Keys : \A t \in node[x].awaiting :
            t \in Tasks /\ st[t].pc = "none" /\ \E d \in Consumers : \E q \in DOMAIN deps[d] : t = Blk(d, q + 1)
      BY DEF Inv, TypeOK, AwaitingLive, At
    <3> QED
      BY <1>k, <2>1, <3>1, <3>2 DEF At
  <2>3. \A d \in Consumers : \A q \in Pos(d) : st[Blk(d, q)].pc \in Passed => st'[Blk(d, q)].pc \in Passed
    BY <1>b, <1>m, <1>u DEF At, Passed
  <2>4. \A x \in Keys : /\ node'[x].awaiting = node[x].awaiting /\ node'[x].ready = node[x].ready
                        /\ node'[x].failed = node[x].failed /\ (node[x].queued => node'[x].queued)
    BY <1>n
  <2> QED
    BY <1>s, <1>t, <2>2, <2>3, <2>4 DEF Inv, AwaitingLive, At
<1>6. OnFailLive'
  BY <1>s, <1>t, <1>n, <1>o, <1>b, <1>c, <1>f, <1>m, <1>u, <1>g DEF Inv, At, OnFailLive, Asking, Waiting, Passed, Registering, Stopped
<1>7. FailureQueued'
  BY SMTT(30), <1>s, <1>t, <1>n, <1>o, <1>b, <1>c, <1>f, <1>m, <1>u, <1>g DEF Inv, At, FailureQueued, Asking, Waiting, Passed, Registering, Stopped
<1>8. DepsQueued'
  BY SMTT(30), <1>s, <1>t, <1>n, <1>o, <1>b, <1>c, <1>f, <1>m, <1>u, <1>g DEF Inv, At, DepsQueued, Asking, Waiting, Passed, Registering, Stopped
<1>9. FailureRegistered'
  BY <1>s, <1>t, <1>n, <1>o, <1>b, <1>c, <1>f, <1>m, <1>u, <1>g DEF Inv, At, FailureRegistered, Asking, Waiting, Passed, Registering, Stopped
<1>10. Somewhere'
  <2>1. Active(c)' /\ Active(k)'
    BY <1>s, <1>t, <1>m, <1>u DEF Active, Stopped
  <2>2. ASSUME NEW d \in Consumers, d # c, d # k
        PROVE  /\ At(Blk(d, 1), "none")' = At(Blk(d, 1), "none") /\ Active(d)' = Active(d)
               /\ d \in Keys => node'[d].failed = node[d].failed
    BY <1>s, <1>t, <1>b, <1>n, <2>2 DEF At, Active
  <2>3. \A d \in Consumers : /\ Awaits(d)' = Awaits(d) /\ Refused(d)' = Refused(d)
                             /\ At(Consume(d), "none")' = At(Consume(d), "none")
    BY <1>s, <1>t, <1>n, <1>c, <1>f DEF Awaits, Refused, Answerable, At
  <2> QED
    BY <1>s, <2>1, <2>2, <2>3 DEF Inv, Somewhere
<1>11. FailureCaused'
  <2>1. \A t \in Tasks : t = Blk(c, 1) \/ t = Blk(k, 1) => ~At(t, "log")' /\ ~At(t, "set")'
    BY <1>m, <1>u DEF At, Asking, Waiting
  <2>2. \A x \in Keys : node'[x].failed = node[x].failed /\ node'[x].ready = node[x].ready
    BY <1>n
  <2>3. \A x \in Keys : parent'[x] \in Keys => \E q \in DOMAIN deps[parent'[x]] : deps[parent'[x]][q] = x
    BY <1>g DEF Inv, FailureCaused
  <2>4. \A t \in Tasks : At(t, "log")' \/ At(t, "set")' => st'[t] = st[t]
    BY <1>k, <2>1
  <2> QED
    BY <1>s, <1>t, <2>2, <2>3, <2>4 DEF Inv, At, FailureCaused
<1>12. ValueFromConsumer'
  BY <1>s, <1>t, <1>n, <1>o, <1>b, <1>c, <1>f, <1>m, <1>u, <1>g DEF Inv, At, ValueFromConsumer, Asking, Waiting, Passed, Registering, Stopped
<1>13. KnownNodes'
  <2>1. \A x \in Keys : \/ node'[x].exists
                        \/ /\ ~node'[x].queued /\ ~node'[x].ready /\ ~node'[x].failed
                           /\ node'[x].awaiting = {} /\ node'[x].onfail = {}
    <3> SUFFICES ASSUME NEW x \in Keys, ~node'[x].exists
                 PROVE  /\ ~node'[x].queued /\ ~node'[x].ready /\ ~node'[x].failed
                        /\ node'[x].awaiting = {} /\ node'[x].onfail = {}
      OBVIOUS
    <3>1. ~node[x].exists
      BY <1>h
    <3>2. /\ ~node[x].queued /\ ~node[x].ready /\ ~node[x].failed
          /\ node[x].awaiting = {} /\ node[x].onfail = {}
      BY <3>1 DEF Inv, KnownNodes
    <3>4. x # k
      BY <1>h
    <3>3. /\ node'[x].queued = node[x].queued /\ node'[x].ready = node[x].ready /\ node'[x].failed = node[x].failed
          /\ node'[x].awaiting = node[x].awaiting /\ node'[x].onfail = node[x].onfail
      BY <1>n, <3>4
    <3> QED
      BY <3>2, <3>3
  <2>2. ASSUME NEW x \in Consumers, st'[Blk(x, 1)].pc = "mark"
        PROVE  node'[deps[x][st'[Blk(x, 1)].i]].exists
    <3>1. st[Blk(x, 1)].pc = "mark" => st[Blk(x, 1)].i \in DOMAIN deps[x] /\ node[deps[x][st[Blk(x, 1)].i]].exists
      BY <1>t DEF Inv, TaskShape, KnownNodes, At
    <3>2. CASE st'[Blk(x, 1)] = st[Blk(x, 1)]
      BY <1>t, <1>h, <2>2, <3>1, <3>2
    <3>3. CASE st'[Blk(x, 1)] # st[Blk(x, 1)]
      BY SMTT(30), <1>s, <1>t, <1>n, <1>o, <1>b, <1>c, <1>f, <1>m, <1>u, <1>g, <1>h, <2>2, <3>1, <3>3
    <3> QED
      BY <3>2, <3>3
  <2>3. ASSUME NEW x \in Keys, NEW y \in Keys
        PROVE  /\ At(Blk(x, 1), "log")' /\ st'[Blk(x, 1)].key = y => node'[y].exists
               /\ At(Consume(x), "log")' /\ st'[Consume(x)].key = y => node'[y].exists
               /\ parent'[x] = y => node'[y].exists
    <3>1. /\ st[Blk(x, 1)].pc = "log" /\ st[Blk(x, 1)].key = y => node'[y].exists
          /\ st[Consume(x)].pc = "log" /\ st[Consume(x)].key = y => node'[y].exists
          /\ parent[x] = y => node'[y].exists
      BY <1>h DEF Inv, KnownNodes, At
    <3> QED
      BY SMTT(30), <1>s, <1>t, <1>n, <1>o, <1>b, <1>c, <1>f, <1>m, <1>u, <1>g, <1>h, <3>1, <1>q DEF At, Asking, Waiting
  <2> QED
    BY <1>s, <2>1, <2>2, <2>3 DEF KnownNodes, At
<1> QED
  BY <1>1, <1>2, <1>3, <1>4, <1>5, <1>6, <1>7, <1>8, <1>9, <1>10, <1>11, <1>12, <1>13 DEF Inv

(* The failure function of a consumer is registered with a node that has not failed. *)
LEMMA OnFailAddedNext ==
  ASSUME Inv, Static, NEW c \in Keys \cup WithFail, NEW p \in DOMAIN deps[c], NEW k \in Keys,
         k = deps[c][p], ~node[k].failed,
         At(Blk(c, p), "onfail_lock"),
         Becomes(Blk(c, p), "await_test", st[Blk(c, p)].i, st[Blk(c, p)].key),
         BlksKept({Blk(c, p)}), ConsumesKept({}), FailuresKept({}), NodesKept({k}),
         NodeBecomes(k, node[k].queued, node[k].ready, node[k].failed, node[k].awaiting, node[k].onfail \cup {FailOf(c)}),
         parent' = parent
  PROVE  Inv'
<1>s. /\ [deps |-> deps, failing |-> failing] \in Problems
      /\ deps' = deps /\ failing' = failing /\ again' = again /\ Tasks' = Tasks
      /\ \A d : Pos(d)' = Pos(d) /\ Bad(d)' = Bad(d)
      /\ DOMAIN st' = Tasks /\ requests' \subseteq Keys \X Keys
  BY StaticFacts DEF Inv, TypeOK, Static
<1>t. /\ \A x \in Keys : x \in Consumers
      /\ \A d \in Roots : d \in Consumers
      /\ \A d \in Keys \cup WithFail : d \in Consumers
      /\ \A d \in Consumers : 1 \in Pos(d) /\ \A q, r \in Pos(d) : r < q => r \in DOMAIN deps[d]
      /\ \A d \in Consumers : \A q \in DOMAIN deps[d] :
           deps[d][q] \in Keys /\ q \in Pos(d) /\ q + 1 \in Pos(d)
  BY <1>s, PosOrder, DepsFacts, TaskSet
<1>n. /\ DOMAIN node' = Keys
      /\ \A x \in Keys : DOMAIN node'[x] = DOMAIN NoNode /\ node'[x].exists \in BOOLEAN
      /\ \A x \in Keys : x = k \/
           /\ node'[x].queued = node[x].queued /\ node'[x].ready = node[x].ready /\ node'[x].failed = node[x].failed
           /\ node'[x].awaiting = node[x].awaiting /\ node'[x].onfail = node[x].onfail
      /\ node'[k].queued = node[k].queued /\ node'[k].ready = node[k].ready
      /\ node'[k].failed = node[k].failed
      /\ node'[k].awaiting = node[k].awaiting /\ node'[k].onfail = node[k].onfail \cup {FailOf(c)}
  BY DEF NodesKept, NodeKept, NodeBecomes
<1>o. c \in Consumers /\ p \in Pos(c)
  BY <1>s, <1>t
<1>b. \A d \in Consumers : \A q \in Pos(d) : (d = c /\ q = p) \/ st'[Blk(d, q)] = st[Blk(d, q)]
  BY TaskFacts DEF BlksKept
<1>c. \A d \in Consumers : st'[Consume(d)] = st[Consume(d)]
  BY DEF ConsumesKept
<1>f. \A d \in Keys \cup WithFail : st'[FailOf(d)] = st[FailOf(d)]
  BY DEF FailuresKept
<1>m. /\ st'[Blk(c, p)].pc = "await_test" /\ st'[Blk(c, p)].i = st[Blk(c, p)].i
      /\ st'[Blk(c, p)].key = st[Blk(c, p)].key
      /\ DOMAIN st'[Blk(c, p)] = {"pc", "i", "key"}
  BY DEF Becomes
<1>k. /\ Blk(c, p) \in Tasks
      /\ \A t \in Tasks : t = Blk(c, p) \/ st'[t] = st[t]
  BY <1>s, <1>t, <1>b, <1>c, <1>f, TaskSet
<1>h. node'[k].exists /\ \A x \in Keys : node[x].exists => node'[x].exists
  BY DEF NodesKept, NodeKept, NodeBecomes
<1>1. TypeOK'
  BY <1>s, <1>t, <1>n, <1>k, <1>m, TaskSet DEF Inv, At, TypeOK, PCs, Asking, Waiting
<1>2. TaskShape'
  <2>1. st'[Blk(c, p)].pc = "await_test" /\ st'[Blk(c, p)].i = st[Blk(c, p)].i
    BY <1>m
  <2>2. p # 1 \/ c \in Keys \/ c \in Roots
    BY <1>s, <1>o, TaskSet
  <2> QED
    BY <1>s, <1>t, <1>o, <1>b, <1>c, <1>f, <2>1, <2>2, SMTT(30) DEF Inv, TaskShape, At, Asking, Waiting
<1>3. CreatorOnce'
  BY <1>s, <1>t, <1>n, <1>o, <1>b, <1>c, <1>f, <1>m DEF Inv, At, CreatorOnce, Asking, Waiting, Passed, Registering, Stopped
<1>4. ChainInOrder'
  BY SMTT(30), <1>s, <1>t, <1>n, <1>o, <1>b, <1>c, <1>f, <1>m DEF Inv, At, ChainInOrder, Asking, Waiting, Passed, Registering, Stopped
<1>5. AwaitingLive'
  <2>1. \A x \in Keys : \A t \in node[x].awaiting : t \in Tasks /\ t # Blk(c, p)
    BY DEF Inv, TypeOK, AwaitingLive, At
  <2>2. \A x \in Keys : \A t \in node[x].awaiting : st'[t] = st[t]
    BY <1>k, <2>1
  <2>3. \A d \in Consumers : \A q \in Pos(d) : st[Blk(d, q)].pc \in Passed => st'[Blk(d, q)].pc \in Passed
    BY <1>b DEF At, Passed
  <2>4. \A x \in Keys : /\ node'[x].awaiting = node[x].awaiting /\ node'[x].ready = node[x].ready
                        /\ node'[x].failed = node[x].failed /\ node'[x].queued = node[x].queued
    BY <1>n
  <2> QED
    BY <1>s, <1>t, <2>2, <2>3, <2>4 DEF Inv, AwaitingLive, At
<1>6. OnFailLive'
  BY <1>s, <1>t, <1>n, <1>o, <1>b, <1>c, <1>f, <1>m DEF Inv, At, OnFailLive, Asking, Waiting, Passed, Registering, Stopped
<1>7. FailureQueued'
  BY SMTT(30), <1>s, <1>t, <1>n, <1>o, <1>b, <1>c, <1>f, <1>m DEF Inv, At, FailureQueued, Asking, Waiting, Passed, Registering, Stopped
<1>8. DepsQueued'
  BY SMTT(30), <1>s, <1>t, <1>n, <1>o, <1>b, <1>c, <1>f, <1>m DEF Inv, At, DepsQueued, Asking, Waiting, Passed, Registering, Stopped
<1>9. FailureRegistered'
  BY SMTT(30), <1>s, <1>t, <1>n, <1>o, <1>b, <1>c, <1>f, <1>m DEF Inv, At, FailureRegistered, Asking, Waiting, Passed, Registering, Stopped
<1>10. Somewhere'
  BY SMTT(30), <1>s, <1>t, <1>n, <1>o, <1>b, <1>c, <1>f, <1>m DEF Inv, At, Somewhere, Active, Awaits, Refused, Answerable, Asking, Waiting, Passed, Registering, Stopped
<1>11. FailureCaused'
  <2>1. \A t \in Tasks : t = Blk(c, p) => ~At(t, "log")' /\ ~At(t, "set")'
    BY <1>m DEF At, Asking, Waiting
  <2> QED
    BY <1>s, <1>t, <1>n, <1>k, <2>1 DEF Inv, At, FailureCaused
<1>12. ValueFromConsumer'
  BY <1>s, <1>t, <1>n, <1>o, <1>b, <1>c, <1>f, <1>m DEF Inv, At, ValueFromConsumer, Asking, Waiting, Passed, Registering, Stopped
<1>13. KnownNodes'
  <2>1. \A x \in Keys : \/ node'[x].exists
                        \/ /\ ~node'[x].queued /\ ~node'[x].ready /\ ~node'[x].failed
                           /\ node'[x].awaiting = {} /\ node'[x].onfail = {}
    <3> SUFFICES ASSUME NEW x \in Keys, ~node'[x].exists
                 PROVE  /\ ~node'[x].queued /\ ~node'[x].ready /\ ~node'[x].failed
                        /\ node'[x].awaiting = {} /\ node'[x].onfail = {}
      OBVIOUS
    <3>1. ~node[x].exists
      BY <1>h
    <3>2. /\ ~node[x].queued /\ ~node[x].ready /\ ~node[x].failed
          /\ node[x].awaiting = {} /\ node[x].onfail = {}
      BY <3>1 DEF Inv, KnownNodes
    <3>4. x # k
      BY <1>h
    <3>3. /\ node'[x].queued = node[x].queued /\ node'[x].ready = node[x].ready /\ node'[x].failed = node[x].failed
          /\ node'[x].awaiting = node[x].awaiting /\ node'[x].onfail = node[x].onfail
      BY <1>n, <3>4
    <3> QED
      BY <3>2, <3>3
  <2>2. ASSUME NEW x \in Consumers, st'[Blk(x, 1)].pc = "mark"
        PROVE  node'[deps[x][st'[Blk(x, 1)].i]].exists
    <3>1. st[Blk(x, 1)].pc = "mark" => st[Blk(x, 1)].i \in DOMAIN deps[x] /\ node[deps[x][st[Blk(x, 1)].i]].exists
      BY <1>t DEF Inv, TaskShape, KnownNodes, At
    <3>2. CASE st'[Blk(x, 1)] = st[Blk(x, 1)]
      BY <1>t, <1>h, <2>2, <3>1, <3>2
    <3>3. CASE st'[Blk(x, 1)] # st[Blk(x, 1)]
      BY <1>s, <1>t, <1>n, <1>o, <1>b, <1>c, <1>f, <1>m, <1>h, <2>2, <3>1, <3>3
    <3> QED
      BY <3>2, <3>3
  <2>3. ASSUME NEW x \in Keys, NEW y \in Keys
        PROVE  /\ At(Blk(x, 1), "log")' /\ st'[Blk(x, 1)].key = y => node'[y].exists
               /\ At(Consume(x), "log")' /\ st'[Consume(x)].key = y => node'[y].exists
               /\ parent'[x] = y => node'[y].exists
    <3>1. /\ st[Blk(x, 1)].pc = "log" /\ st[Blk(x, 1)].key = y => node'[y].exists
          /\ st[Consume(x)].pc = "log" /\ st[Consume(x)].key = y => node'[y].exists
          /\ parent[x] = y => node'[y].exists
      BY <1>h DEF Inv, KnownNodes, At
    <3> QED
      BY <1>s, <1>t, <1>n, <1>o, <1>b, <1>c, <1>f, <1>m, <1>h, <3>1 DEF At, Asking, Waiting
  <2> QED
    BY <1>s, <2>1, <2>2, <2>3 DEF KnownNodes, At
<1> QED
  BY <1>1, <1>2, <1>3, <1>4, <1>5, <1>6, <1>7, <1>8, <1>9, <1>10, <1>11, <1>12, <1>13 DEF Inv

(* The next task of a consumer is registered with a node that has neither a value nor failed. *)
LEMMA AwaitAddedNext ==
  ASSUME Inv, Static, NEW c \in Consumers, NEW p \in DOMAIN deps[c], NEW k \in Keys, k = deps[c][p],
         ~node[k].failed, ~node[k].ready, At(Blk(c, p), "await_lock"),
         Becomes(Blk(c, p), "record", st[Blk(c, p)].i, st[Blk(c, p)].key),
         BlksKept({Blk(c, p)}), ConsumesKept({}), FailuresKept({}), NodesKept({k}),
         NodeBecomes(k, node[k].queued, node[k].ready, node[k].failed, node[k].awaiting \cup {Blk(c, p + 1)}, node[k].onfail),
         parent' = parent
  PROVE  Inv'
<1>s. /\ [deps |-> deps, failing |-> failing] \in Problems
      /\ deps' = deps /\ failing' = failing /\ again' = again /\ Tasks' = Tasks
      /\ \A d : Pos(d)' = Pos(d) /\ Bad(d)' = Bad(d)
      /\ DOMAIN st' = Tasks /\ requests' \subseteq Keys \X Keys
  BY StaticFacts DEF Inv, TypeOK, Static
<1>t. /\ \A x \in Keys : x \in Consumers
      /\ \A d \in Roots : d \in Consumers
      /\ \A d \in Keys \cup WithFail : d \in Consumers
      /\ \A d \in Consumers : 1 \in Pos(d) /\ \A q, r \in Pos(d) : r < q => r \in DOMAIN deps[d]
      /\ \A d \in Consumers : \A q \in DOMAIN deps[d] :
           deps[d][q] \in Keys /\ q \in Pos(d) /\ q + 1 \in Pos(d)
  BY <1>s, PosOrder, DepsFacts, TaskSet
<1>n. /\ DOMAIN node' = Keys
      /\ \A x \in Keys : DOMAIN node'[x] = DOMAIN NoNode /\ node'[x].exists \in BOOLEAN
      /\ \A x \in Keys : x = k \/
           /\ node'[x].queued = node[x].queued /\ node'[x].ready = node[x].ready /\ node'[x].failed = node[x].failed
           /\ node'[x].awaiting = node[x].awaiting /\ node'[x].onfail = node[x].onfail
      /\ node'[k].queued = node[k].queued /\ node'[k].ready = node[k].ready
      /\ node'[k].failed = node[k].failed
      /\ node'[k].awaiting = node[k].awaiting \cup {Blk(c, p + 1)}
      /\ node'[k].onfail = node[k].onfail
  BY DEF NodesKept, NodeKept, NodeBecomes
<1>o. p \in Pos(c) /\ p + 1 \in Pos(c) /\ p + 1 # p /\ p < p + 1
  BY <1>s, <1>t, DepsFacts
<1>b. \A d \in Consumers : \A q \in Pos(d) : (d = c /\ q = p) \/ st'[Blk(d, q)] = st[Blk(d, q)]
  BY TaskFacts DEF BlksKept
<1>c. \A d \in Consumers : st'[Consume(d)] = st[Consume(d)]
  BY DEF ConsumesKept
<1>f. \A d \in Keys \cup WithFail : st'[FailOf(d)] = st[FailOf(d)]
  BY DEF FailuresKept
<1>m. /\ st'[Blk(c, p)].pc = "record" /\ st'[Blk(c, p)].i = st[Blk(c, p)].i
      /\ st'[Blk(c, p)].key = st[Blk(c, p)].key
      /\ DOMAIN st'[Blk(c, p)] = {"pc", "i", "key"}
  BY DEF Becomes
<1>k. /\ Blk(c, p) \in Tasks
      /\ \A t \in Tasks : t = Blk(c, p) \/ st'[t] = st[t]
  BY <1>s, <1>t, <1>b, <1>c, <1>f, TaskSet
<1>y. /\ \A d, q : Blk(d, q) = Blk(c, p + 1) => d = c /\ q = p + 1
      /\ \A q \in DOMAIN deps[c] : q + 1 = p + 1 => q = p
      /\ At(Blk(c, p + 1), "none") /\ node[k].queued
  <2>1. \A d, q : Blk(d, q) = Blk(c, p + 1) => d = c /\ q = p + 1
    BY TaskFacts
  <2>2. \A q \in DOMAIN deps[c] : q + 1 = p + 1 => q = p
    BY <1>s, DepsFacts
  <2>3. At(Blk(c, p + 1), "none")
    BY <1>o DEF Inv, ChainInOrder, At, Passed
  <2>4. node[k].queued
    BY <1>o DEF Inv, DepsQueued, At, Waiting
  <2> QED
    BY <2>1, <2>2, <2>3, <2>4
<1>h. node'[k].exists /\ \A x \in Keys : node[x].exists => node'[x].exists
  BY DEF NodesKept, NodeKept, NodeBecomes
<1>1. TypeOK'
  <2>1. \A x \in Keys : /\ {node'[x].exists, node'[x].queued, node'[x].ready, node'[x].failed} \subseteq BOOLEAN
                        /\ node'[x].awaiting \cup node'[x].onfail \subseteq Tasks
    <3>1. \A x \in Keys : /\ {node[x].exists, node[x].queued, node[x].ready, node[x].failed} \subseteq BOOLEAN
                          /\ node[x].awaiting \cup node[x].onfail \subseteq Tasks
      BY DEF Inv, TypeOK
    <3> QED
      BY <1>n, <3>1, <1>o, TaskSet, <1>s
  <2>2. \A t \in Tasks : /\ DOMAIN st'[t] = {"pc", "i", "key"}
                         /\ st'[t].pc \in PCs /\ st'[t].i \in Nat \ {0} /\ st'[t].key \in Keys \cup {"none"}
    <3>1. \A t \in Tasks : /\ DOMAIN st[t] = {"pc", "i", "key"}
                           /\ st[t].pc \in PCs /\ st[t].i \in Nat \ {0} /\ st[t].key \in Keys \cup {"none"}
      BY DEF Inv, TypeOK
    <3> QED
      BY <1>t, <1>k, <1>m, <3>1 DEF PCs
  <2> QED
    BY <1>s, <1>n, <2>1, <2>2 DEF Inv, TypeOK
<1>2. TaskShape'
  BY SMTT(30), <1>s, <1>t, <1>n, <1>o, <1>b, <1>c, <1>f, <1>m DEF Inv, At, TaskShape, Asking, Waiting, Passed, Registering, Stopped
<1>3. CreatorOnce'
  BY <1>s, <1>t, <1>n, <1>o, <1>b, <1>c, <1>f, <1>m DEF Inv, At, CreatorOnce, Asking, Waiting, Passed, Registering, Stopped
<1>4. ChainInOrder'
  BY SMTT(30), <1>s, <1>t, <1>n, <1>o, <1>b, <1>c, <1>f, <1>m DEF Inv, At, ChainInOrder, Asking, Waiting, Passed, Registering, Stopped
<1>5. AwaitingLive'
  <2>1. ASSUME NEW x \in Keys, NEW t \in node[x].awaiting
        PROVE  t # Blk(c, p) /\ st'[t] = st[t]
    BY <1>k DEF Inv, TypeOK, AwaitingLive, At
  <2>2. st'[Blk(c, p + 1)] = st[Blk(c, p + 1)]
    BY <1>o, <1>b
  <2>3. \A d \in Consumers : \A q \in Pos(d) : st[Blk(d, q)].pc \in Passed => st'[Blk(d, q)].pc \in Passed
    BY <1>b, <1>m DEF Passed
  <2>4. st'[Blk(c, p)].pc \in Passed
    BY <1>m DEF Passed
  <2>5. ASSUME NEW x \in Keys, NEW t \in node'[x].awaiting
        PROVE  t \in node[x].awaiting \/ (x = k /\ t = Blk(c, p + 1))
    BY <1>n, <2>5
  <2>6. \A x \in Keys : node'[x].ready = node[x].ready /\ node'[x].failed = node[x].failed /\ node'[x].queued = node[x].queued
    BY <1>n
  <2>7. ASSUME NEW x \in Keys, NEW t \in node[x].awaiting
        PROVE  /\ ~node'[x].ready /\ ~node'[x].failed /\ node'[x].queued /\ st'[t].pc = "none"
               /\ \E d \in Consumers : \E q \in DOMAIN deps[d] :
                    t = Blk(d, q + 1) /\ deps[d][q] = x /\ st'[Blk(d, q)].pc \in Passed
    BY <1>t, <2>1, <2>3, <2>6 DEF Inv, AwaitingLive, At
  <2>8. /\ ~node'[k].ready /\ ~node'[k].failed /\ node'[k].queued /\ st'[Blk(c, p + 1)].pc = "none"
        /\ \E d \in Consumers : \E q \in DOMAIN deps[d] :
             Blk(c, p + 1) = Blk(d, q + 1) /\ deps[d][q] = k /\ st'[Blk(d, q)].pc \in Passed
    BY <1>y, <2>2, <2>4, <2>6 DEF At
  <2> QED
    BY <1>s, <2>5, <2>7, <2>8 DEF AwaitingLive, At
<1>6. OnFailLive'
  BY <1>s, <1>t, <1>n, <1>o, <1>b, <1>c, <1>f, <1>m DEF Inv, At, OnFailLive, Asking, Waiting, Passed, Registering, Stopped
<1>7. FailureQueued'
  BY SMTT(30), <1>s, <1>t, <1>n, <1>o, <1>b, <1>c, <1>f, <1>m DEF Inv, At, FailureQueued, Asking, Waiting, Passed, Registering, Stopped
<1>8. DepsQueued'
  <2>1. \A x \in Keys : node'[x].queued = node[x].queued
    BY <1>n
  <2>2. ASSUME NEW d \in Consumers, st'[Blk(d, 1)].pc \in Asking
        PROVE  st'[Blk(d, 1)] = st[Blk(d, 1)]
    BY <1>t, <1>b, <1>m, <2>2 DEF Asking
  <2>3. \A q \in DOMAIN deps[c] : node[deps[c][q]].queued
    BY <1>o DEF Inv, DepsQueued, At, Waiting
  <2>4. ASSUME NEW d \in Consumers, NEW q \in Pos(d), d # c,
               st'[Blk(d, q)].pc \in Waiting \cup {"block"} \/ \E x \in Keys : Blk(d, q) \in node'[x].awaiting
        PROVE  st[Blk(d, q)].pc \in Waiting \cup {"block"} \/ \E x \in Keys : Blk(d, q) \in node[x].awaiting
    BY <1>b, <1>n, <1>y, <2>4
  <2> QED
    BY <1>s, <1>t, <2>1, <2>2, <2>3, <2>4 DEF Inv, DepsQueued
<1>9. FailureRegistered'
  BY <1>s, <1>t, <1>n, <1>o, <1>b, <1>c, <1>f, <1>m, <1>y DEF Inv, At, FailureRegistered, Asking, Waiting, Passed, Registering, Stopped
<1>10. Somewhere'
  BY SMTT(30), <1>s, <1>t, <1>n, <1>o, <1>b, <1>c, <1>f, <1>m DEF Inv, At, Somewhere, Active, Awaits, Refused, Answerable, Asking, Waiting, Passed, Registering, Stopped
<1>11. FailureCaused'
  <2>1. \A t \in Tasks : t = Blk(c, p) => ~At(t, "log")' /\ ~At(t, "set")'
    BY <1>m DEF At, Asking, Waiting
  <2> QED
    BY <1>s, <1>t, <1>n, <1>k, <2>1 DEF Inv, At, FailureCaused
<1>12. ValueFromConsumer'
  BY <1>s, <1>t, <1>n, <1>o, <1>b, <1>c, <1>f, <1>m DEF Inv, At, ValueFromConsumer, Asking, Waiting, Passed, Registering, Stopped
<1>13. KnownNodes'
  <2>1. \A x \in Keys : \/ node'[x].exists
                        \/ /\ ~node'[x].queued /\ ~node'[x].ready /\ ~node'[x].failed
                           /\ node'[x].awaiting = {} /\ node'[x].onfail = {}
    <3> SUFFICES ASSUME NEW x \in Keys, ~node'[x].exists
                 PROVE  /\ ~node'[x].queued /\ ~node'[x].ready /\ ~node'[x].failed
                        /\ node'[x].awaiting = {} /\ node'[x].onfail = {}
      OBVIOUS
    <3>1. ~node[x].exists
      BY <1>h
    <3>2. /\ ~node[x].queued /\ ~node[x].ready /\ ~node[x].failed
          /\ node[x].awaiting = {} /\ node[x].onfail = {}
      BY <3>1 DEF Inv, KnownNodes
    <3>4. x # k
      BY <1>h
    <3>3. /\ node'[x].queued = node[x].queued /\ node'[x].ready = node[x].ready /\ node'[x].failed = node[x].failed
          /\ node'[x].awaiting = node[x].awaiting /\ node'[x].onfail = node[x].onfail
      BY <1>n, <3>4
    <3> QED
      BY <3>2, <3>3
  <2>2. ASSUME NEW x \in Consumers, st'[Blk(x, 1)].pc = "mark"
        PROVE  node'[deps[x][st'[Blk(x, 1)].i]].exists
    <3>1. st[Blk(x, 1)].pc = "mark" => st[Blk(x, 1)].i \in DOMAIN deps[x] /\ node[deps[x][st[Blk(x, 1)].i]].exists
      BY <1>t DEF Inv, TaskShape, KnownNodes, At
    <3>2. CASE st'[Blk(x, 1)] = st[Blk(x, 1)]
      BY <1>t, <1>h, <2>2, <3>1, <3>2
    <3>3. CASE st'[Blk(x, 1)] # st[Blk(x, 1)]
      BY SMTT(30), <1>s, <1>t, <1>n, <1>o, <1>b, <1>c, <1>f, <1>m, <1>h, <2>2, <3>1, <3>3
    <3> QED
      BY <3>2, <3>3
  <2>3. ASSUME NEW x \in Keys, NEW y \in Keys
        PROVE  /\ At(Blk(x, 1), "log")' /\ st'[Blk(x, 1)].key = y => node'[y].exists
               /\ At(Consume(x), "log")' /\ st'[Consume(x)].key = y => node'[y].exists
               /\ parent'[x] = y => node'[y].exists
    <3>1. /\ st[Blk(x, 1)].pc = "log" /\ st[Blk(x, 1)].key = y => node'[y].exists
          /\ st[Consume(x)].pc = "log" /\ st[Consume(x)].key = y => node'[y].exists
          /\ parent[x] = y => node'[y].exists
      BY <1>h DEF Inv, KnownNodes, At
    <3> QED
      BY <1>s, <1>t, <1>n, <1>o, <1>b, <1>c, <1>f, <1>m, <1>h, <3>1 DEF At, Asking, Waiting
  <2> QED
    BY <1>s, <2>1, <2>2, <2>3 DEF KnownNodes, At
<1> QED
  BY <1>1, <1>2, <1>3, <1>4, <1>5, <1>6, <1>7, <1>8, <1>9, <1>10, <1>11, <1>12, <1>13 DEF Inv

(* The creator of a key logs an error, and none is waiting for that. *)
LEMMA CreatorFailsNext ==
  ASSUME Inv, Static, NEW c \in Keys, NEW l \in {"log", "set", "done"}, NEW i \in Nat \ {0},
         NEW key \in Keys \cup {"none"},
         st[Blk(c, 1)].pc \in {"create", "log", "set"}, Becomes(Blk(c, 1), l, i, key),
         BlksKept({Blk(c, 1)}), ConsumesKept({}), FailuresKept({}), NodesKept({}), parent' = parent,
         l = "log" => c \in failing /\ key \in Keys /\ Bad(key) /\ node[key].exists /\ (key = c \/ node[c].failed),
         l # "log" => node[c].failed
  PROVE  Inv'
<1>s. /\ [deps |-> deps, failing |-> failing] \in Problems
      /\ deps' = deps /\ failing' = failing /\ again' = again /\ Tasks' = Tasks
      /\ \A d : Pos(d)' = Pos(d) /\ Bad(d)' = Bad(d)
      /\ DOMAIN st' = Tasks /\ requests' \subseteq Keys \X Keys
  BY StaticFacts DEF Inv, TypeOK, Static
<1>t. /\ \A k \in Keys : k \in Consumers
      /\ \A d \in Roots : d \in Consumers
      /\ \A d \in Keys \cup WithFail : d \in Consumers
      /\ \A d \in Consumers : 1 \in Pos(d) /\ \A q, r \in Pos(d) : r < q => r \in DOMAIN deps[d]
      /\ \A d \in Consumers : \A q \in DOMAIN deps[d] :
           deps[d][q] \in Keys /\ q \in Pos(d) /\ q + 1 \in Pos(d)
  BY <1>s, PosOrder, DepsFacts, TaskSet
<1>n. /\ DOMAIN node' = Keys
      /\ \A k \in Keys :
           /\ DOMAIN node'[k] = DOMAIN NoNode /\ node'[k].exists \in BOOLEAN
           /\ node'[k].queued = node[k].queued /\ node'[k].ready = node[k].ready /\ node'[k].failed = node[k].failed
           /\ node'[k].awaiting = node[k].awaiting /\ node'[k].onfail = node[k].onfail
  BY DEF NodesKept, NodeKept
<1>b. \A d \in Consumers : \A q \in Pos(d) : (d = c /\ q = 1) \/ st'[Blk(d, q)] = st[Blk(d, q)]
  BY TaskFacts DEF BlksKept
<1>c. \A d \in Consumers : st'[Consume(d)] = st[Consume(d)]
  BY DEF ConsumesKept
<1>f. \A d \in Keys \cup WithFail : st'[FailOf(d)] = st[FailOf(d)]
  BY DEF FailuresKept
<1>m. /\ st'[Blk(c, 1)].pc = l /\ st'[Blk(c, 1)].i = i /\ st'[Blk(c, 1)].key = key
      /\ DOMAIN st'[Blk(c, 1)] = {"pc", "i", "key"}
  BY DEF Becomes
<1>k. /\ Blk(c, 1) \in Tasks
      /\ \A t \in Tasks : t = Blk(c, 1) \/ st'[t] = st[t]
  BY <1>s, <1>t, <1>b, <1>c, <1>f, TaskSet
<1>e. /\ c \in Consumers /\ 1 \in Pos(c) /\ failing \subseteq Keys
      /\ c \notin Keys => c \notin failing
      /\ c \in Roots => c \notin Keys
  BY <1>s, <1>t, DepsFacts, TaskSet
<1>h. \A x \in Keys : node[x].exists => node'[x].exists
  BY DEF NodesKept, NodeKept, NodeBecomes
<1>1. TypeOK'
  <2>1. \A x \in Keys : /\ {node'[x].exists, node'[x].queued, node'[x].ready, node'[x].failed} \subseteq BOOLEAN
                        /\ node'[x].awaiting \cup node'[x].onfail \subseteq Tasks
    <3>1. \A x \in Keys : /\ {node[x].exists, node[x].queued, node[x].ready, node[x].failed} \subseteq BOOLEAN
                          /\ node[x].awaiting \cup node[x].onfail \subseteq Tasks
      BY DEF Inv, TypeOK
    <3> QED
      BY <1>n, <3>1
  <2>2. \A t \in Tasks : /\ DOMAIN st'[t] = {"pc", "i", "key"}
                         /\ st'[t].pc \in PCs /\ st'[t].i \in Nat \ {0} /\ st'[t].key \in Keys \cup {"none"}
    <3>1. \A t \in Tasks : /\ DOMAIN st[t] = {"pc", "i", "key"}
                           /\ st[t].pc \in PCs /\ st[t].i \in Nat \ {0} /\ st[t].key \in Keys \cup {"none"}
      BY DEF Inv, TypeOK
    <3> QED
      BY <1>t, <1>k, <1>m, <3>1 DEF PCs
  <2> QED
    BY <1>s, <1>n, <2>1, <2>2 DEF Inv, TypeOK
<1>2. TaskShape'
  BY <1>s, <1>t, <1>n, <1>b, <1>c, <1>f, <1>m, <1>e DEF Inv, At, TaskShape, Asking, Waiting, Passed, Registering, Stopped
<1>3. CreatorOnce'
  BY <1>s, <1>t, <1>n, <1>b, <1>c, <1>f, <1>m, <1>e DEF Inv, At, CreatorOnce, Asking, Waiting, Passed, Registering, Stopped
<1>4. ChainInOrder'
  BY <1>s, <1>t, <1>n, <1>b, <1>c, <1>f, <1>m, <1>e DEF Inv, At, ChainInOrder, Asking, Waiting, Passed, Registering, Stopped
<1>5. AwaitingLive'
  BY SMTT(30), <1>s, <1>t, <1>n, <1>b, <1>c, <1>f, <1>m, <1>e DEF Inv, At, AwaitingLive, Asking, Waiting, Passed, Registering, Stopped
<1>6. OnFailLive'
  BY <1>s, <1>t, <1>n, <1>b, <1>c, <1>f, <1>m, <1>e DEF Inv, At, OnFailLive, Asking, Waiting, Passed, Registering, Stopped
<1>7. FailureQueued'
  BY <1>s, <1>t, <1>n, <1>b, <1>c, <1>f, <1>m, <1>e DEF Inv, At, FailureQueued, Asking, Waiting, Passed, Registering, Stopped
<1>8. DepsQueued'
  BY <1>s, <1>t, <1>n, <1>b, <1>c, <1>f, <1>m, <1>e DEF Inv, At, DepsQueued, Asking, Waiting, Passed, Registering, Stopped
<1>9. FailureRegistered'
  BY <1>s, <1>t, <1>n, <1>b, <1>c, <1>f, <1>m, <1>e DEF Inv, At, FailureRegistered, Asking, Waiting, Passed, Registering, Stopped
<1>10. Somewhere'
  BY <1>s, <1>t, <1>n, <1>b, <1>c, <1>f, <1>m, <1>e DEF Inv, At, Somewhere, Active, Awaits, Refused, Answerable, Asking, Waiting, Passed, Registering, Stopped
<1>11. FailureCaused'
  <2>1. \A x \in Keys : node'[x].failed = node[x].failed /\ node'[x].ready = node[x].ready
    BY <1>n
  <2>2. ASSUME NEW t \in Tasks, t # Blk(c, 1), At(t, "log")' \/ At(t, "set")'
        PROVE  st'[t] = st[t]
    BY <1>k, <2>2
  <2>3. Blk(c, 1).c = c
    BY TaskFacts
  <2> QED
    BY <1>s, <1>t, <1>m, <1>e, <2>1, <2>2, <2>3 DEF Inv, FailureCaused, At
<1>12. ValueFromConsumer'
  BY <1>s, <1>t, <1>n, <1>b, <1>c, <1>f, <1>m, <1>e DEF Inv, At, ValueFromConsumer, Asking, Waiting, Passed, Registering, Stopped
<1>13. KnownNodes'
  <2>1. \A x \in Keys : \/ node'[x].exists
                        \/ /\ ~node'[x].queued /\ ~node'[x].ready /\ ~node'[x].failed
                           /\ node'[x].awaiting = {} /\ node'[x].onfail = {}
    <3> SUFFICES ASSUME NEW x \in Keys, ~node'[x].exists
                 PROVE  /\ ~node'[x].queued /\ ~node'[x].ready /\ ~node'[x].failed
                        /\ node'[x].awaiting = {} /\ node'[x].onfail = {}
      OBVIOUS
    <3>1. ~node[x].exists
      BY <1>h
    <3>2. /\ ~node[x].queued /\ ~node[x].ready /\ ~node[x].failed
          /\ node[x].awaiting = {} /\ node[x].onfail = {}
      BY <3>1 DEF Inv, KnownNodes
    <3>3. /\ node'[x].queued = node[x].queued /\ node'[x].ready = node[x].ready /\ node'[x].failed = node[x].failed
          /\ node'[x].awaiting = node[x].awaiting /\ node'[x].onfail = node[x].onfail
      BY <1>n
    <3> QED
      BY <3>2, <3>3
  <2>2. ASSUME NEW x \in Consumers, st'[Blk(x, 1)].pc = "mark"
        PROVE  node'[deps[x][st'[Blk(x, 1)].i]].exists
    <3>1. st[Blk(x, 1)].pc = "mark" => st[Blk(x, 1)].i \in DOMAIN deps[x] /\ node[deps[x][st[Blk(x, 1)].i]].exists
      BY <1>t DEF Inv, TaskShape, KnownNodes, At
    <3>2. CASE st'[Blk(x, 1)] = st[Blk(x, 1)]
      BY <1>t, <1>h, <2>2, <3>1, <3>2
    <3>3. CASE st'[Blk(x, 1)] # st[Blk(x, 1)]
      BY <1>s, <1>t, <1>n, <1>b, <1>c, <1>f, <1>m, <1>e, <1>h, <2>2, <3>1, <3>3
    <3> QED
      BY <3>2, <3>3
  <2>3. ASSUME NEW x \in Keys, NEW y \in Keys
        PROVE  /\ At(Blk(x, 1), "log")' /\ st'[Blk(x, 1)].key = y => node'[y].exists
               /\ At(Consume(x), "log")' /\ st'[Consume(x)].key = y => node'[y].exists
               /\ parent'[x] = y => node'[y].exists
    <3>1. /\ st[Blk(x, 1)].pc = "log" /\ st[Blk(x, 1)].key = y => node'[y].exists
          /\ st[Consume(x)].pc = "log" /\ st[Consume(x)].key = y => node'[y].exists
          /\ parent[x] = y => node'[y].exists
      BY <1>h DEF Inv, KnownNodes, At
    <3> QED
      BY <1>s, <1>t, <1>n, <1>b, <1>c, <1>f, <1>m, <1>e, <1>h, <3>1 DEF At, Asking, Waiting
  <2> QED
    BY <1>s, <2>1, <2>2, <2>3 DEF KnownNodes, At
<1> QED
  BY <1>1, <1>2, <1>3, <1>4, <1>5, <1>6, <1>7, <1>8, <1>9, <1>10, <1>11, <1>12, <1>13 DEF Inv

(* A consumer ends or logs an error, and no node is concerned. *)
LEMMA ConsumerEndsNext ==
  ASSUME Inv, Static, NEW c \in Consumers, NEW l \in {"log", "set", "done"}, NEW i \in Nat \ {0},
         NEW key \in Keys \cup {"none"},
         st[Consume(c)].pc \in {"consume", "log", "set"}, Becomes(Consume(c), l, i, key),
         BlksKept({}), ConsumesKept({c}), FailuresKept({}), NodesKept({}), parent' = parent,
         l = "log" => c \in failing /\ key \in Keys /\ Bad(key) /\ node[key].exists /\ (key = c \/ node[c].failed),
         l = "set" => c \in Keys /\ node[c].failed,
         l = "done" => c \in Roots \/ node[c].ready \/ node[c].failed
  PROVE  Inv'
<1>s. /\ [deps |-> deps, failing |-> failing] \in Problems
      /\ deps' = deps /\ failing' = failing /\ again' = again /\ Tasks' = Tasks
      /\ \A d : Pos(d)' = Pos(d) /\ Bad(d)' = Bad(d)
      /\ DOMAIN st' = Tasks /\ requests' \subseteq Keys \X Keys
  BY StaticFacts DEF Inv, TypeOK, Static
<1>t. /\ \A k \in Keys : k \in Consumers
      /\ \A d \in Roots : d \in Consumers
      /\ \A d \in Keys \cup WithFail : d \in Consumers
      /\ \A d \in Consumers : 1 \in Pos(d) /\ \A q, r \in Pos(d) : r < q => r \in DOMAIN deps[d]
      /\ \A d \in Consumers : \A q \in DOMAIN deps[d] :
           deps[d][q] \in Keys /\ q \in Pos(d) /\ q + 1 \in Pos(d)
  BY <1>s, PosOrder, DepsFacts, TaskSet
<1>n. /\ DOMAIN node' = Keys
      /\ \A k \in Keys :
           /\ DOMAIN node'[k] = DOMAIN NoNode /\ node'[k].exists \in BOOLEAN
           /\ node'[k].queued = node[k].queued /\ node'[k].ready = node[k].ready /\ node'[k].failed = node[k].failed
           /\ node'[k].awaiting = node[k].awaiting /\ node'[k].onfail = node[k].onfail
  BY DEF NodesKept, NodeKept
<1>b. \A d \in Consumers : \A q \in Pos(d) : st'[Blk(d, q)] = st[Blk(d, q)]
  BY DEF BlksKept
<1>c. \A d \in Consumers : d = c \/ st'[Consume(d)] = st[Consume(d)]
  BY DEF ConsumesKept
<1>f. \A d \in Keys \cup WithFail : st'[FailOf(d)] = st[FailOf(d)]
  BY DEF FailuresKept
<1>m. /\ st'[Consume(c)].pc = l /\ st'[Consume(c)].i = i /\ st'[Consume(c)].key = key
      /\ DOMAIN st'[Consume(c)] = {"pc", "i", "key"}
  BY DEF Becomes
<1>k. /\ Consume(c) \in Tasks
      /\ \A t \in Tasks : t = Consume(c) \/ st'[t] = st[t]
  BY <1>s, <1>t, <1>b, <1>c, <1>f, TaskSet
<1>e. /\ c \in Consumers /\ 1 \in Pos(c) /\ failing \subseteq Keys
      /\ c \notin Keys => c \notin failing
      /\ c \in Roots => c \notin Keys
  BY <1>s, <1>t, DepsFacts, TaskSet
<1>h. \A x \in Keys : node[x].exists => node'[x].exists
  BY DEF NodesKept, NodeKept, NodeBecomes
<1>1. TypeOK'
  <2>1. \A x \in Keys : /\ {node'[x].exists, node'[x].queued, node'[x].ready, node'[x].failed} \subseteq BOOLEAN
                        /\ node'[x].awaiting \cup node'[x].onfail \subseteq Tasks
    <3>1. \A x \in Keys : /\ {node[x].exists, node[x].queued, node[x].ready, node[x].failed} \subseteq BOOLEAN
                          /\ node[x].awaiting \cup node[x].onfail \subseteq Tasks
      BY DEF Inv, TypeOK
    <3> QED
      BY <1>n, <3>1
  <2>2. \A t \in Tasks : /\ DOMAIN st'[t] = {"pc", "i", "key"}
                         /\ st'[t].pc \in PCs /\ st'[t].i \in Nat \ {0} /\ st'[t].key \in Keys \cup {"none"}
    <3>1. \A t \in Tasks : /\ DOMAIN st[t] = {"pc", "i", "key"}
                           /\ st[t].pc \in PCs /\ st[t].i \in Nat \ {0} /\ st[t].key \in Keys \cup {"none"}
      BY DEF Inv, TypeOK
    <3> QED
      BY <1>t, <1>k, <1>m, <3>1 DEF PCs
  <2> QED
    BY <1>s, <1>n, <2>1, <2>2 DEF Inv, TypeOK
<1>2. TaskShape'
  BY <1>s, <1>t, <1>n, <1>b, <1>c, <1>f, <1>m, <1>e DEF Inv, At, TaskShape, Asking, Waiting, Passed, Registering, Stopped
<1>3. CreatorOnce'
  BY <1>s, <1>t, <1>n, <1>b, <1>c, <1>f, <1>m, <1>e DEF Inv, At, CreatorOnce, Asking, Waiting, Passed, Registering, Stopped
<1>4. ChainInOrder'
  BY <1>s, <1>t, <1>n, <1>b, <1>c, <1>f, <1>m, <1>e DEF Inv, At, ChainInOrder, Asking, Waiting, Passed, Registering, Stopped
<1>5. AwaitingLive'
  BY <1>s, <1>t, <1>n, <1>b, <1>c, <1>f, <1>m, <1>e DEF Inv, At, AwaitingLive, Asking, Waiting, Passed, Registering, Stopped
<1>6. OnFailLive'
  BY <1>s, <1>t, <1>n, <1>b, <1>c, <1>f, <1>m, <1>e DEF Inv, At, OnFailLive, Asking, Waiting, Passed, Registering, Stopped
<1>7. FailureQueued'
  BY <1>s, <1>t, <1>n, <1>b, <1>c, <1>f, <1>m, <1>e DEF Inv, At, FailureQueued, Asking, Waiting, Passed, Registering, Stopped
<1>8. DepsQueued'
  BY <1>s, <1>t, <1>n, <1>b, <1>c, <1>f, <1>m, <1>e DEF Inv, At, DepsQueued, Asking, Waiting, Passed, Registering, Stopped
<1>9. FailureRegistered'
  BY <1>s, <1>t, <1>n, <1>b, <1>c, <1>f, <1>m, <1>e DEF Inv, At, FailureRegistered, Asking, Waiting, Passed, Registering, Stopped
<1>10. Somewhere'
  BY <1>s, <1>t, <1>n, <1>b, <1>c, <1>f, <1>m, <1>e DEF Inv, At, Somewhere, Active, Awaits, Refused, Answerable, Asking, Waiting, Passed, Registering, Stopped
<1>11. FailureCaused'
  <2>1. \A x \in Keys : node'[x].failed = node[x].failed /\ node'[x].ready = node[x].ready
    BY <1>n
  <2>2. ASSUME NEW t \in Tasks, t # Consume(c), At(t, "log")' \/ At(t, "set")'
        PROVE  st'[t] = st[t]
    BY <1>k, <2>2
  <2>3. Consume(c).c = c
    BY TaskFacts
  <2> QED
    BY <1>s, <1>t, <1>m, <1>e, <2>1, <2>2, <2>3 DEF Inv, FailureCaused, At
<1>12. ValueFromConsumer'
  BY <1>s, <1>t, <1>n, <1>b, <1>c, <1>f, <1>m, <1>e DEF Inv, At, ValueFromConsumer, Asking, Waiting, Passed, Registering, Stopped
<1>13. KnownNodes'
  <2>1. \A x \in Keys : \/ node'[x].exists
                        \/ /\ ~node'[x].queued /\ ~node'[x].ready /\ ~node'[x].failed
                           /\ node'[x].awaiting = {} /\ node'[x].onfail = {}
    <3> SUFFICES ASSUME NEW x \in Keys, ~node'[x].exists
                 PROVE  /\ ~node'[x].queued /\ ~node'[x].ready /\ ~node'[x].failed
                        /\ node'[x].awaiting = {} /\ node'[x].onfail = {}
      OBVIOUS
    <3>1. ~node[x].exists
      BY <1>h
    <3>2. /\ ~node[x].queued /\ ~node[x].ready /\ ~node[x].failed
          /\ node[x].awaiting = {} /\ node[x].onfail = {}
      BY <3>1 DEF Inv, KnownNodes
    <3>3. /\ node'[x].queued = node[x].queued /\ node'[x].ready = node[x].ready /\ node'[x].failed = node[x].failed
          /\ node'[x].awaiting = node[x].awaiting /\ node'[x].onfail = node[x].onfail
      BY <1>n
    <3> QED
      BY <3>2, <3>3
  <2>2. ASSUME NEW x \in Consumers, st'[Blk(x, 1)].pc = "mark"
        PROVE  node'[deps[x][st'[Blk(x, 1)].i]].exists
    <3>1. st[Blk(x, 1)].pc = "mark" => st[Blk(x, 1)].i \in DOMAIN deps[x] /\ node[deps[x][st[Blk(x, 1)].i]].exists
      BY <1>t DEF Inv, TaskShape, KnownNodes, At
    <3>2. CASE st'[Blk(x, 1)] = st[Blk(x, 1)]
      BY <1>t, <1>h, <2>2, <3>1, <3>2
    <3>3. CASE st'[Blk(x, 1)] # st[Blk(x, 1)]
      BY <1>s, <1>t, <1>n, <1>b, <1>c, <1>f, <1>m, <1>e, <1>h, <2>2, <3>1, <3>3
    <3> QED
      BY <3>2, <3>3
  <2>3. ASSUME NEW x \in Keys, NEW y \in Keys
        PROVE  /\ At(Blk(x, 1), "log")' /\ st'[Blk(x, 1)].key = y => node'[y].exists
               /\ At(Consume(x), "log")' /\ st'[Consume(x)].key = y => node'[y].exists
               /\ parent'[x] = y => node'[y].exists
    <3>1. /\ st[Blk(x, 1)].pc = "log" /\ st[Blk(x, 1)].key = y => node'[y].exists
          /\ st[Consume(x)].pc = "log" /\ st[Consume(x)].key = y => node'[y].exists
          /\ parent[x] = y => node'[y].exists
      BY <1>h DEF Inv, KnownNodes, At
    <3> QED
      BY <1>s, <1>t, <1>n, <1>b, <1>c, <1>f, <1>m, <1>e, <1>h, <3>1 DEF At, Asking, Waiting
  <2> QED
    BY <1>s, <2>1, <2>2, <2>3 DEF KnownNodes, At
<1> QED
  BY <1>1, <1>2, <1>3, <1>4, <1>5, <1>6, <1>7, <1>8, <1>9, <1>10, <1>11, <1>12, <1>13 DEF Inv

(* A failure function ends without failing a node. *)
LEMMA FailureEndsNext ==
  ASSUME Inv, Static, NEW c \in Keys \cup WithFail, NEW i \in Nat \ {0}, At(FailOf(c), "fail"),
         c \in Keys => node[c].ready \/ node[c].failed,
         Becomes(FailOf(c), "done", i, st[FailOf(c)].key),
         BlksKept({}), ConsumesKept({}), FailuresKept({c}), NodesKept({}), parent' = parent
  PROVE  Inv'
<1>s. /\ [deps |-> deps, failing |-> failing] \in Problems
      /\ deps' = deps /\ failing' = failing /\ again' = again /\ Tasks' = Tasks
      /\ \A d : Pos(d)' = Pos(d) /\ Bad(d)' = Bad(d)
      /\ DOMAIN st' = Tasks /\ requests' \subseteq Keys \X Keys
  BY StaticFacts DEF Inv, TypeOK, Static
<1>t. /\ \A k \in Keys : k \in Consumers
      /\ \A d \in Roots : d \in Consumers
      /\ \A d \in Keys \cup WithFail : d \in Consumers
      /\ \A d \in Consumers : 1 \in Pos(d) /\ \A q, r \in Pos(d) : r < q => r \in DOMAIN deps[d]
      /\ \A d \in Consumers : \A q \in DOMAIN deps[d] :
           deps[d][q] \in Keys /\ q \in Pos(d) /\ q + 1 \in Pos(d)
  BY <1>s, PosOrder, DepsFacts, TaskSet
<1>n. /\ DOMAIN node' = Keys
      /\ \A k \in Keys :
           /\ DOMAIN node'[k] = DOMAIN NoNode /\ node'[k].exists \in BOOLEAN
           /\ node'[k].queued = node[k].queued /\ node'[k].ready = node[k].ready /\ node'[k].failed = node[k].failed
           /\ node'[k].awaiting = node[k].awaiting /\ node'[k].onfail = node[k].onfail
  BY DEF NodesKept, NodeKept
<1>b. \A d \in Consumers : \A q \in Pos(d) : st'[Blk(d, q)] = st[Blk(d, q)]
  BY DEF BlksKept
<1>c. \A d \in Consumers : st'[Consume(d)] = st[Consume(d)]
  BY DEF ConsumesKept
<1>f. \A d \in Keys \cup WithFail : d = c \/ st'[FailOf(d)] = st[FailOf(d)]
  BY DEF FailuresKept
<1>m. /\ st'[FailOf(c)].pc = "done" /\ st'[FailOf(c)].i = i
      /\ st'[FailOf(c)].key = st[FailOf(c)].key
      /\ DOMAIN st'[FailOf(c)] = {"pc", "i", "key"}
  BY DEF Becomes
<1>k. /\ FailOf(c) \in Tasks
      /\ \A t \in Tasks : t = FailOf(c) \/ st'[t] = st[t]
  BY <1>s, <1>t, <1>b, <1>c, <1>f, TaskSet
<1>h. \A x \in Keys : node[x].exists => node'[x].exists
  BY DEF NodesKept, NodeKept, NodeBecomes
<1>1. TypeOK'
  <2>1. \A x \in Keys : /\ {node'[x].exists, node'[x].queued, node'[x].ready, node'[x].failed} \subseteq BOOLEAN
                        /\ node'[x].awaiting \cup node'[x].onfail \subseteq Tasks
    <3>1. \A x \in Keys : /\ {node[x].exists, node[x].queued, node[x].ready, node[x].failed} \subseteq BOOLEAN
                          /\ node[x].awaiting \cup node[x].onfail \subseteq Tasks
      BY DEF Inv, TypeOK
    <3> QED
      BY <1>n, <3>1
  <2>2. \A t \in Tasks : /\ DOMAIN st'[t] = {"pc", "i", "key"}
                         /\ st'[t].pc \in PCs /\ st'[t].i \in Nat \ {0} /\ st'[t].key \in Keys \cup {"none"}
    <3>1. \A t \in Tasks : /\ DOMAIN st[t] = {"pc", "i", "key"}
                           /\ st[t].pc \in PCs /\ st[t].i \in Nat \ {0} /\ st[t].key \in Keys \cup {"none"}
      BY DEF Inv, TypeOK
    <3> QED
      BY <1>t, <1>k, <1>m, <3>1 DEF PCs
  <2> QED
    BY <1>s, <1>n, <2>1, <2>2 DEF Inv, TypeOK
<1>2. TaskShape'
  BY <1>s, <1>t, <1>n, <1>b, <1>c, <1>f, <1>m DEF Inv, At, TaskShape, Asking, Waiting, Passed, Registering, Stopped
<1>3. CreatorOnce'
  BY <1>s, <1>t, <1>n, <1>b, <1>c, <1>f, <1>m DEF Inv, At, CreatorOnce, Asking, Waiting, Passed, Registering, Stopped
<1>4. ChainInOrder'
  BY <1>s, <1>t, <1>n, <1>b, <1>c, <1>f, <1>m DEF Inv, At, ChainInOrder, Asking, Waiting, Passed, Registering, Stopped
<1>5. AwaitingLive'
  BY <1>s, <1>t, <1>n, <1>b, <1>c, <1>f, <1>m DEF Inv, At, AwaitingLive, Asking, Waiting, Passed, Registering, Stopped
<1>6. OnFailLive'
  BY <1>s, <1>t, <1>n, <1>b, <1>c, <1>f, <1>m DEF Inv, At, OnFailLive, Asking, Waiting, Passed, Registering, Stopped
<1>7. FailureQueued'
  BY <1>s, <1>t, <1>n, <1>b, <1>c, <1>f, <1>m DEF Inv, At, FailureQueued, Asking, Waiting, Passed, Registering, Stopped
<1>8. DepsQueued'
  BY <1>s, <1>t, <1>n, <1>b, <1>c, <1>f, <1>m DEF Inv, At, DepsQueued, Asking, Waiting, Passed, Registering, Stopped
<1>9. FailureRegistered'
  BY <1>s, <1>t, <1>n, <1>b, <1>c, <1>f, <1>m DEF Inv, At, FailureRegistered, Asking, Waiting, Passed, Registering, Stopped
<1>10. Somewhere'
  BY <1>s, <1>t, <1>n, <1>b, <1>c, <1>f, <1>m DEF Inv, At, Somewhere, Active, Awaits, Refused, Answerable, Asking, Waiting, Passed, Registering, Stopped
<1>11. FailureCaused'
  <2>1. \A t \in Tasks : t = FailOf(c) => ~At(t, "log")' /\ ~At(t, "set")'
    BY <1>m DEF At, Asking, Waiting
  <2> QED
    BY <1>s, <1>t, <1>n, <1>k, <2>1 DEF Inv, At, FailureCaused
<1>12. ValueFromConsumer'
  BY <1>s, <1>t, <1>n, <1>b, <1>c, <1>f, <1>m DEF Inv, At, ValueFromConsumer, Asking, Waiting, Passed, Registering, Stopped
<1>13. KnownNodes'
  <2>1. \A x \in Keys : \/ node'[x].exists
                        \/ /\ ~node'[x].queued /\ ~node'[x].ready /\ ~node'[x].failed
                           /\ node'[x].awaiting = {} /\ node'[x].onfail = {}
    <3> SUFFICES ASSUME NEW x \in Keys, ~node'[x].exists
                 PROVE  /\ ~node'[x].queued /\ ~node'[x].ready /\ ~node'[x].failed
                        /\ node'[x].awaiting = {} /\ node'[x].onfail = {}
      OBVIOUS
    <3>1. ~node[x].exists
      BY <1>h
    <3>2. /\ ~node[x].queued /\ ~node[x].ready /\ ~node[x].failed
          /\ node[x].awaiting = {} /\ node[x].onfail = {}
      BY <3>1 DEF Inv, KnownNodes
    <3>3. /\ node'[x].queued = node[x].queued /\ node'[x].ready = node[x].ready /\ node'[x].failed = node[x].failed
          /\ node'[x].awaiting = node[x].awaiting /\ node'[x].onfail = node[x].onfail
      BY <1>n
    <3> QED
      BY <3>2, <3>3
  <2>2. ASSUME NEW x \in Consumers, st'[Blk(x, 1)].pc = "mark"
        PROVE  node'[deps[x][st'[Blk(x, 1)].i]].exists
    <3>1. st[Blk(x, 1)].pc = "mark" => st[Blk(x, 1)].i \in DOMAIN deps[x] /\ node[deps[x][st[Blk(x, 1)].i]].exists
      BY <1>t DEF Inv, TaskShape, KnownNodes, At
    <3>2. CASE st'[Blk(x, 1)] = st[Blk(x, 1)]
      BY <1>t, <1>h, <2>2, <3>1, <3>2
    <3>3. CASE st'[Blk(x, 1)] # st[Blk(x, 1)]
      BY <1>s, <1>t, <1>n, <1>b, <1>c, <1>f, <1>m, <1>h, <2>2, <3>1, <3>3
    <3> QED
      BY <3>2, <3>3
  <2>3. ASSUME NEW x \in Keys, NEW y \in Keys
        PROVE  /\ At(Blk(x, 1), "log")' /\ st'[Blk(x, 1)].key = y => node'[y].exists
               /\ At(Consume(x), "log")' /\ st'[Consume(x)].key = y => node'[y].exists
               /\ parent'[x] = y => node'[y].exists
    <3>1. /\ st[Blk(x, 1)].pc = "log" /\ st[Blk(x, 1)].key = y => node'[y].exists
          /\ st[Consume(x)].pc = "log" /\ st[Consume(x)].key = y => node'[y].exists
          /\ parent[x] = y => node'[y].exists
      BY <1>h DEF Inv, KnownNodes, At
    <3> QED
      BY <1>s, <1>t, <1>n, <1>b, <1>c, <1>f, <1>m, <1>h, <3>1 DEF At, Asking, Waiting
  <2> QED
    BY <1>s, <2>1, <2>2, <2>3 DEF KnownNodes, At
<1> QED
  BY <1>1, <1>2, <1>3, <1>4, <1>5, <1>6, <1>7, <1>8, <1>9, <1>10, <1>11, <1>12, <1>13 DEF Inv

(* The consumer of a key sets its value, and whoever awaits it goes on. *)
LEMMA SetValueNext ==
  ASSUME Inv, Static, NEW k \in Keys, k \notin failing, ~node[k].failed, At(Consume(k), "consume"),
         Becomes(Consume(k), "done", 1, st[Consume(k)].key),
         \A t \in node[k].awaiting : Becomes(t, "block", st[t].i, st[t].key),
         \A t \in Tasks : t = Consume(k) \/ t \in node[k].awaiting \/ st'[t] = st[t],
         NodesKept({k}), NodeBecomes(k, node[k].queued, TRUE, FALSE, {}, {}),
         parent' = parent
  PROVE  Inv'
<1>s. /\ [deps |-> deps, failing |-> failing] \in Problems
      /\ deps' = deps /\ failing' = failing /\ again' = again /\ Tasks' = Tasks
      /\ \A d : Pos(d)' = Pos(d) /\ Bad(d)' = Bad(d)
      /\ DOMAIN st' = Tasks /\ requests' \subseteq Keys \X Keys
  BY StaticFacts DEF Inv, TypeOK, Static
<1>t. /\ \A x \in Keys : x \in Consumers
      /\ \A d \in Roots : d \in Consumers
      /\ \A d \in Keys \cup WithFail : d \in Consumers
      /\ \A d \in Consumers : 1 \in Pos(d) /\ \A q, r \in Pos(d) : r < q => r \in DOMAIN deps[d]
      /\ \A d \in Consumers : \A q \in DOMAIN deps[d] :
           deps[d][q] \in Keys /\ q \in Pos(d) /\ q + 1 \in Pos(d)
  BY <1>s, PosOrder, DepsFacts, TaskSet
<1>n. /\ DOMAIN node' = Keys
      /\ \A x \in Keys : DOMAIN node'[x] = DOMAIN NoNode /\ node'[x].exists \in BOOLEAN
      /\ \A x \in Keys : x = k \/
           /\ node'[x].queued = node[x].queued /\ node'[x].ready = node[x].ready /\ node'[x].failed = node[x].failed
           /\ node'[x].awaiting = node[x].awaiting /\ node'[x].onfail = node[x].onfail
      /\ node'[k].queued = node[k].queued /\ node'[k].ready = TRUE /\ node'[k].failed = FALSE
      /\ node'[k].awaiting = {} /\ node'[k].onfail = {}
  BY DEF NodesKept, NodeKept, NodeBecomes
<1>w. \A t \in node[k].awaiting : \E d \in Consumers : \E p \in DOMAIN deps[d] :
        t = Blk(d, p + 1) /\ p + 1 # 1 /\ deps[d][p] = k /\ st[Blk(d, p)].pc \in Passed /\ At(t, "none")
  BY <1>s, DepsFacts DEF Inv, AwaitingLive
<1>v. /\ Consume(k) \notin node[k].awaiting /\ \A d : FailOf(d) \notin node[k].awaiting
      /\ \A d \in Consumers : Consume(d) \notin node[k].awaiting /\ Blk(d, 1) \notin node[k].awaiting
  BY <1>w, TaskFacts
<1>b. \A d \in Consumers : \A q \in Pos(d) :
        \/ Blk(d, q) \notin node[k].awaiting /\ st'[Blk(d, q)] = st[Blk(d, q)]
        \/ /\ Blk(d, q) \in node[k].awaiting /\ q # 1 /\ st[Blk(d, q)].pc = "none"
           /\ st'[Blk(d, q)].pc = "block" /\ st'[Blk(d, q)].i = st[Blk(d, q)].i /\ st'[Blk(d, q)].key = st[Blk(d, q)].key
  <2> TAKE d \in Consumers
  <2> TAKE q \in Pos(d)
  <2>1. Blk(d, q) \in Tasks /\ Blk(d, q) # Consume(k)
    BY <1>s, TaskFacts, TaskSet
  <2>2. Blk(d, q) \in node[k].awaiting => q # 1 /\ st[Blk(d, q)].pc = "none"
    BY <1>v, <1>w DEF At
  <2> QED
    BY <2>1, <2>2 DEF Becomes
<1>c. \A d \in Consumers : d = k \/ st'[Consume(d)] = st[Consume(d)]
  BY <1>s, <1>v, TaskFacts, TaskSet
<1>f. \A d \in Keys \cup WithFail : st'[FailOf(d)] = st[FailOf(d)]
  BY <1>s, <1>v, TaskFacts, TaskSet
<1>m. /\ st'[Consume(k)].pc = "done" /\ st'[Consume(k)].i = 1
      /\ st'[Consume(k)].key = st[Consume(k)].key
      /\ DOMAIN st'[Consume(k)] = {"pc", "i", "key"}
  BY DEF Becomes
<1>k. \A t \in Tasks : \/ t = Consume(k) \/ st'[t] = st[t]
                      \/ /\ st'[t].pc = "block" /\ st'[t].i = st[t].i /\ st'[t].key = st[t].key
                         /\ DOMAIN st'[t] = {"pc", "i", "key"} /\ t \in node[k].awaiting
  BY DEF Becomes
<1>h. node'[k].exists /\ \A x \in Keys : node[x].exists => node'[x].exists
  BY DEF NodesKept, NodeKept, NodeBecomes
<1>1. TypeOK'
  <2>1. \A x \in Keys : /\ {node'[x].exists, node'[x].queued, node'[x].ready, node'[x].failed} \subseteq BOOLEAN
                        /\ node'[x].awaiting \cup node'[x].onfail \subseteq Tasks
    <3>1. \A x \in Keys : /\ {node[x].exists, node[x].queued, node[x].ready, node[x].failed} \subseteq BOOLEAN
                          /\ node[x].awaiting \cup node[x].onfail \subseteq Tasks
      BY DEF Inv, TypeOK
    <3>2. ASSUME NEW x \in Keys, x # k
          PROVE  /\ {node'[x].exists, node'[x].queued, node'[x].ready, node'[x].failed} \subseteq BOOLEAN
                 /\ node'[x].awaiting \cup node'[x].onfail \subseteq Tasks
      BY <1>n, <3>1, <3>2
    <3>3. /\ {node'[k].exists, node'[k].queued, node'[k].ready, node'[k].failed} \subseteq BOOLEAN
          /\ node'[k].awaiting \cup node'[k].onfail \subseteq Tasks
      BY <1>n, <3>1
    <3> QED
      BY <3>2, <3>3
  <2>2. \A t \in Tasks : /\ DOMAIN st'[t] = {"pc", "i", "key"}
                         /\ st'[t].pc \in PCs /\ st'[t].i \in Nat \ {0} /\ st'[t].key \in Keys \cup {"none"}
    <3>1. \A t \in Tasks : /\ DOMAIN st[t] = {"pc", "i", "key"}
                           /\ st[t].pc \in PCs /\ st[t].i \in Nat \ {0} /\ st[t].key \in Keys \cup {"none"}
      BY DEF Inv, TypeOK
    <3> QED
      BY <1>t, <1>k, <1>m, <3>1 DEF PCs
  <2> QED
    BY <1>s, <1>n, <2>1, <2>2 DEF Inv, TypeOK
<1>2. TaskShape'
  BY <1>s, <1>t, <1>n, <1>b, <1>c, <1>f, <1>m DEF Inv, At, TaskShape, Asking, Waiting, Passed, Registering, Stopped
<1>3. CreatorOnce'
  BY <1>s, <1>t, <1>n, <1>b, <1>c, <1>f, <1>m DEF Inv, At, CreatorOnce, Asking, Waiting, Passed, Registering, Stopped
<1>4. ChainInOrder'
  <2>1. \A d \in Consumers : \A q \in Pos(d) :
          /\ st[Blk(d, q)].pc \in Passed => st'[Blk(d, q)].pc \in Passed
          /\ st'[Blk(d, q)].pc # "none" => Blk(d, q) \in node[k].awaiting \/ st[Blk(d, q)].pc # "none"
    BY <1>b DEF Passed
  <2>2. \A x \in Keys : node[x].ready => node'[x].ready
    BY <1>n
  <2>3. ASSUME NEW d \in Consumers, NEW q \in Pos(d), Blk(d, q) \in node[k].awaiting, NEW r \in Pos(d), r < q
        PROVE  st[Blk(d, r)].pc \in Passed /\ node'[deps[d][r]].ready
    <3>1. PICK e \in Consumers : \E p \in DOMAIN deps[e] :
            Blk(d, q) = Blk(e, p + 1) /\ deps[e][p] = k /\ st[Blk(e, p)].pc \in Passed
      BY <1>w, <2>3
    <3>2. PICK p \in DOMAIN deps[e] : Blk(d, q) = Blk(e, p + 1) /\ deps[e][p] = k /\ st[Blk(e, p)].pc \in Passed
      BY <3>1
    <3>3. e = d /\ q = p + 1
      BY <3>2, TaskFacts
    <3>4. (r < p \/ r = p) /\ p \in Pos(d)
      BY <1>s, <2>3, <3>3, DepsFacts
    <3>5. CASE r = p
      BY <1>n, <3>2, <3>3, <3>5
    <3>6. CASE r < p
      <4>1. st[Blk(d, r)].pc \in Passed /\ node[deps[d][r]].ready
        BY <3>2, <3>3, <3>4, <3>6 DEF Inv, ChainInOrder, At, Passed
      <4>2. deps[d][r] \in Keys
        BY <1>t, <2>3
      <4> QED
        BY <2>2, <4>1, <4>2
    <3> QED
      BY <3>4, <3>5, <3>6
  <2>4. ASSUME NEW d \in Consumers, NEW q \in Pos(d), st'[Blk(d, q)].pc # "none", NEW r \in Pos(d), r < q
        PROVE  st'[Blk(d, r)].pc \in Passed /\ node'[deps[d][r]].ready
    <3>1. deps[d][r] \in Keys
      BY <1>t, <2>4
    <3>2. CASE Blk(d, q) \in node[k].awaiting
      BY <2>1, <2>3, <2>4, <3>2
    <3>3. CASE Blk(d, q) \notin node[k].awaiting
      <4>1. st[Blk(d, r)].pc \in Passed /\ node[deps[d][r]].ready
        BY <2>1, <2>4, <3>3 DEF Inv, ChainInOrder, At
      <4> QED
        BY <2>1, <2>2, <3>1, <4>1
    <3> QED
      BY <3>2, <3>3
  <2>5. \A d \in Consumers : st'[Consume(d)].pc # "none" => st[Consume(d)].pc # "none"
    BY <1>c DEF At
  <2>6. ASSUME NEW d \in Consumers, st[Consume(d)].pc # "none"
        PROVE  /\ \A q \in Pos(d) : st'[Blk(d, q)].pc \in Passed
               /\ \A q \in DOMAIN deps[d] : node'[deps[d][q]].ready
    BY <1>t, <2>1, <2>2, <2>6 DEF Inv, ChainInOrder, At
  <2> QED
    BY <1>s, <2>4, <2>5, <2>6 DEF ChainInOrder, At
<1>5. AwaitingLive'
  <2>1. \A x \in Keys : x # k => \A t \in node[x].awaiting : t \notin node[k].awaiting
    <3>1. SUFFICES ASSUME NEW x \in Keys, NEW t \in node[x].awaiting, t \in node[k].awaiting
                   PROVE  x = k
      OBVIOUS
    <3>2. PICK d \in Consumers : \E p \in DOMAIN deps[d] : t = Blk(d, p + 1) /\ deps[d][p] = k
      BY <1>w, <3>1
    <3>3. PICK p \in DOMAIN deps[d] : t = Blk(d, p + 1) /\ deps[d][p] = k
      BY <3>2
    <3>4. PICK e \in Consumers : \E q \in DOMAIN deps[e] : t = Blk(e, q + 1) /\ deps[e][q] = x
      BY <3>1 DEF Inv, AwaitingLive
    <3>5. PICK q \in DOMAIN deps[e] : t = Blk(e, q + 1) /\ deps[e][q] = x
      BY <3>4
    <3>6. d = e /\ p + 1 = q + 1
      BY <3>3, <3>5, TaskFacts
    <3>7. p \in Nat /\ q \in Nat
      BY <1>s, DepsFacts
    <3>8. p = q
      BY <3>6, <3>7
    <3> QED
      BY <3>3, <3>5, <3>6, <3>8
  <2>2. \A x \in Keys : \A t \in node[x].awaiting : t \in Tasks /\ t # Consume(k)
    BY DEF Inv, TypeOK, AwaitingLive, At
  <2>3. \A x \in Keys : x # k => \A t \in node[x].awaiting : st'[t] = st[t]
    BY <2>1, <2>2
  <2>4. \A d \in Consumers : \A q \in Pos(d) : st[Blk(d, q)].pc \in Passed => st'[Blk(d, q)].pc \in Passed
    BY <1>b DEF Passed
  <2> QED
    BY <1>s, <1>t, <1>n, <2>3, <2>4 DEF Inv, AwaitingLive, At
<1>6. OnFailLive'
  BY <1>s, <1>t, <1>n, <1>b, <1>c, <1>f, <1>m DEF Inv, At, OnFailLive, Asking, Waiting, Passed, Registering, Stopped
<1>7. FailureQueued'
  BY <1>s, <1>t, <1>n, <1>b, <1>c, <1>f, <1>m DEF Inv, At, FailureQueued, Asking, Waiting, Passed, Registering, Stopped
<1>8. DepsQueued'
  BY <1>s, <1>t, <1>n, <1>b, <1>c, <1>f, <1>m DEF Inv, At, DepsQueued, Asking, Waiting, Passed, Registering, Stopped
<1>9. FailureRegistered'
  BY <1>s, <1>t, <1>n, <1>b, <1>c, <1>f, <1>m DEF Inv, At, FailureRegistered, Asking, Waiting, Passed, Registering, Stopped
<1>10. Somewhere'
  BY <1>s, <1>t, <1>n, <1>b, <1>c, <1>f, <1>m DEF Inv, At, Somewhere, Active, Awaits, Refused, Answerable, Asking, Waiting, Passed, Registering, Stopped
<1>11. FailureCaused'
  <2>1. \A t \in Tasks : At(t, "log")' \/ At(t, "set")' => st'[t] = st[t] /\ (At(t, "log") \/ At(t, "set"))
    BY <1>k, <1>m DEF At
  <2> QED
    BY <1>s, <1>t, <1>n, <2>1 DEF Inv, FailureCaused, At
<1>12. ValueFromConsumer'
  BY <1>s, <1>t, <1>n, <1>b, <1>c, <1>f, <1>m DEF Inv, At, ValueFromConsumer, Asking, Waiting, Passed, Registering, Stopped
<1>13. KnownNodes'
  <2>1. \A x \in Keys : \/ node'[x].exists
                        \/ /\ ~node'[x].queued /\ ~node'[x].ready /\ ~node'[x].failed
                           /\ node'[x].awaiting = {} /\ node'[x].onfail = {}
    <3> SUFFICES ASSUME NEW x \in Keys, ~node'[x].exists
                 PROVE  /\ ~node'[x].queued /\ ~node'[x].ready /\ ~node'[x].failed
                        /\ node'[x].awaiting = {} /\ node'[x].onfail = {}
      OBVIOUS
    <3>1. ~node[x].exists
      BY <1>h
    <3>2. /\ ~node[x].queued /\ ~node[x].ready /\ ~node[x].failed
          /\ node[x].awaiting = {} /\ node[x].onfail = {}
      BY <3>1 DEF Inv, KnownNodes
    <3>4. x # k
      BY <1>h
    <3>3. /\ node'[x].queued = node[x].queued /\ node'[x].ready = node[x].ready /\ node'[x].failed = node[x].failed
          /\ node'[x].awaiting = node[x].awaiting /\ node'[x].onfail = node[x].onfail
      BY <1>n, <3>4
    <3> QED
      BY <3>2, <3>3
  <2>2. ASSUME NEW x \in Consumers, st'[Blk(x, 1)].pc = "mark"
        PROVE  node'[deps[x][st'[Blk(x, 1)].i]].exists
    <3>1. st[Blk(x, 1)].pc = "mark" => st[Blk(x, 1)].i \in DOMAIN deps[x] /\ node[deps[x][st[Blk(x, 1)].i]].exists
      BY <1>t DEF Inv, TaskShape, KnownNodes, At
    <3>2. CASE st'[Blk(x, 1)] = st[Blk(x, 1)]
      BY <1>t, <1>h, <2>2, <3>1, <3>2
    <3>3. CASE st'[Blk(x, 1)] # st[Blk(x, 1)]
      BY <1>s, <1>t, <1>n, <1>b, <1>c, <1>f, <1>m, <1>h, <2>2, <3>1, <3>3
    <3> QED
      BY <3>2, <3>3
  <2>3. ASSUME NEW x \in Keys, NEW y \in Keys
        PROVE  /\ At(Blk(x, 1), "log")' /\ st'[Blk(x, 1)].key = y => node'[y].exists
               /\ At(Consume(x), "log")' /\ st'[Consume(x)].key = y => node'[y].exists
               /\ parent'[x] = y => node'[y].exists
    <3>1. /\ st[Blk(x, 1)].pc = "log" /\ st[Blk(x, 1)].key = y => node'[y].exists
          /\ st[Consume(x)].pc = "log" /\ st[Consume(x)].key = y => node'[y].exists
          /\ parent[x] = y => node'[y].exists
      BY <1>h DEF Inv, KnownNodes, At
    <3> QED
      BY <1>s, <1>t, <1>n, <1>b, <1>c, <1>f, <1>m, <1>h, <3>1 DEF At, Asking, Waiting
  <2> QED
    BY <1>s, <2>1, <2>2, <2>3 DEF KnownNodes, At
<1> QED
  BY <1>1, <1>2, <1>3, <1>4, <1>5, <1>6, <1>7, <1>8, <1>9, <1>10, <1>11, <1>12, <1>13 DEF Inv

(* A fatal error of a creator fails a node, whose waiting consumers are told. *)
LEMMA CreatorFailsNodeNext ==
  ASSUME Inv, Static, NEW c \in Keys, c \in failing, NEW k \in Keys, ~node[k].ready,
         ~node[k].failed, Bad(k),
         At(Blk(c, 1), "log"), st[Blk(c, 1)].key = k, NEW l \in {"log", "set", "done"},
         NEW key \in Keys \cup {"none"},
         l = "log" => key \in Keys /\ Bad(key) /\ node[key].exists,
         Becomes(Blk(c, 1), l, st[Blk(c, 1)].i, key), Blk(c, 1) \notin node[k].onfail,
         \A v \in node[k].onfail : Becomes(v, "fail", st[v].i, st[v].key),
         \A v \in Tasks : v = Blk(c, 1) \/ v \in node[k].onfail \/ st'[v] = st[v],
         NodesKept({k}), NodeBecomes(k, node[k].queued, FALSE, TRUE, {}, {}), parent' = parent
  PROVE  Inv'
<1>s. /\ [deps |-> deps, failing |-> failing] \in Problems
      /\ deps' = deps /\ failing' = failing /\ again' = again /\ Tasks' = Tasks
      /\ \A d : Pos(d)' = Pos(d) /\ Bad(d)' = Bad(d)
      /\ DOMAIN st' = Tasks /\ requests' \subseteq Keys \X Keys
  BY StaticFacts DEF Inv, TypeOK, Static
<1>t. /\ \A x \in Keys : x \in Consumers
      /\ \A d \in Roots : d \in Consumers
      /\ \A d \in Keys \cup WithFail : d \in Consumers
      /\ \A d \in Consumers : 1 \in Pos(d) /\ \A q, r \in Pos(d) : r < q => r \in DOMAIN deps[d]
      /\ \A d \in Consumers : \A q \in DOMAIN deps[d] :
           deps[d][q] \in Keys /\ q \in Pos(d) /\ q + 1 \in Pos(d)
  BY <1>s, PosOrder, DepsFacts, TaskSet
<1>n. /\ DOMAIN node' = Keys
      /\ \A x \in Keys : DOMAIN node'[x] = DOMAIN NoNode /\ node'[x].exists \in BOOLEAN
      /\ \A x \in Keys : x = k \/
           /\ node'[x].queued = node[x].queued /\ node'[x].ready = node[x].ready /\ node'[x].failed = node[x].failed
           /\ node'[x].awaiting = node[x].awaiting /\ node'[x].onfail = node[x].onfail
      /\ node'[k].queued = node[k].queued /\ node'[k].ready = FALSE /\ node'[k].failed = TRUE
      /\ node'[k].awaiting = {} /\ node'[k].onfail = {}
  BY DEF NodesKept, NodeKept, NodeBecomes
<1>w. \A v \in node[k].onfail :
        At(v, "none") /\ \E d \in Keys \cup WithFail : \E p \in DOMAIN deps[d] :
          v = FailOf(d) /\ deps[d][p] = k /\ st[Blk(d, p)].pc \in Registering
  BY OnFailIdle
<1>v. /\ \A d, q : Blk(d, q) \notin node[k].onfail
      /\ \A d : Consume(d) \notin node[k].onfail
  BY <1>w, TaskFacts
<1>b. \A d \in Consumers : \A q \in Pos(d) : (d = c /\ q = 1) \/ st'[Blk(d, q)] = st[Blk(d, q)]
  BY <1>s, <1>v, TaskFacts, TaskSet
<1>c. \A d \in Consumers : st'[Consume(d)] = st[Consume(d)]
  BY <1>s, <1>v, TaskFacts, TaskSet
<1>f. \A d \in Keys \cup WithFail :
        \/ FailOf(d) \notin node[k].onfail /\ st'[FailOf(d)] = st[FailOf(d)]
        \/ /\ FailOf(d) \in node[k].onfail /\ st[FailOf(d)].pc = "none" /\ st'[FailOf(d)].pc = "fail"
           /\ \E p \in DOMAIN deps[d] : deps[d][p] = k /\ st[Blk(d, p)].pc \in Registering
  <2> TAKE d \in Keys \cup WithFail
  <2>1. FailOf(d) \in Tasks /\ FailOf(d) # Blk(c, 1)
    BY <1>s, TaskFacts, TaskSet
  <2>2. ASSUME FailOf(d) \in node[k].onfail
        PROVE  \E p \in DOMAIN deps[d] : deps[d][p] = k /\ st[Blk(d, p)].pc \in Registering
    BY <1>w, <2>2, TaskFacts
  <2> QED
    BY <1>w, <2>1, <2>2 DEF Becomes, At
<1>m. /\ st'[Blk(c, 1)].pc = l /\ st'[Blk(c, 1)].i = st[Blk(c, 1)].i /\ st'[Blk(c, 1)].key = key
      /\ DOMAIN st'[Blk(c, 1)] = {"pc", "i", "key"}
  BY DEF Becomes
<1>k. /\ Blk(c, 1) \in Tasks
      /\ \A v \in Tasks : \/ v = Blk(c, 1) \/ st'[v] = st[v]
                          \/ /\ st'[v].pc = "fail" /\ st'[v].i = st[v].i /\ st'[v].key = st[v].key
                             /\ DOMAIN st'[v] = {"pc", "i", "key"} /\ v \in node[k].onfail
  BY <1>s, <1>t, TaskSet DEF Becomes
<1>h. node'[k].exists /\ \A x \in Keys : node[x].exists => node'[x].exists
  BY DEF NodesKept, NodeKept, NodeBecomes
<1>1. TypeOK'
  <2>1. \A x \in Keys : /\ {node'[x].exists, node'[x].queued, node'[x].ready, node'[x].failed} \subseteq BOOLEAN
                        /\ node'[x].awaiting \cup node'[x].onfail \subseteq Tasks
    <3>1. \A x \in Keys : /\ {node[x].exists, node[x].queued, node[x].ready, node[x].failed} \subseteq BOOLEAN
                          /\ node[x].awaiting \cup node[x].onfail \subseteq Tasks
      BY DEF Inv, TypeOK
    <3>2. \A x \in Keys : node[x].ready \in BOOLEAN /\ node[x].failed \in BOOLEAN /\ node[x].queued \in BOOLEAN
      BY <3>1
    <3>3. \A x \in Keys : /\ node'[x].queued \in BOOLEAN /\ node'[x].ready \in BOOLEAN /\ node'[x].failed \in BOOLEAN
                          /\ node'[x].awaiting \subseteq node[x].awaiting /\ node'[x].onfail \subseteq node[x].onfail
      BY <1>n, <3>2
    <3> QED
      BY <1>n, <3>1, <3>2, <3>3
  <2>2. \A t \in Tasks : /\ DOMAIN st'[t] = {"pc", "i", "key"}
                         /\ st'[t].pc \in PCs /\ st'[t].i \in Nat \ {0} /\ st'[t].key \in Keys \cup {"none"}
    <3>1. \A t \in Tasks : /\ DOMAIN st[t] = {"pc", "i", "key"}
                           /\ st[t].pc \in PCs /\ st[t].i \in Nat \ {0} /\ st[t].key \in Keys \cup {"none"}
      BY DEF Inv, TypeOK
    <3> QED
      BY <1>t, <1>k, <1>m, <3>1 DEF PCs
  <2> QED
    BY <1>s, <1>n, <2>1, <2>2 DEF Inv, TypeOK
<1>2. TaskShape'
  BY <1>s, <1>t, <1>n, <1>b, <1>c, <1>f, <1>m DEF Inv, At, TaskShape, Asking, Waiting, Passed, Registering, Stopped
<1>3. CreatorOnce'
  BY <1>s, <1>t, <1>n, <1>b, <1>c, <1>f, <1>m DEF Inv, At, CreatorOnce, Asking, Waiting, Passed, Registering, Stopped
<1>4. ChainInOrder'
  BY <1>s, <1>t, <1>n, <1>b, <1>c, <1>f, <1>m DEF Inv, At, ChainInOrder, Asking, Waiting, Passed, Registering, Stopped
<1>5. AwaitingLive'
  BY SMTT(30), <1>s, <1>t, <1>n, <1>b, <1>c, <1>f, <1>m DEF Inv, At, AwaitingLive, Asking, Waiting, Passed, Registering, Stopped
<1>6. OnFailLive'
  BY <1>s, <1>t, <1>n, <1>b, <1>c, <1>f, <1>m DEF Inv, At, OnFailLive, Asking, Waiting, Passed, Registering, Stopped
<1>7. FailureQueued'
  BY <1>s, <1>t, <1>n, <1>b, <1>c, <1>f, <1>m DEF Inv, At, FailureQueued, Asking, Waiting, Passed, Registering, Stopped
<1>8. DepsQueued'
  BY <1>s, <1>t, <1>n, <1>b, <1>c, <1>f, <1>m DEF Inv, At, DepsQueued, Asking, Waiting, Passed, Registering, Stopped
<1>9. FailureRegistered'
  <2>1. ASSUME NEW d \in Keys \cup WithFail, NEW p \in DOMAIN deps[d],
               \/ st'[Blk(d, p)].pc \in {"await_test", "await_lock"}
               \/ Blk(d, p + 1) \in node'[deps[d][p]].awaiting
        PROVE  \/ ~At(FailOf(d), "none")' \/ node'[deps[d][p]].ready
               \/ FailOf(d) \in node'[deps[d][p]].onfail
    <3>1. d \in Consumers /\ p \in Pos(d) /\ deps[d][p] \in Keys
      BY <1>t
    <3>2. \/ st[Blk(d, p)].pc \in {"await_test", "await_lock"}
          \/ Blk(d, p + 1) \in node[deps[d][p]].awaiting
      BY <1>n, <1>b, <1>m, <2>1, <3>1
    <3>3. \/ ~At(FailOf(d), "none") \/ node[deps[d][p]].ready \/ FailOf(d) \in node[deps[d][p]].onfail
      BY <3>2 DEF Inv, FailureRegistered
    <3>4. ~At(FailOf(d), "none") => ~At(FailOf(d), "none")'
      BY <1>f, <1>m DEF At
    <3>5. CASE deps[d][p] = k
      BY <1>f, <3>3, <3>4, <3>5 DEF At
    <3>6. CASE deps[d][p] # k
      BY <1>n, <3>1, <3>3, <3>4, <3>6
    <3> QED
      BY <3>5, <3>6
  <2> QED
    BY <1>s, <2>1 DEF FailureRegistered
<1>10. Somewhere'
  <2>1. \A d \in Keys \cup WithFail : ~At(FailOf(d), "none") => ~At(FailOf(d), "none")'
    BY <1>f, <1>m DEF At
  <2>2. \A x \in Keys : node[x].failed => node'[x].failed
    BY <1>n
  <2>3. \A d \in Consumers : Refused(d) => Refused(d)'
    BY <1>s, <1>t, <2>1, <2>2 DEF Refused, Answerable
  <2>4. ASSUME NEW d \in Consumers, Awaits(d)
        PROVE  Awaits(d)' \/ Refused(d)'
    <3>1. PICK p \in DOMAIN deps[d] : Blk(d, p + 1) \in node[deps[d][p]].awaiting
      BY <2>4 DEF Awaits
    <3>2. CASE deps[d][p] = k
      <4>1. d \in Keys \cup WithFail => ~At(FailOf(d), "none") \/ FailOf(d) \in node[k].onfail
        BY <3>1, <3>2 DEF Inv, FailureRegistered
      <4>2. d \in Keys \cup WithFail => ~At(FailOf(d), "none")'
        BY <1>f, <2>1, <4>1 DEF At
      <4>3. node'[deps[d][p]].failed
        BY <1>n, <3>2
      <4> QED
        BY <1>s, <4>2, <4>3 DEF Refused, Answerable
    <3>3. CASE deps[d][p] # k
      BY <1>s, <1>t, <1>n, <3>1, <3>3 DEF Awaits
    <3> QED
      BY <3>2, <3>3
  <2>5. ASSUME NEW d \in Consumers, Active(d)
        PROVE  Active(d)' \/ (d \in Keys /\ node'[d].failed)
    <3>1. CASE d = c
      <4>1. node'[c].failed
        BY <1>k, <1>n, <2>2, TaskFacts DEF Inv, FailureCaused, At
      <4> QED
        BY <3>1, <4>1
    <3>2. CASE d # c
      BY <1>s, <1>b, <2>5, <3>2 DEF Active
    <3> QED
      BY <3>1, <3>2
  <2>6. \A d \in Consumers : At(Consume(d), "none")' => At(Consume(d), "none")
    BY <1>c, <1>m DEF At
  <2>7. \A d \in Consumers : At(Blk(d, 1), "none") => At(Blk(d, 1), "none")'
    BY <1>t, <1>b, <1>m DEF At
  <2> QED
    BY <1>t, <2>2, <2>3, <2>4, <2>5, <2>6, <2>7 DEF Inv, Somewhere
<1>11. FailureCaused'
  <2>1. \A v \in Tasks : v # Blk(c, 1) /\ (At(v, "log")' \/ At(v, "set")') => st'[v] = st[v] /\ (At(v, "log") \/ At(v, "set"))
    BY <1>k DEF At
  <2>2. \A x \in Keys : (node[x].failed => node'[x].failed) /\ (node'[x].ready => node[x].ready)
    BY <1>n
  <2>3. \A x \in Keys : node'[x].failed => Bad(x)
    BY <1>n DEF Inv, FailureCaused
  <2>4. Blk(c, 1).c = c
    BY TaskFacts
  <2>5. node'[c].failed
    BY <1>k, <1>n, <2>2, <2>4 DEF Inv, FailureCaused, At
  <2> QED
    BY <1>s, <1>t, <1>m, <2>1, <2>2, <2>3, <2>4, <2>5 DEF Inv, FailureCaused, At
<1>12. ValueFromConsumer'
  BY <1>s, <1>t, <1>n, <1>b, <1>c, <1>f, <1>m DEF Inv, At, ValueFromConsumer, Asking, Waiting, Passed, Registering, Stopped
<1>13. KnownNodes'
  <2>1. \A x \in Keys : \/ node'[x].exists
                        \/ /\ ~node'[x].queued /\ ~node'[x].ready /\ ~node'[x].failed
                           /\ node'[x].awaiting = {} /\ node'[x].onfail = {}
    <3> SUFFICES ASSUME NEW x \in Keys, ~node'[x].exists
                 PROVE  /\ ~node'[x].queued /\ ~node'[x].ready /\ ~node'[x].failed
                        /\ node'[x].awaiting = {} /\ node'[x].onfail = {}
      OBVIOUS
    <3>1. ~node[x].exists
      BY <1>h
    <3>2. /\ ~node[x].queued /\ ~node[x].ready /\ ~node[x].failed
          /\ node[x].awaiting = {} /\ node[x].onfail = {}
      BY <3>1 DEF Inv, KnownNodes
    <3>4. x # k
      BY <1>h
    <3>3. /\ node'[x].queued = node[x].queued /\ node'[x].ready = node[x].ready /\ node'[x].failed = node[x].failed
          /\ node'[x].awaiting = node[x].awaiting /\ node'[x].onfail = node[x].onfail
      BY <1>n, <3>4
    <3> QED
      BY <3>2, <3>3
  <2>2. ASSUME NEW x \in Consumers, st'[Blk(x, 1)].pc = "mark"
        PROVE  node'[deps[x][st'[Blk(x, 1)].i]].exists
    <3>1. st[Blk(x, 1)].pc = "mark" => st[Blk(x, 1)].i \in DOMAIN deps[x] /\ node[deps[x][st[Blk(x, 1)].i]].exists
      BY <1>t DEF Inv, TaskShape, KnownNodes, At
    <3>2. CASE st'[Blk(x, 1)] = st[Blk(x, 1)]
      BY <1>t, <1>h, <2>2, <3>1, <3>2
    <3>3. CASE st'[Blk(x, 1)] # st[Blk(x, 1)]
      BY <1>s, <1>t, <1>n, <1>b, <1>c, <1>f, <1>m, <1>h, <2>2, <3>1, <3>3
    <3> QED
      BY <3>2, <3>3
  <2>3. ASSUME NEW x \in Keys, NEW y \in Keys
        PROVE  /\ At(Blk(x, 1), "log")' /\ st'[Blk(x, 1)].key = y => node'[y].exists
               /\ At(Consume(x), "log")' /\ st'[Consume(x)].key = y => node'[y].exists
               /\ parent'[x] = y => node'[y].exists
    <3>1. /\ st[Blk(x, 1)].pc = "log" /\ st[Blk(x, 1)].key = y => node'[y].exists
          /\ st[Consume(x)].pc = "log" /\ st[Consume(x)].key = y => node'[y].exists
          /\ parent[x] = y => node'[y].exists
      BY <1>h DEF Inv, KnownNodes, At
    <3> QED
      BY <1>s, <1>t, <1>n, <1>b, <1>c, <1>f, <1>m, <1>h, <3>1 DEF At, Asking, Waiting
  <2> QED
    BY <1>s, <2>1, <2>2, <2>3 DEF KnownNodes, At
<1> QED
  BY <1>1, <1>2, <1>3, <1>4, <1>5, <1>6, <1>7, <1>8, <1>9, <1>10, <1>11, <1>12, <1>13 DEF Inv

(* A fatal error of the consumer of a key fails a node. *)
LEMMA ConsumerFailsNodeNext ==
  ASSUME Inv, Static, NEW c \in Keys, c \in failing, NEW k \in Keys, ~node[k].ready,
         ~node[k].failed, Bad(k),
         At(Consume(c), "log"), st[Consume(c)].key = k, NEW l \in {"log", "set", "done"},
         NEW key \in Keys \cup {"none"},
         l = "log" => key \in Keys /\ Bad(key) /\ node[key].exists,
         Becomes(Consume(c), l, st[Consume(c)].i, key), Consume(c) \notin node[k].onfail,
         \A v \in node[k].onfail : Becomes(v, "fail", st[v].i, st[v].key),
         \A v \in Tasks : v = Consume(c) \/ v \in node[k].onfail \/ st'[v] = st[v],
         NodesKept({k}), NodeBecomes(k, node[k].queued, FALSE, TRUE, {}, {}), parent' = parent
  PROVE  Inv'
<1>s. /\ [deps |-> deps, failing |-> failing] \in Problems
      /\ deps' = deps /\ failing' = failing /\ again' = again /\ Tasks' = Tasks
      /\ \A d : Pos(d)' = Pos(d) /\ Bad(d)' = Bad(d)
      /\ DOMAIN st' = Tasks /\ requests' \subseteq Keys \X Keys
  BY StaticFacts DEF Inv, TypeOK, Static
<1>t. /\ \A x \in Keys : x \in Consumers
      /\ \A d \in Roots : d \in Consumers
      /\ \A d \in Keys \cup WithFail : d \in Consumers
      /\ \A d \in Consumers : 1 \in Pos(d) /\ \A q, r \in Pos(d) : r < q => r \in DOMAIN deps[d]
      /\ \A d \in Consumers : \A q \in DOMAIN deps[d] :
           deps[d][q] \in Keys /\ q \in Pos(d) /\ q + 1 \in Pos(d)
  BY <1>s, PosOrder, DepsFacts, TaskSet
<1>n. /\ DOMAIN node' = Keys
      /\ \A x \in Keys : DOMAIN node'[x] = DOMAIN NoNode /\ node'[x].exists \in BOOLEAN
      /\ \A x \in Keys : x = k \/
           /\ node'[x].queued = node[x].queued /\ node'[x].ready = node[x].ready /\ node'[x].failed = node[x].failed
           /\ node'[x].awaiting = node[x].awaiting /\ node'[x].onfail = node[x].onfail
      /\ node'[k].queued = node[k].queued /\ node'[k].ready = FALSE /\ node'[k].failed = TRUE
      /\ node'[k].awaiting = {} /\ node'[k].onfail = {}
  BY DEF NodesKept, NodeKept, NodeBecomes
<1>w. \A v \in node[k].onfail :
        At(v, "none") /\ \E d \in Keys \cup WithFail : \E p \in DOMAIN deps[d] :
          v = FailOf(d) /\ deps[d][p] = k /\ st[Blk(d, p)].pc \in Registering
  BY OnFailIdle
<1>v. /\ \A d, q : Blk(d, q) \notin node[k].onfail
      /\ \A d : Consume(d) \notin node[k].onfail
  BY <1>w, TaskFacts
<1>b. \A d \in Consumers : \A q \in Pos(d) : st'[Blk(d, q)] = st[Blk(d, q)]
  BY <1>s, <1>v, TaskFacts, TaskSet
<1>c. \A d \in Consumers : d = c \/ st'[Consume(d)] = st[Consume(d)]
  BY <1>s, <1>v, TaskFacts, TaskSet
<1>f. \A d \in Keys \cup WithFail :
        \/ FailOf(d) \notin node[k].onfail /\ st'[FailOf(d)] = st[FailOf(d)]
        \/ /\ FailOf(d) \in node[k].onfail /\ st[FailOf(d)].pc = "none" /\ st'[FailOf(d)].pc = "fail"
           /\ \E p \in DOMAIN deps[d] : deps[d][p] = k /\ st[Blk(d, p)].pc \in Registering
  <2> TAKE d \in Keys \cup WithFail
  <2>1. FailOf(d) \in Tasks /\ FailOf(d) # Consume(c)
    BY <1>s, TaskFacts, TaskSet
  <2>2. ASSUME FailOf(d) \in node[k].onfail
        PROVE  \E p \in DOMAIN deps[d] : deps[d][p] = k /\ st[Blk(d, p)].pc \in Registering
    BY <1>w, <2>2, TaskFacts
  <2> QED
    BY <1>w, <2>1, <2>2 DEF Becomes, At
<1>m. /\ st'[Consume(c)].pc = l /\ st'[Consume(c)].i = st[Consume(c)].i /\ st'[Consume(c)].key = key
      /\ DOMAIN st'[Consume(c)] = {"pc", "i", "key"}
  BY DEF Becomes
<1>k. /\ Consume(c) \in Tasks
      /\ \A v \in Tasks : \/ v = Consume(c) \/ st'[v] = st[v]
                          \/ /\ st'[v].pc = "fail" /\ st'[v].i = st[v].i /\ st'[v].key = st[v].key
                             /\ DOMAIN st'[v] = {"pc", "i", "key"} /\ v \in node[k].onfail
  BY <1>s, <1>t, TaskSet DEF Becomes
<1>h. node'[k].exists /\ \A x \in Keys : node[x].exists => node'[x].exists
  BY DEF NodesKept, NodeKept, NodeBecomes
<1>1. TypeOK'
  <2>1. \A x \in Keys : /\ {node'[x].exists, node'[x].queued, node'[x].ready, node'[x].failed} \subseteq BOOLEAN
                        /\ node'[x].awaiting \cup node'[x].onfail \subseteq Tasks
    <3>1. \A x \in Keys : /\ {node[x].exists, node[x].queued, node[x].ready, node[x].failed} \subseteq BOOLEAN
                          /\ node[x].awaiting \cup node[x].onfail \subseteq Tasks
      BY DEF Inv, TypeOK
    <3>2. \A x \in Keys : node[x].ready \in BOOLEAN /\ node[x].failed \in BOOLEAN /\ node[x].queued \in BOOLEAN
      BY <3>1
    <3>3. \A x \in Keys : /\ node'[x].queued \in BOOLEAN /\ node'[x].ready \in BOOLEAN /\ node'[x].failed \in BOOLEAN
                          /\ node'[x].awaiting \subseteq node[x].awaiting /\ node'[x].onfail \subseteq node[x].onfail
      BY <1>n, <3>2
    <3> QED
      BY <1>n, <3>1, <3>2, <3>3
  <2>2. \A t \in Tasks : /\ DOMAIN st'[t] = {"pc", "i", "key"}
                         /\ st'[t].pc \in PCs /\ st'[t].i \in Nat \ {0} /\ st'[t].key \in Keys \cup {"none"}
    <3>1. \A t \in Tasks : /\ DOMAIN st[t] = {"pc", "i", "key"}
                           /\ st[t].pc \in PCs /\ st[t].i \in Nat \ {0} /\ st[t].key \in Keys \cup {"none"}
      BY DEF Inv, TypeOK
    <3> QED
      BY <1>t, <1>k, <1>m, <3>1 DEF PCs
  <2> QED
    BY <1>s, <1>n, <2>1, <2>2 DEF Inv, TypeOK
<1>2. TaskShape'
  BY <1>s, <1>t, <1>n, <1>b, <1>c, <1>f, <1>m DEF Inv, At, TaskShape, Asking, Waiting, Passed, Registering, Stopped
<1>3. CreatorOnce'
  BY <1>s, <1>t, <1>n, <1>b, <1>c, <1>f, <1>m DEF Inv, At, CreatorOnce, Asking, Waiting, Passed, Registering, Stopped
<1>4. ChainInOrder'
  BY <1>s, <1>t, <1>n, <1>b, <1>c, <1>f, <1>m DEF Inv, At, ChainInOrder, Asking, Waiting, Passed, Registering, Stopped
<1>5. AwaitingLive'
  BY <1>s, <1>t, <1>n, <1>b, <1>c, <1>f, <1>m DEF Inv, At, AwaitingLive, Asking, Waiting, Passed, Registering, Stopped
<1>6. OnFailLive'
  BY <1>s, <1>t, <1>n, <1>b, <1>c, <1>f, <1>m DEF Inv, At, OnFailLive, Asking, Waiting, Passed, Registering, Stopped
<1>7. FailureQueued'
  BY <1>s, <1>t, <1>n, <1>b, <1>c, <1>f, <1>m DEF Inv, At, FailureQueued, Asking, Waiting, Passed, Registering, Stopped
<1>8. DepsQueued'
  BY <1>s, <1>t, <1>n, <1>b, <1>c, <1>f, <1>m DEF Inv, At, DepsQueued, Asking, Waiting, Passed, Registering, Stopped
<1>9. FailureRegistered'
  <2>1. ASSUME NEW d \in Keys \cup WithFail, NEW p \in DOMAIN deps[d],
               \/ st'[Blk(d, p)].pc \in {"await_test", "await_lock"}
               \/ Blk(d, p + 1) \in node'[deps[d][p]].awaiting
        PROVE  \/ ~At(FailOf(d), "none")' \/ node'[deps[d][p]].ready
               \/ FailOf(d) \in node'[deps[d][p]].onfail
    <3>1. d \in Consumers /\ p \in Pos(d) /\ deps[d][p] \in Keys
      BY <1>t
    <3>2. \/ st[Blk(d, p)].pc \in {"await_test", "await_lock"}
          \/ Blk(d, p + 1) \in node[deps[d][p]].awaiting
      BY <1>n, <1>b, <1>m, <2>1, <3>1
    <3>3. \/ ~At(FailOf(d), "none") \/ node[deps[d][p]].ready \/ FailOf(d) \in node[deps[d][p]].onfail
      BY <3>2 DEF Inv, FailureRegistered
    <3>4. ~At(FailOf(d), "none") => ~At(FailOf(d), "none")'
      BY <1>f, <1>m DEF At
    <3>5. CASE deps[d][p] = k
      BY <1>f, <3>3, <3>4, <3>5 DEF At
    <3>6. CASE deps[d][p] # k
      BY <1>n, <3>1, <3>3, <3>4, <3>6
    <3> QED
      BY <3>5, <3>6
  <2> QED
    BY <1>s, <2>1 DEF FailureRegistered
<1>10. Somewhere'
  <2>1. \A d \in Keys \cup WithFail : ~At(FailOf(d), "none") => ~At(FailOf(d), "none")'
    BY <1>f, <1>m DEF At
  <2>2. \A x \in Keys : node[x].failed => node'[x].failed
    BY <1>n
  <2>3. \A d \in Consumers : Refused(d) => Refused(d)'
    BY <1>s, <1>t, <2>1, <2>2 DEF Refused, Answerable
  <2>4. ASSUME NEW d \in Consumers, Awaits(d)
        PROVE  Awaits(d)' \/ Refused(d)'
    <3>1. PICK p \in DOMAIN deps[d] : Blk(d, p + 1) \in node[deps[d][p]].awaiting
      BY <2>4 DEF Awaits
    <3>2. CASE deps[d][p] = k
      <4>1. d \in Keys \cup WithFail => ~At(FailOf(d), "none") \/ FailOf(d) \in node[k].onfail
        BY <3>1, <3>2 DEF Inv, FailureRegistered
      <4>2. d \in Keys \cup WithFail => ~At(FailOf(d), "none")'
        BY <1>f, <2>1, <4>1 DEF At
      <4>3. node'[deps[d][p]].failed
        BY <1>n, <3>2
      <4> QED
        BY <1>s, <4>2, <4>3 DEF Refused, Answerable
    <3>3. CASE deps[d][p] # k
      BY <1>s, <1>t, <1>n, <3>1, <3>3 DEF Awaits
    <3> QED
      BY <3>2, <3>3
  <2>5. ASSUME NEW d \in Consumers, Active(d)
        PROVE  Active(d)' \/ (d \in Keys /\ node'[d].failed)
    BY <1>s, <1>b, <2>5 DEF Active
  <2>6. \A d \in Consumers : At(Consume(d), "none")' => At(Consume(d), "none")
    BY <1>c, <1>m DEF At
  <2>7. \A d \in Consumers : At(Blk(d, 1), "none") => At(Blk(d, 1), "none")'
    BY <1>t, <1>b, <1>m DEF At
  <2> QED
    BY <1>t, <2>2, <2>3, <2>4, <2>5, <2>6, <2>7 DEF Inv, Somewhere
<1>11. FailureCaused'
  <2>1. \A v \in Tasks : v # Consume(c) /\ (At(v, "log")' \/ At(v, "set")') => st'[v] = st[v] /\ (At(v, "log") \/ At(v, "set"))
    BY <1>k DEF At
  <2>2. \A x \in Keys : (node[x].failed => node'[x].failed) /\ (node'[x].ready => node[x].ready)
    BY <1>n
  <2>3. \A x \in Keys : node'[x].failed => Bad(x)
    BY <1>n DEF Inv, FailureCaused
  <2>4. Consume(c).c = c
    BY TaskFacts
  <2>5. node'[c].failed
    BY <1>k, <1>n, <2>2, <2>4 DEF Inv, FailureCaused, At
  <2> QED
    BY <1>s, <1>t, <1>m, <2>1, <2>2, <2>3, <2>4, <2>5 DEF Inv, FailureCaused, At
<1>12. ValueFromConsumer'
  <2>1. node'[c].failed
    BY <1>k, <1>n, TaskFacts DEF Inv, FailureCaused, At
  <2>2. \A x \in Keys : x = c \/ st'[Consume(x)] = st[Consume(x)]
    BY <1>c, <1>t
  <2>3. st[Consume(c)].pc # "none"
    BY DEF At
  <2> QED
    BY <1>n, <1>f, <2>1, <2>2, <2>3 DEF Inv, ValueFromConsumer, At
<1>13. KnownNodes'
  <2>1. \A x \in Keys : \/ node'[x].exists
                        \/ /\ ~node'[x].queued /\ ~node'[x].ready /\ ~node'[x].failed
                           /\ node'[x].awaiting = {} /\ node'[x].onfail = {}
    <3> SUFFICES ASSUME NEW x \in Keys, ~node'[x].exists
                 PROVE  /\ ~node'[x].queued /\ ~node'[x].ready /\ ~node'[x].failed
                        /\ node'[x].awaiting = {} /\ node'[x].onfail = {}
      OBVIOUS
    <3>1. ~node[x].exists
      BY <1>h
    <3>2. /\ ~node[x].queued /\ ~node[x].ready /\ ~node[x].failed
          /\ node[x].awaiting = {} /\ node[x].onfail = {}
      BY <3>1 DEF Inv, KnownNodes
    <3>4. x # k
      BY <1>h
    <3>3. /\ node'[x].queued = node[x].queued /\ node'[x].ready = node[x].ready /\ node'[x].failed = node[x].failed
          /\ node'[x].awaiting = node[x].awaiting /\ node'[x].onfail = node[x].onfail
      BY <1>n, <3>4
    <3> QED
      BY <3>2, <3>3
  <2>2. ASSUME NEW x \in Consumers, st'[Blk(x, 1)].pc = "mark"
        PROVE  node'[deps[x][st'[Blk(x, 1)].i]].exists
    <3>1. st[Blk(x, 1)].pc = "mark" => st[Blk(x, 1)].i \in DOMAIN deps[x] /\ node[deps[x][st[Blk(x, 1)].i]].exists
      BY <1>t DEF Inv, TaskShape, KnownNodes, At
    <3>2. CASE st'[Blk(x, 1)] = st[Blk(x, 1)]
      BY <1>t, <1>h, <2>2, <3>1, <3>2
    <3>3. CASE st'[Blk(x, 1)] # st[Blk(x, 1)]
      BY <1>s, <1>t, <1>n, <1>b, <1>c, <1>f, <1>m, <1>h, <2>2, <3>1, <3>3
    <3> QED
      BY <3>2, <3>3
  <2>3. ASSUME NEW x \in Keys, NEW y \in Keys
        PROVE  /\ At(Blk(x, 1), "log")' /\ st'[Blk(x, 1)].key = y => node'[y].exists
               /\ At(Consume(x), "log")' /\ st'[Consume(x)].key = y => node'[y].exists
               /\ parent'[x] = y => node'[y].exists
    <3>1. /\ st[Blk(x, 1)].pc = "log" /\ st[Blk(x, 1)].key = y => node'[y].exists
          /\ st[Consume(x)].pc = "log" /\ st[Consume(x)].key = y => node'[y].exists
          /\ parent[x] = y => node'[y].exists
      BY <1>h DEF Inv, KnownNodes, At
    <3> QED
      BY <1>s, <1>t, <1>n, <1>b, <1>c, <1>f, <1>m, <1>h, <3>1 DEF At, Asking, Waiting
  <2> QED
    BY <1>s, <2>1, <2>2, <2>3 DEF KnownNodes, At
<1> QED
  BY <1>1, <1>2, <1>3, <1>4, <1>5, <1>6, <1>7, <1>8, <1>9, <1>10, <1>11, <1>12, <1>13 DEF Inv

(* The failure function of the consumer of a key fails the node of that key. *)
LEMMA FailureFailsNodeNext ==
  ASSUME Inv, Static, NEW c \in Keys, NEW k \in Keys, ~node[k].ready, ~node[k].failed, Bad(k),
         k = c, At(FailOf(c), "fail"), NEW i \in Nat \ {0},
         Becomes(FailOf(c), "done", i, st[FailOf(c)].key),
         FailOf(c) \notin node[k].onfail,
         \A v \in node[k].onfail : Becomes(v, "fail", st[v].i, st[v].key),
         \A v \in Tasks : v = FailOf(c) \/ v \in node[k].onfail \/ st'[v] = st[v],
         NodesKept({k}), NodeBecomes(k, node[k].queued, FALSE, TRUE, {}, {}), parent' = parent
  PROVE  Inv'
<1>s. /\ [deps |-> deps, failing |-> failing] \in Problems
      /\ deps' = deps /\ failing' = failing /\ again' = again /\ Tasks' = Tasks
      /\ \A d : Pos(d)' = Pos(d) /\ Bad(d)' = Bad(d)
      /\ DOMAIN st' = Tasks /\ requests' \subseteq Keys \X Keys
  BY StaticFacts DEF Inv, TypeOK, Static
<1>t. /\ \A x \in Keys : x \in Consumers
      /\ \A d \in Roots : d \in Consumers
      /\ \A d \in Keys \cup WithFail : d \in Consumers
      /\ \A d \in Consumers : 1 \in Pos(d) /\ \A q, r \in Pos(d) : r < q => r \in DOMAIN deps[d]
      /\ \A d \in Consumers : \A q \in DOMAIN deps[d] :
           deps[d][q] \in Keys /\ q \in Pos(d) /\ q + 1 \in Pos(d)
  BY <1>s, PosOrder, DepsFacts, TaskSet
<1>n. /\ DOMAIN node' = Keys
      /\ \A x \in Keys : DOMAIN node'[x] = DOMAIN NoNode /\ node'[x].exists \in BOOLEAN
      /\ \A x \in Keys : x = k \/
           /\ node'[x].queued = node[x].queued /\ node'[x].ready = node[x].ready /\ node'[x].failed = node[x].failed
           /\ node'[x].awaiting = node[x].awaiting /\ node'[x].onfail = node[x].onfail
      /\ node'[k].queued = node[k].queued /\ node'[k].ready = FALSE /\ node'[k].failed = TRUE
      /\ node'[k].awaiting = {} /\ node'[k].onfail = {}
  BY DEF NodesKept, NodeKept, NodeBecomes
<1>w. \A v \in node[k].onfail :
        At(v, "none") /\ \E d \in Keys \cup WithFail : \E p \in DOMAIN deps[d] :
          v = FailOf(d) /\ deps[d][p] = k /\ st[Blk(d, p)].pc \in Registering
  BY OnFailIdle
<1>v. /\ \A d, q : Blk(d, q) \notin node[k].onfail
      /\ \A d : Consume(d) \notin node[k].onfail
  BY <1>w, TaskFacts
<1>b. \A d \in Consumers : \A q \in Pos(d) : st'[Blk(d, q)] = st[Blk(d, q)]
  BY <1>s, <1>v, TaskFacts, TaskSet
<1>c. \A d \in Consumers : st'[Consume(d)] = st[Consume(d)]
  BY <1>s, <1>v, TaskFacts, TaskSet
<1>f. \A d \in Keys \cup WithFail :
        \/ FailOf(d) \notin node[k].onfail /\ (d = c \/ st'[FailOf(d)] = st[FailOf(d)])
        \/ /\ FailOf(d) \in node[k].onfail /\ st[FailOf(d)].pc = "none" /\ st'[FailOf(d)].pc = "fail"
           /\ \E p \in DOMAIN deps[d] : deps[d][p] = k /\ st[Blk(d, p)].pc \in Registering
  <2> TAKE d \in Keys \cup WithFail
  <2>1. FailOf(d) \in Tasks /\ (d # c => FailOf(d) # FailOf(c))
    BY <1>s, TaskFacts, TaskSet
  <2>2. ASSUME FailOf(d) \in node[k].onfail
        PROVE  \E p \in DOMAIN deps[d] : deps[d][p] = k /\ st[Blk(d, p)].pc \in Registering
    BY <1>w, <2>2, TaskFacts
  <2> QED
    BY <1>w, <2>1, <2>2 DEF Becomes, At
<1>m. /\ st'[FailOf(c)].pc = "done" /\ st'[FailOf(c)].i = i
      /\ st'[FailOf(c)].key = st[FailOf(c)].key
      /\ DOMAIN st'[FailOf(c)] = {"pc", "i", "key"}
  BY DEF Becomes
<1>k. /\ FailOf(c) \in Tasks
      /\ \A v \in Tasks : \/ v = FailOf(c) \/ st'[v] = st[v]
                          \/ /\ st'[v].pc = "fail" /\ st'[v].i = st[v].i /\ st'[v].key = st[v].key
                             /\ DOMAIN st'[v] = {"pc", "i", "key"} /\ v \in node[k].onfail
  BY <1>s, <1>t, TaskSet DEF Becomes
<1>h. node'[k].exists /\ \A x \in Keys : node[x].exists => node'[x].exists
  BY DEF NodesKept, NodeKept, NodeBecomes
<1>1. TypeOK'
  <2>1. \A x \in Keys : /\ {node'[x].exists, node'[x].queued, node'[x].ready, node'[x].failed} \subseteq BOOLEAN
                        /\ node'[x].awaiting \cup node'[x].onfail \subseteq Tasks
    <3>1. \A x \in Keys : /\ {node[x].exists, node[x].queued, node[x].ready, node[x].failed} \subseteq BOOLEAN
                          /\ node[x].awaiting \cup node[x].onfail \subseteq Tasks
      BY DEF Inv, TypeOK
    <3>2. \A x \in Keys : node[x].ready \in BOOLEAN /\ node[x].failed \in BOOLEAN /\ node[x].queued \in BOOLEAN
      BY <3>1
    <3>3. \A x \in Keys : /\ node'[x].queued \in BOOLEAN /\ node'[x].ready \in BOOLEAN /\ node'[x].failed \in BOOLEAN
                          /\ node'[x].awaiting \subseteq node[x].awaiting /\ node'[x].onfail \subseteq node[x].onfail
      BY <1>n, <3>2
    <3> QED
      BY <1>n, <3>1, <3>2, <3>3
  <2>2. \A t \in Tasks : /\ DOMAIN st'[t] = {"pc", "i", "key"}
                         /\ st'[t].pc \in PCs /\ st'[t].i \in Nat \ {0} /\ st'[t].key \in Keys \cup {"none"}
    <3>1. \A t \in Tasks : /\ DOMAIN st[t] = {"pc", "i", "key"}
                           /\ st[t].pc \in PCs /\ st[t].i \in Nat \ {0} /\ st[t].key \in Keys \cup {"none"}
      BY DEF Inv, TypeOK
    <3> QED
      BY <1>t, <1>k, <1>m, <3>1 DEF PCs
  <2> QED
    BY <1>s, <1>n, <2>1, <2>2 DEF Inv, TypeOK
<1>2. TaskShape'
  BY <1>s, <1>t, <1>n, <1>b, <1>c, <1>f, <1>m DEF Inv, At, TaskShape, Asking, Waiting, Passed, Registering, Stopped
<1>3. CreatorOnce'
  BY <1>s, <1>t, <1>n, <1>b, <1>c, <1>f, <1>m DEF Inv, At, CreatorOnce, Asking, Waiting, Passed, Registering, Stopped
<1>4. ChainInOrder'
  BY <1>s, <1>t, <1>n, <1>b, <1>c, <1>f, <1>m DEF Inv, At, ChainInOrder, Asking, Waiting, Passed, Registering, Stopped
<1>5. AwaitingLive'
  BY <1>s, <1>t, <1>n, <1>b, <1>c, <1>f, <1>m DEF Inv, At, AwaitingLive, Asking, Waiting, Passed, Registering, Stopped
<1>6. OnFailLive'
  BY <1>s, <1>t, <1>n, <1>b, <1>c, <1>f, <1>m DEF Inv, At, OnFailLive, Asking, Waiting, Passed, Registering, Stopped
<1>7. FailureQueued'
  BY <1>s, <1>t, <1>n, <1>b, <1>c, <1>f, <1>m DEF Inv, At, FailureQueued, Asking, Waiting, Passed, Registering, Stopped
<1>8. DepsQueued'
  BY <1>s, <1>t, <1>n, <1>b, <1>c, <1>f, <1>m DEF Inv, At, DepsQueued, Asking, Waiting, Passed, Registering, Stopped
<1>9. FailureRegistered'
  <2>1. ASSUME NEW d \in Keys \cup WithFail, NEW p \in DOMAIN deps[d],
               \/ st'[Blk(d, p)].pc \in {"await_test", "await_lock"}
               \/ Blk(d, p + 1) \in node'[deps[d][p]].awaiting
        PROVE  \/ ~At(FailOf(d), "none")' \/ node'[deps[d][p]].ready
               \/ FailOf(d) \in node'[deps[d][p]].onfail
    <3>1. d \in Consumers /\ p \in Pos(d) /\ deps[d][p] \in Keys
      BY <1>t
    <3>2. \/ st[Blk(d, p)].pc \in {"await_test", "await_lock"}
          \/ Blk(d, p + 1) \in node[deps[d][p]].awaiting
      BY <1>n, <1>b, <1>m, <2>1, <3>1
    <3>3. \/ ~At(FailOf(d), "none") \/ node[deps[d][p]].ready \/ FailOf(d) \in node[deps[d][p]].onfail
      BY <3>2 DEF Inv, FailureRegistered
    <3>4. ~At(FailOf(d), "none") => ~At(FailOf(d), "none")'
      BY <1>f, <1>m DEF At
    <3>5. CASE deps[d][p] = k
      BY <1>f, <3>3, <3>4, <3>5 DEF At
    <3>6. CASE deps[d][p] # k
      BY <1>n, <3>1, <3>3, <3>4, <3>6
    <3> QED
      BY <3>5, <3>6
  <2> QED
    BY <1>s, <2>1 DEF FailureRegistered
<1>10. Somewhere'
  <2>1. \A d \in Keys \cup WithFail : ~At(FailOf(d), "none") => ~At(FailOf(d), "none")'
    BY <1>f, <1>m DEF At
  <2>2. \A x \in Keys : node[x].failed => node'[x].failed
    BY <1>n
  <2>3. \A d \in Consumers : Refused(d) => Refused(d)'
    BY <1>s, <1>t, <2>1, <2>2 DEF Refused, Answerable
  <2>4. ASSUME NEW d \in Consumers, Awaits(d)
        PROVE  Awaits(d)' \/ Refused(d)'
    <3>1. PICK p \in DOMAIN deps[d] : Blk(d, p + 1) \in node[deps[d][p]].awaiting
      BY <2>4 DEF Awaits
    <3>2. CASE deps[d][p] = k
      <4>1. d \in Keys \cup WithFail => ~At(FailOf(d), "none") \/ FailOf(d) \in node[k].onfail
        BY <3>1, <3>2 DEF Inv, FailureRegistered
      <4>2. d \in Keys \cup WithFail => ~At(FailOf(d), "none")'
        BY <1>f, <2>1, <4>1 DEF At
      <4>3. node'[deps[d][p]].failed
        BY <1>n, <3>2
      <4> QED
        BY <1>s, <4>2, <4>3 DEF Refused, Answerable
    <3>3. CASE deps[d][p] # k
      BY <1>s, <1>t, <1>n, <3>1, <3>3 DEF Awaits
    <3> QED
      BY <3>2, <3>3
  <2>5. ASSUME NEW d \in Consumers, Active(d)
        PROVE  Active(d)' \/ (d \in Keys /\ node'[d].failed)
    BY <1>s, <1>b, <2>5 DEF Active
  <2>6. \A d \in Consumers : At(Consume(d), "none")' => At(Consume(d), "none")
    BY <1>c, <1>m DEF At
  <2>7. \A d \in Consumers : At(Blk(d, 1), "none") => At(Blk(d, 1), "none")'
    BY <1>t, <1>b, <1>m DEF At
  <2> QED
    BY <1>t, <2>2, <2>3, <2>4, <2>5, <2>6, <2>7 DEF Inv, Somewhere
<1>11. FailureCaused'
  <2>1. \A v \in Tasks : At(v, "log")' \/ At(v, "set")' => st'[v] = st[v] /\ (At(v, "log") \/ At(v, "set"))
    BY <1>k, <1>m DEF At
  <2>2. \A x \in Keys : (node[x].failed => node'[x].failed) /\ (node'[x].ready => node[x].ready)
    BY <1>n
  <2>3. \A x \in Keys : node'[x].failed => Bad(x)
    BY <1>n DEF Inv, FailureCaused
  <2> QED
    BY <1>s, <1>t, <2>1, <2>2, <2>3 DEF Inv, FailureCaused, At
<1>12. ValueFromConsumer'
  BY <1>s, <1>t, <1>n, <1>b, <1>c, <1>f, <1>m DEF Inv, At, ValueFromConsumer, Asking, Waiting, Passed, Registering, Stopped
<1>13. KnownNodes'
  <2>1. \A x \in Keys : \/ node'[x].exists
                        \/ /\ ~node'[x].queued /\ ~node'[x].ready /\ ~node'[x].failed
                           /\ node'[x].awaiting = {} /\ node'[x].onfail = {}
    <3> SUFFICES ASSUME NEW x \in Keys, ~node'[x].exists
                 PROVE  /\ ~node'[x].queued /\ ~node'[x].ready /\ ~node'[x].failed
                        /\ node'[x].awaiting = {} /\ node'[x].onfail = {}
      OBVIOUS
    <3>1. ~node[x].exists
      BY <1>h
    <3>2. /\ ~node[x].queued /\ ~node[x].ready /\ ~node[x].failed
          /\ node[x].awaiting = {} /\ node[x].onfail = {}
      BY <3>1 DEF Inv, KnownNodes
    <3>4. x # k
      BY <1>h
    <3>3. /\ node'[x].queued = node[x].queued /\ node'[x].ready = node[x].ready /\ node'[x].failed = node[x].failed
          /\ node'[x].awaiting = node[x].awaiting /\ node'[x].onfail = node[x].onfail
      BY <1>n, <3>4
    <3> QED
      BY <3>2, <3>3
  <2>2. ASSUME NEW x \in Consumers, st'[Blk(x, 1)].pc = "mark"
        PROVE  node'[deps[x][st'[Blk(x, 1)].i]].exists
    <3>1. st[Blk(x, 1)].pc = "mark" => st[Blk(x, 1)].i \in DOMAIN deps[x] /\ node[deps[x][st[Blk(x, 1)].i]].exists
      BY <1>t DEF Inv, TaskShape, KnownNodes, At
    <3>2. CASE st'[Blk(x, 1)] = st[Blk(x, 1)]
      BY <1>t, <1>h, <2>2, <3>1, <3>2
    <3>3. CASE st'[Blk(x, 1)] # st[Blk(x, 1)]
      BY <1>s, <1>t, <1>n, <1>b, <1>c, <1>f, <1>m, <1>h, <2>2, <3>1, <3>3
    <3> QED
      BY <3>2, <3>3
  <2>3. ASSUME NEW x \in Keys, NEW y \in Keys
        PROVE  /\ At(Blk(x, 1), "log")' /\ st'[Blk(x, 1)].key = y => node'[y].exists
               /\ At(Consume(x), "log")' /\ st'[Consume(x)].key = y => node'[y].exists
               /\ parent'[x] = y => node'[y].exists
    <3>1. /\ st[Blk(x, 1)].pc = "log" /\ st[Blk(x, 1)].key = y => node'[y].exists
          /\ st[Consume(x)].pc = "log" /\ st[Consume(x)].key = y => node'[y].exists
          /\ parent[x] = y => node'[y].exists
      BY <1>h DEF Inv, KnownNodes, At
    <3> QED
      BY <1>s, <1>t, <1>n, <1>b, <1>c, <1>f, <1>m, <1>h, <3>1 DEF At, Asking, Waiting
  <2> QED
    BY <1>s, <2>1, <2>2, <2>3 DEF KnownNodes, At
<1> QED
  BY <1>1, <1>2, <1>3, <1>4, <1>5, <1>6, <1>7, <1>8, <1>9, <1>10, <1>11, <1>12, <1>13 DEF Inv

-----------------------------------------------------------------------------
(* The effect of a step on the tasks. *)
LEMMA QueuesEffect ==
  ASSUME TypeOK, NEW t \in Tasks, NEW l, NEW i, NEW Q \in SUBSET Tasks, t \notin Q,
         \A u \in Q : At(u, "none"), StepQueueing(t, l, i, Q)
  PROVE  /\ again' = again /\ DOMAIN st' = Tasks /\ Becomes(t, l, i, st[t].key)
         /\ \A u \in Q : Becomes(u, First(u), st[u].i, st[u].key)
         /\ \A u \in Tasks : u = t \/ u \in Q \/ st'[u] = st[u]
<1>1. again' = again /\ DOMAIN st' = Tasks
  BY DEF StepQueueing
<1>2. \A u \in Tasks : DOMAIN st[u] = {"pc", "i", "key"}
  BY DEF TypeOK
<1>3. st'[t] = [st[t] EXCEPT !.pc = l, !.i = i]
  BY DEF StepQueueing
<1>4. \A u \in Q : st'[u] = [st[u] EXCEPT !.pc = First(u)]
  BY DEF StepQueueing
<1>5. \A u \in Tasks : u = t \/ u \in Q \/ st'[u] = st[u]
  BY DEF StepQueueing
<1>6. Becomes(t, l, i, st[t].key)
  BY <1>2, <1>3 DEF Becomes
<1>7. \A u \in Q : Becomes(u, First(u), st[u].i, st[u].key)
  BY <1>2, <1>4 DEF Becomes
<1> QED
  BY <1>1, <1>5, <1>6, <1>7

(* A step that queues nothing. *)
LEMMA StepEffect ==
  ASSUME TypeOK, NEW t \in Tasks, NEW l, NEW i, StepQueueing(t, l, i, {})
  PROVE  /\ again' = again /\ DOMAIN st' = Tasks /\ Becomes(t, l, i, st[t].key)
         /\ \A u \in Tasks : u = t \/ st'[u] = st[u]
BY QueuesEffect, {} \in SUBSET Tasks

(* A step that queues one task. *)
LEMMA QueueEffect ==
  ASSUME TypeOK, NEW t \in Tasks, NEW l, NEW i, NEW u \in Tasks, u # t, At(u, "none"),
         StepQueueing(t, l, i, {u})
  PROVE  /\ again' = again /\ DOMAIN st' = Tasks /\ Becomes(t, l, i, st[t].key)
         /\ Starts(u, First(u))
         /\ \A v \in Tasks : v = t \/ v = u \/ st'[v] = st[v]
<1>1. {u} \in SUBSET Tasks /\ t \notin {u} /\ \A v \in {u} : At(v, "none")
  OBVIOUS
<1> QED
  BY <1>1, QueuesEffect DEF Starts

(* The tasks that are not named. *)
LEMMA Others ==
  ASSUME [deps |-> deps, failing |-> failing] \in Problems, NEW B, NEW C, NEW F,
         \A u \in B : \E d, q : u = Blk(d, q),
         \A u \in Tasks : \/ u \in B \/ (\E d \in C : u = Consume(d)) \/ (\E d \in F : u = FailOf(d))
                          \/ st'[u] = st[u]
  PROVE  BlksKept(B) /\ ConsumesKept(C) /\ FailuresKept(F)
<1>1. BlksKept(B)
  BY TaskFacts, TaskSet DEF BlksKept
<1>2. ConsumesKept(C)
  BY TaskFacts, TaskSet DEF ConsumesKept
<1>3. FailuresKept(F)
  BY TaskFacts, TaskSet DEF FailuresKept
<1> QED
  BY <1>1, <1>2, <1>3

(* One task of a consumer alone. *)
LEMMA OnlyBlk ==
  ASSUME [deps |-> deps, failing |-> failing] \in Problems, NEW c, NEW p,
         \A u \in Tasks : u = Blk(c, p) \/ st'[u] = st[u]
  PROVE  BlksKept({Blk(c, p)}) /\ ConsumesKept({}) /\ FailuresKept({})
<1>1. \A u \in {Blk(c, p)} : \E d, q : u = Blk(d, q)
  OBVIOUS
<1> QED
  BY <1>1, Others

(* A task of a consumer, and the consumer itself or its failure function. *)
LEMMA BlkAndConsume ==
  ASSUME [deps |-> deps, failing |-> failing] \in Problems, NEW c, NEW p,
         \A u \in Tasks : u = Blk(c, p) \/ u = Consume(c) \/ st'[u] = st[u]
  PROVE  BlksKept({Blk(c, p)}) /\ ConsumesKept({c}) /\ FailuresKept({})
<1>1. BlksKept({Blk(c, p)})
  BY TaskFacts, TaskSet DEF BlksKept
<1>2. ConsumesKept({c})
  BY TaskFacts, TaskSet DEF ConsumesKept
<1>3. FailuresKept({})
  BY TaskFacts, TaskSet DEF FailuresKept
<1> QED
  BY <1>1, <1>2, <1>3

(* A task of a consumer and its failure function. *)
LEMMA BlkAndFail ==
  ASSUME [deps |-> deps, failing |-> failing] \in Problems, NEW c, NEW p,
         \A u \in Tasks : u = Blk(c, p) \/ u = FailOf(c) \/ st'[u] = st[u]
  PROVE  BlksKept({Blk(c, p)}) /\ ConsumesKept({}) /\ FailuresKept({c})
<1>1. BlksKept({Blk(c, p)})
  BY TaskFacts, TaskSet DEF BlksKept
<1>2. ConsumesKept({})
  BY TaskFacts, TaskSet DEF ConsumesKept
<1>3. FailuresKept({c})
  BY TaskFacts, TaskSet DEF FailuresKept
<1> QED
  BY <1>1, <1>2, <1>3

(* A consumer alone. *)
LEMMA OnlyConsume ==
  ASSUME [deps |-> deps, failing |-> failing] \in Problems, NEW c,
         \A u \in Tasks : u = Consume(c) \/ st'[u] = st[u]
  PROVE  BlksKept({}) /\ ConsumesKept({c}) /\ FailuresKept({})
<1>1. BlksKept({})
  BY TaskFacts, TaskSet DEF BlksKept
<1>2. ConsumesKept({c})
  BY TaskFacts, TaskSet DEF ConsumesKept
<1>3. FailuresKept({})
  BY TaskFacts, TaskSet DEF FailuresKept
<1> QED
  BY <1>1, <1>2, <1>3

(* A failure function alone. *)
LEMMA OnlyFail ==
  ASSUME [deps |-> deps, failing |-> failing] \in Problems, NEW c,
         \A u \in Tasks : u = FailOf(c) \/ st'[u] = st[u]
  PROVE  BlksKept({}) /\ ConsumesKept({}) /\ FailuresKept({c})
<1>1. BlksKept({})
  BY TaskFacts, TaskSet DEF BlksKept
<1>2. ConsumesKept({})
  BY TaskFacts, TaskSet DEF ConsumesKept
<1>3. FailuresKept({c})
  BY TaskFacts, TaskSet DEF FailuresKept
<1> QED
  BY <1>1, <1>2, <1>3

(* The effect of a step on the nodes. *)
LEMMA SameNodes ==
  ASSUME TypeOK, UNCHANGED node
  PROVE  NodesKept({})
BY DEF TypeOK, NodesKept, NodeKept

(* The fields of a node. *)
LEMMA NoNodeFields ==
  DOMAIN NoNode = {"exists", "queued", "ready", "failed", "awaiting", "onfail"}
BY DEF NoNode

(* What is known of every task that is about to run. *)
LEMMA Known ==
  ASSUME Inv
  PROVE  /\ TypeOK /\ [deps |-> deps, failing |-> failing] \in Problems /\ failing \subseteq Keys
         /\ \A k \in Keys : k \in Consumers /\ DOMAIN node[k] = DOMAIN NoNode
         /\ \A c \in Consumers : /\ 1 \in Pos(c) /\ Consume(c) \in Tasks
                                 /\ \A p \in Pos(c) : Blk(c, p) \in Tasks
                                 /\ \A p \in DOMAIN deps[c] : p \in Pos(c) /\ deps[c][p] \in Keys
         /\ \A t \in Tasks : st[t].i \in Nat \ {0} /\ st[t].key \in Keys \cup {"none"}
<1>1. TypeOK /\ [deps |-> deps, failing |-> failing] \in Problems
  BY DEF Inv, TypeOK
<1>2. /\ \A k \in Keys : DOMAIN node[k] = DOMAIN NoNode
      /\ \A t \in Tasks : st[t].i \in Nat \ {0} /\ st[t].key \in Keys \cup {"none"}
  BY <1>1 DEF TypeOK
<1> QED
  BY <1>1, <1>2, DepsFacts, TaskSet

(* A consumer whose task is on its way is not yet queued, nor is its next task. *)
LEMMA NotYet ==
  ASSUME Inv, NEW c \in Consumers, NEW p \in Pos(c), st[Blk(c, p)].pc \notin Passed
  PROVE  /\ At(Consume(c), "none")
         /\ \A q \in Pos(c) : p < q => At(Blk(c, q), "none")
BY DEF Inv, ChainInOrder

-----------------------------------------------------------------------------
(* Every step of a task preserves the invariant. *)
LEMMA CreateInv ==
  ASSUME Inv, NEW t \in Tasks, Create(t)
  PROVE  Inv'
<1>1. PICK k \in Keys : t = Blk(k, 1) /\ t.c = k
  BY Kinds DEF Create
<1>2. k \in Consumers /\ 1 \in Pos(k) /\ TypeOK /\ [deps |-> deps, failing |-> failing] \in Problems
  BY Known
<1>3. /\ UNCHANGED <<deps, failing, node, parent, requests>> /\ NodesKept({})
      /\ requests' \subseteq Keys \X Keys
      /\ st[Blk(k, 1)].pc = "create"
  BY <1>1, <1>2, SameNodes DEF Create, At, Inv, TypeOK
<1>4. CASE Step(t, "ensure")
  <2>1. /\ again' = again /\ DOMAIN st' = Tasks /\ Becomes(t, "ensure", st[t].i, st[t].key)
        /\ \A u \in Tasks : u = t \/ st'[u] = st[u]
    BY <1>2, <1>4, StepEffect DEF Step
  <2>2. BlksKept({Blk(k, 1)}) /\ ConsumesKept({}) /\ FailuresKept({}) /\ Static
    BY <1>1, <1>2, <1>3, <2>1, OnlyBlk DEF Static
  <2>3. st[Blk(k, 1)].i = 1
    BY <1>2, <1>3 DEF Inv, TaskShape, At
  <2>4. \A q \in DOMAIN deps[k] : ~(q < 1)
    BY <1>2, DepsFacts
  <2>5. Becomes(Blk(k, 1), "ensure", 1, st[Blk(k, 1)].key)
    BY <1>1, <2>1, <2>3
  <2> QED
    BY <1>2, <1>3, <2>2, <2>4, <2>5, MoveNext DEF Asking, Waiting, Passed, Registering, Stopped
<1>5. CASE t.c \in failing /\ st' = [st EXCEPT ![t].pc = "log", ![t].key = t.c] /\ UNCHANGED again
  <2>1. /\ DOMAIN st' = Tasks /\ Becomes(t, "log", st[t].i, k)
        /\ \A u \in Tasks : u = t \/ st'[u] = st[u]
    BY <1>1, <1>2, <1>5 DEF TypeOK, Becomes
  <2>2. BlksKept({Blk(k, 1)}) /\ ConsumesKept({}) /\ FailuresKept({}) /\ Static
    BY <1>1, <1>2, <1>3, <1>5, <2>1, OnlyBlk DEF Static
  <2>3. st[t].i \in Nat \ {0} /\ Bad(k) /\ k \in failing /\ node[k].exists
    BY <1>1, <1>3, <1>5, Known DEF Bad, Inv, CreatorOnce, KnownNodes, At
  <2> QED
    BY <1>1, <1>3, <2>1, <2>2, <2>3, CreatorFailsNext
<1> QED
  BY <1>4, <1>5 DEF Create

(* The loop over the keys asked for, and the consumer without keys. *)
LEMMA EnsureInv ==
  ASSUME Inv, NEW t \in Tasks, Ensure(t)
  PROVE  Inv'
<1>1. PICK c \in Consumers : t = Blk(c, 1) /\ t.c = c
  BY Kinds DEF Ensure, At, Asking
<1>2. 1 \in Pos(c) /\ TypeOK /\ [deps |-> deps, failing |-> failing] \in Problems
  BY Known
<1>3. /\ UNCHANGED <<deps, failing, node, parent, requests>> /\ NodesKept({})
      /\ requests' \subseteq Keys \X Keys
      /\ st[Blk(c, 1)].pc = "ensure"
  BY <1>1, <1>2, SameNodes DEF Ensure, At, Inv, TypeOK
<1> DEFINE i == st[Blk(c, 1)].i
<1>4. /\ i \in Nat \ {0} /\ Len(deps[c]) \in Nat /\ DOMAIN deps[c] = 1 .. Len(deps[c])
      /\ deps[c] = <<>> <=> Len(deps[c]) = 0
  BY <1>1, <1>2, Known, DepsFacts
<1>5. \A q \in DOMAIN deps[c] : q < i => node[deps[c][q]].queued
  BY <1>3 DEF Inv, DepsQueued, Asking
<1>6. ASSUME NEW l \in {"onfail_test", "mark", "add"}, Step(t, l),
             l = "onfail_test" => 1 \in DOMAIN deps[c] /\ \A q \in DOMAIN deps[c] : q < i,
             l # "onfail_test" => i \in DOMAIN deps[c], l = "mark" => node[deps[c][i]].exists
      PROVE  Inv'
  <2>1. /\ again' = again /\ DOMAIN st' = Tasks /\ Becomes(t, l, i, st[t].key)
        /\ \A u \in Tasks : u = t \/ st'[u] = st[u]
    BY <1>1, <1>2, <1>6, StepEffect DEF Step
  <2>2. BlksKept({Blk(c, 1)}) /\ ConsumesKept({}) /\ FailuresKept({}) /\ Static
    BY <1>1, <1>2, <1>3, <2>1, OnlyBlk DEF Static
  <2>3. Becomes(Blk(c, 1), l, i, st[Blk(c, 1)].key) /\ node' = node
    BY <1>1, <1>3, <2>1
  <2> HIDE DEF i
  <2> QED
    BY <1>2, <1>3, <1>4, <1>5, <1>6, <2>2, <2>3, MoveNext DEF Asking, Waiting, Passed, Registering, Stopped
<1>7. CASE i > Len(deps[c]) /\ deps[c] = <<>>
  <2>1. StepQueueing(t, "done", 1, {Consume(c)})
    BY <1>1, <1>7 DEF Ensure, Consume
  <2>2. At(Consume(c), "none")
    BY <1>2, <1>3, NotYet DEF Passed
  <2>3. Consume(c) \in Tasks /\ Consume(c) # t /\ First(Consume(c)) = "consume"
    BY <1>1, Known, TaskFacts
  <2>4. /\ again' = again /\ DOMAIN st' = Tasks /\ Becomes(t, "done", 1, st[t].key)
        /\ Starts(Consume(c), "consume")
        /\ \A u \in Tasks : u = t \/ u = Consume(c) \/ st'[u] = st[u]
    BY <1>2, <2>1, <2>2, <2>3, QueueEffect
  <2>5. BlksKept({Blk(c, 1)}) /\ ConsumesKept({c}) /\ FailuresKept({}) /\ Static
    <3>2. BlksKept({Blk(c, 1)}) /\ ConsumesKept({c}) /\ FailuresKept({})
      BY <1>1, <1>2, <2>4, BlkAndConsume
    <3> QED
      BY <1>3, <2>4, <3>2 DEF Static
  <2>6. 1 \notin DOMAIN deps[c] /\ \A q \in Pos(c) : q = 1 \/ q < 1
    BY <1>4, <1>7 DEF Pos
  <2> QED
    BY <1>1, <1>2, <1>3, <2>4, <2>5, <2>6, ConsumeQueuedNext
<1>8. CASE i > Len(deps[c]) /\ deps[c] # <<>>
  <2>1. Step(t, "onfail_test")
    BY <1>1, <1>8 DEF Ensure
  <2>2. 1 \in DOMAIN deps[c] /\ \A q \in DOMAIN deps[c] : q < i
    BY <1>4, <1>8
  <2> QED
    BY <1>6, <2>1, <2>2
<1>9. CASE ~(i > Len(deps[c]))
  <2>1. i \in DOMAIN deps[c]
    BY <1>4, <1>9
  <2>2. (Step(t, "mark") /\ node[deps[c][i]].exists) \/ Step(t, "add")
    BY <1>1, <1>9 DEF Ensure
  <2> QED
    BY <1>6, <2>1, <2>2
<1> QED
  BY <1>7, <1>8, <1>9

(* AsyncMap::AddKey puts an empty node into the map. *)
LEMMA AddKeyInv ==
  ASSUME Inv, NEW t \in Tasks, AddKey(t)
  PROVE  Inv'
<1>1. PICK c \in Consumers : t = Blk(c, 1) /\ t.c = c
  BY Kinds DEF AddKey, At, Asking
<1>2. 1 \in Pos(c) /\ TypeOK /\ [deps |-> deps, failing |-> failing] \in Problems
  BY Known
<1>3. /\ UNCHANGED <<deps, failing, parent, requests>> /\ requests' \subseteq Keys \X Keys
      /\ st[Blk(c, 1)].pc = "add" /\ Step(t, "mark")
      /\ node' = [node EXCEPT ![deps[c][st[t].i]] = IF @.exists THEN @ ELSE NewNode]
  BY <1>1 DEF AddKey, At, Inv, TypeOK
<1> DEFINE i == st[Blk(c, 1)].i
           k == deps[c][i]
<1>4. i \in Nat \ {0} /\ i \in DOMAIN deps[c] /\ k \in Keys
  BY <1>1, <1>2, <1>3, Known DEF Inv, TaskShape
<1>5. \A q \in DOMAIN deps[c] : q < i => node[deps[c][q]].queued
  BY <1>3 DEF Inv, DepsQueued, Asking
<1>6. /\ again' = again /\ DOMAIN st' = Tasks /\ Becomes(t, "mark", i, st[t].key)
      /\ \A u \in Tasks : u = t \/ st'[u] = st[u]
  BY <1>1, <1>2, <1>3, StepEffect DEF Step
<1>7. BlksKept({Blk(c, 1)}) /\ ConsumesKept({}) /\ FailuresKept({}) /\ Static
  BY <1>1, <1>2, <1>3, <1>6, OnlyBlk DEF Static
<1>8. Becomes(Blk(c, 1), "mark", i, st[Blk(c, 1)].key)
  BY <1>1, <1>6
<1>9. DOMAIN node' = Keys /\ node'[k] = (IF node[k].exists THEN node[k] ELSE NewNode) /\ \A x \in Keys : x # k => node'[x] = node[x]
  BY <1>1, <1>2, <1>3, <1>4 DEF TypeOK
<1>10. \A x \in Keys : DOMAIN node[x] = DOMAIN NoNode /\ node[x].exists \in BOOLEAN
  BY <1>2 DEF TypeOK
<1>11. DOMAIN NewNode = DOMAIN NoNode /\ NewNode.exists = TRUE /\ NewNode.queued = FALSE /\ NewNode.ready = FALSE
       /\ NewNode.failed = FALSE /\ NewNode.awaiting = {} /\ NewNode.onfail = {}
  BY DEF NewNode, NoNode
<1>12. NodeKept(k) /\ node'[k].exists
  <2>1. CASE node[k].exists
    BY <1>4, <1>9, <1>10, <2>1 DEF NodeKept
  <2>2. CASE ~node[k].exists
    <3>1. node[k].queued \in BOOLEAN /\ node[k].ready \in BOOLEAN /\ node[k].failed \in BOOLEAN
      BY <1>2, <1>4 DEF TypeOK
    <3>2. node[k].queued = FALSE /\ node[k].ready = FALSE /\ node[k].failed = FALSE /\ node[k].awaiting = {} /\ node[k].onfail = {}
      BY <1>4, <2>2, <3>1 DEF Inv, KnownNodes
    <3> QED
      BY <1>9, <1>11, <2>2, <3>2 DEF NodeKept
  <2> QED
    BY <2>1, <2>2
<1>13. NodesKept({})
  BY <1>9, <1>10, <1>12 DEF NodesKept, NodeKept
<1> HIDE DEF k, i
<1>14. node'[deps[c][i]].exists
  BY <1>12 DEF k
<1> QED
  BY <1>2, <1>3, <1>4, <1>5, <1>7, <1>8, <1>13, <1>14, MoveNext DEF Asking, Waiting, Passed, Registering, Stopped

(* The first requester of a key queues its creator. *)
LEMMA QueueOnceInv ==
  ASSUME Inv, NEW t \in Tasks, QueueOnceProcessingTask(t)
  PROVE  Inv'
<1>1. PICK c \in Consumers : t = Blk(c, 1) /\ t.c = c
  BY Kinds DEF QueueOnceProcessingTask, At, Asking
<1>2. 1 \in Pos(c) /\ TypeOK /\ [deps |-> deps, failing |-> failing] \in Problems
  BY Known
<1> DEFINE i == st[Blk(c, 1)].i
           k == deps[c][i]
<1>3. /\ UNCHANGED <<deps, failing, requests>> /\ requests' \subseteq Keys \X Keys
      /\ st[Blk(c, 1)].pc = "mark"
      /\ node' = [node EXCEPT ![k].queued = TRUE]
      /\ parent' = IF node[k].queued THEN parent ELSE [parent EXCEPT ![k] = c]
      /\ StepQueueing(t, "ensure", i + 1, IF node[k].queued THEN {} ELSE {Task("create", k, 1)})
  BY <1>1, <1>2 DEF QueueOnceProcessingTask, At, TypeOK
<1>4. i \in Nat \ {0} /\ i \in DOMAIN deps[c] /\ k \in Keys /\ k \in Consumers
  BY <1>1, <1>2, <1>3, Known DEF Inv, TaskShape
<1>5. node[k].exists
  BY <1>3 DEF Inv, KnownNodes, At
<1>6. \A q \in DOMAIN deps[c] : q < i => node[deps[c][q]].queued
  BY <1>3 DEF Inv, DepsQueued, Asking
<1>7. /\ i + 1 \in Nat \ {0} /\ \A q \in DOMAIN deps[c] : q < i + 1 => q < i \/ q = i
  <2>1. \A q \in DOMAIN deps[c] : q \in Nat
    BY <1>2, DepsFacts
  <2> QED
    BY <1>4, <2>1
<1>8. \A x \in Keys : DOMAIN node[x] = DOMAIN NoNode /\ node[x].exists \in BOOLEAN /\ node[x].queued \in BOOLEAN
  BY <1>2 DEF TypeOK
<1>9. /\ DOMAIN node' = Keys /\ \A x \in Keys : x # k => node'[x] = node[x]
      /\ DOMAIN node'[k] = DOMAIN NoNode /\ node'[k].queued = TRUE
      /\ node'[k].exists = node[k].exists /\ node'[k].ready = node[k].ready
      /\ node'[k].failed = node[k].failed
      /\ node'[k].awaiting = node[k].awaiting /\ node'[k].onfail = node[k].onfail
  <2>1. node'[k] = [node[k] EXCEPT !.queued = TRUE] /\ DOMAIN node' = Keys /\ \A x \in Keys : x # k => node'[x] = node[x]
    BY <1>2, <1>3, <1>4 DEF TypeOK
  <2> QED
    BY <1>4, <1>8, <2>1, NoNodeFields
<1> DEFINE j == i + 1
<1>10. CASE node[k].queued
  <2>1. /\ again' = again /\ DOMAIN st' = Tasks /\ Becomes(t, "ensure", i + 1, st[t].key)
        /\ \A u \in Tasks : u = t \/ st'[u] = st[u]
    BY <1>2, <1>3, <1>10, StepEffect
  <2>2. BlksKept({Blk(c, 1)}) /\ ConsumesKept({}) /\ FailuresKept({}) /\ Static
    BY <1>1, <1>2, <1>3, <2>1, OnlyBlk DEF Static
  <2>3. Becomes(Blk(c, 1), "ensure", j, st[Blk(c, 1)].key)
    BY <1>1, <2>1
  <2>4. NodesKept({}) /\ parent' = parent
    <3>1. NodeKept(k)
      BY <1>4, <1>8, <1>9, <1>10 DEF NodeKept
    <3>2. ASSUME NEW x \in Keys, x # k
          PROVE  NodeKept(x)
      BY <1>8, <1>9, <3>2 DEF NodeKept
    <3> QED
      BY <1>3, <1>9, <1>10, <3>1, <3>2 DEF NodesKept
  <2>5. \A q \in DOMAIN deps[c] : q < j => node[deps[c][q]].queued
    BY <1>6, <1>7, <1>10
  <2>6. j \in Nat \ {0}
    BY <1>7
  <2> HIDE DEF i, j
  <2> QED
    BY <1>2, <1>3, <2>2, <2>3, <2>4, <2>5, <2>6, MoveNext DEF Asking, Waiting, Passed, Registering, Stopped
<1>11. CASE ~node[k].queued
  <2>1. Task("create", k, 1) = Blk(k, 1) /\ First(Blk(k, 1)) = "create"
    BY <1>2, <1>4, TaskSet, TaskFacts DEF Blk
  <2>2. At(Blk(k, 1), "none")
    BY <1>4, <1>11 DEF Inv, CreatorOnce
  <2>3. Blk(k, 1) \in Tasks /\ Blk(k, 1) # t
    BY <1>1, <1>3, <1>4, <2>2, Known DEF At
  <2>4. StepQueueing(t, "ensure", i + 1, {Blk(k, 1)})
    BY <1>3, <1>11, <2>1
  <2>5. /\ again' = again /\ DOMAIN st' = Tasks /\ Becomes(t, "ensure", i + 1, st[t].key)
        /\ Starts(Blk(k, 1), "create")
        /\ \A u \in Tasks : u = t \/ u = Blk(k, 1) \/ st'[u] = st[u]
    BY <1>2, <2>1, <2>2, <2>3, <2>4, QueueEffect
  <2>6. BlksKept({Blk(c, 1), Blk(k, 1)}) /\ ConsumesKept({}) /\ FailuresKept({})
    <3>1. /\ \A u \in {Blk(c, 1), Blk(k, 1)} : \E d, q : u = Blk(d, q)
          /\ \A u \in Tasks : \/ u \in {Blk(c, 1), Blk(k, 1)} \/ (\E d \in {} : u = Consume(d)) \/ (\E d \in {} : u = FailOf(d))
                              \/ st'[u] = st[u]
      BY <1>1, <2>5
    <3> QED
      BY <1>2, <3>1, Others
  <2>7. Static
    BY <1>3, <2>5 DEF Static
  <2>8. NodesKept({k}) /\ NodeBecomes(k, TRUE, node[k].ready, node[k].failed, node[k].awaiting, node[k].onfail)
    BY <1>5, <1>8, <1>9 DEF NodesKept, NodeKept, NodeBecomes
  <2>9. Becomes(Blk(c, 1), "ensure", j, st[Blk(c, 1)].key)
    BY <1>1, <2>5
  <2>10. parent' = [parent EXCEPT ![k] = c] /\ At(Blk(c, 1), "mark") /\ st[Blk(c, 1)].i = i
    BY <1>3, <1>11 DEF At
  <2>11. j \in Nat \ {0} /\ \A q \in DOMAIN deps[c] : q < j => q < i \/ q = i
    BY <1>7
  <2>12. k = deps[c][i]
    OBVIOUS
  <2> HIDE DEF i, j, k
  <2> QED
    BY <1>4, <2>5, <2>6, <2>7, <2>8, <2>9, <2>10, <2>11, <2>12, CreatorQueuedNext
<1> QED
  BY <1>10, <1>11

(* The next key to wait for, or the consumer. *)
LEMMA AllReadyInv ==
  ASSUME Inv, NEW t \in Tasks, QueueTaskWhenAllReady(t)
  PROVE  Inv'
<1>1. PICK c \in Consumers : \E p \in Pos(c) : p # 1 /\ t = Blk(c, p) /\ t.c = c /\ t.pos = p
  BY Kinds DEF QueueTaskWhenAllReady
<1>2. PICK p \in Pos(c) : p # 1 /\ t = Blk(c, p) /\ t.c = c /\ t.pos = p
  BY <1>1
<1>3. TypeOK /\ [deps |-> deps, failing |-> failing] \in Problems
  BY Known
<1>4. /\ UNCHANGED <<deps, failing, node, parent, requests>> /\ NodesKept({})
      /\ requests' \subseteq Keys \X Keys
      /\ st[Blk(c, p)].pc = "block" /\ st[Blk(c, p)].i \in Nat \ {0}
  BY <1>2, <1>3, SameNodes, Known DEF QueueTaskWhenAllReady, At, Inv, TypeOK
<1>5. p \in Nat /\ Len(deps[c]) \in Nat /\ Pos(c) = 1 .. Len(deps[c]) + 1 /\ DOMAIN deps[c] = 1 .. Len(deps[c])
  BY <1>3, DepsFacts DEF Pos
<1>6. CASE p > Len(deps[c])
  <2>1. StepQueueing(t, "done", 1, {Consume(c)})
    BY <1>2, <1>6 DEF QueueTaskWhenAllReady, Consume
  <2>2. At(Consume(c), "none")
    BY <1>4, NotYet DEF Passed
  <2>3. Consume(c) \in Tasks /\ Consume(c) # t /\ First(Consume(c)) = "consume"
    BY <1>2, Known, TaskFacts
  <2>4. /\ again' = again /\ DOMAIN st' = Tasks /\ Becomes(t, "done", 1, st[t].key)
        /\ Starts(Consume(c), "consume")
        /\ \A u \in Tasks : u = t \/ u = Consume(c) \/ st'[u] = st[u]
    BY <1>3, <2>1, <2>2, <2>3, QueueEffect
  <2>5. BlksKept({Blk(c, p)}) /\ ConsumesKept({c}) /\ FailuresKept({})
    BY <1>2, <1>3, <2>4, BlkAndConsume
  <2>6. p \notin DOMAIN deps[c] /\ \A q \in Pos(c) : q = p \/ q < p
    BY <1>5, <1>6
  <2>7. Static
    BY <1>4, <2>4 DEF Static
  <2> QED
    BY <1>2, <1>4, <2>4, <2>5, <2>6, <2>7, ConsumeQueuedNext
<1>7. CASE ~(p > Len(deps[c]))
  <2>1. /\ again' = again /\ DOMAIN st' = Tasks /\ Becomes(t, "onfail_test", st[t].i, st[t].key)
        /\ \A u \in Tasks : u = t \/ st'[u] = st[u]
    BY <1>2, <1>3, <1>7, StepEffect DEF QueueTaskWhenAllReady, Step
  <2>2. BlksKept({Blk(c, p)}) /\ ConsumesKept({}) /\ FailuresKept({}) /\ Static
    BY <1>2, <1>3, <1>4, <2>1, OnlyBlk DEF Static
  <2>3. Becomes(Blk(c, p), "onfail_test", st[Blk(c, p)].i, st[Blk(c, p)].key)
    BY <1>2, <2>1
  <2>4. p \in DOMAIN deps[c]
    BY <1>5, <1>7
  <2>5. \A q \in DOMAIN deps[c] : node[deps[c][q]].queued
    BY <1>4 DEF Inv, DepsQueued
  <2> QED
    BY <1>4, <2>2, <2>3, <2>4, <2>5, MoveNext DEF Asking, Waiting, Passed, Registering, Stopped
<1> QED
  BY <1>6, <1>7

(* What is at hand where a consumer waits for a node. *)
LEMMA WaitingFacts ==
  ASSUME Inv, NEW c \in Consumers, NEW p \in DOMAIN deps[c], st[Blk(c, p)].pc \in Waiting
  PROVE  /\ p \in Pos(c) /\ p + 1 \in Pos(c) /\ p + 1 # p /\ p < p + 1 /\ deps[c][p] \in Keys
         /\ Blk(c, p) \in Tasks /\ Blk(c, p + 1) \in Tasks /\ st[Blk(c, p)].i \in Nat \ {0}
         /\ \A q \in DOMAIN deps[c] : node[deps[c][q]].queued
         /\ node[deps[c][p]].exists
         /\ First(Blk(c, p + 1)) = "block" /\ Task("chain", c, p + 1) = Blk(c, p + 1) /\ Blk(c, p + 1) # Blk(c, p)
<1>1. /\ p \in Pos(c) /\ p + 1 \in Pos(c) /\ p + 1 # p /\ p + 1 # 1 /\ p < p + 1
      /\ deps[c][p] \in Keys
  BY Known, DepsFacts
<1>2. Blk(c, p) \in Tasks /\ Blk(c, p + 1) \in Tasks /\ st[Blk(c, p)].i \in Nat \ {0}
  BY <1>1, Known
<1>3. \A q \in DOMAIN deps[c] : node[deps[c][q]].queued
  BY <1>1 DEF Inv, DepsQueued
<1>4. node[deps[c][p]].exists
  BY <1>1, <1>3 DEF Inv, KnownNodes
<1>5. First(Blk(c, p + 1)) = "block" /\ Blk(c, p + 1) # Blk(c, p)
  BY <1>1, TaskFacts
<1>6. Task("chain", c, p + 1) = Blk(c, p + 1)
  BY <1>1 DEF Blk
<1> QED
  BY <1>1, <1>2, <1>3, <1>4, <1>5, <1>6

(* A waiting consumer goes on to wait. *)
LEMMA WaitsOn ==
  ASSUME Inv, NEW c \in Consumers, NEW p \in DOMAIN deps[c], st[Blk(c, p)].pc \in Waiting,
         NEW l \in Waiting \cup {"done"}, Step(Blk(c, p), l),
         UNCHANGED <<deps, failing, node, parent>>, requests' \subseteq Keys \X Keys,
         st[Blk(c, p)].pc \in Registering => l \in Registering,
         st[Blk(c, p)].pc \in Passed => l \in Passed,
         l \in {"await_test", "await_lock"} /\ c \in Keys \cup WithFail =>
           ~At(FailOf(c), "none") \/ node[deps[c][p]].ready \/ FailOf(c) \in node[deps[c][p]].onfail,
         l \in Stopped => st[Blk(c, p)].pc \in Stopped \/ Refused(c)
  PROVE  Inv'
<1>1. /\ p \in Pos(c) /\ Blk(c, p) \in Tasks /\ st[Blk(c, p)].i \in Nat \ {0}
      /\ \A q \in DOMAIN deps[c] : node[deps[c][q]].queued
  BY WaitingFacts
<1>2. TypeOK /\ [deps |-> deps, failing |-> failing] \in Problems
  BY Known
<1>3. /\ again' = again /\ DOMAIN st' = Tasks
      /\ Becomes(Blk(c, p), l, st[Blk(c, p)].i, st[Blk(c, p)].key)
      /\ \A u \in Tasks : u = Blk(c, p) \/ st'[u] = st[u]
  BY <1>1, <1>2, StepEffect DEF Step
<1>4. BlksKept({Blk(c, p)}) /\ ConsumesKept({}) /\ FailuresKept({}) /\ Static /\ NodesKept({})
  BY <1>2, <1>3, OnlyBlk, SameNodes DEF Static
<1> QED
  BY <1>1, <1>3, <1>4, MoveNext DEF Asking, Waiting

(* Whether a failure function is to be registered. *)
LEMMA OnFailTestInv ==
  ASSUME Inv, NEW t \in Tasks, QueueOnFailureTest(t)
  PROVE  Inv'
<1>1. PICK c \in Consumers : \E p \in DOMAIN deps[c] : t = Blk(c, p) /\ t.c = c /\ t.pos = p /\ Key(t) = deps[c][p]
  BY Kinds DEF QueueOnFailureTest, At, Waiting
<1>2. PICK p \in DOMAIN deps[c] : t = Blk(c, p) /\ t.c = c /\ t.pos = p /\ Key(t) = deps[c][p]
  BY <1>1
<1>3. /\ UNCHANGED <<deps, failing, node, parent>> /\ requests' \subseteq Keys \X Keys
      /\ st[Blk(c, p)].pc = "onfail_test"
  BY <1>2 DEF QueueOnFailureTest, At, Inv, TypeOK
<1>4. \A d : FailTasks(d) = {} => d \notin Keys \cup WithFail
  BY Known, TaskSet
<1>5. \/ Step(Blk(c, p), "onfail_lock")
      \/ Step(Blk(c, p), "await_test") /\ (FailTasks(c) = {} \/ node[deps[c][p]].ready)
  BY <1>2 DEF QueueOnFailureTest
<1> QED
  BY <1>3, <1>4, <1>5, WaitsOn DEF Waiting, Registering, Passed, Stopped

(* The failure function is registered, or queued at once. *)
LEMMA OnFailureInv ==
  ASSUME Inv, NEW t \in Tasks, QueueOnFailure(t)
  PROVE  Inv'
<1>1. PICK c \in Consumers : \E p \in DOMAIN deps[c] : t = Blk(c, p) /\ t.c = c /\ t.pos = p /\ Key(t) = deps[c][p]
  BY Kinds DEF QueueOnFailure, At, Waiting
<1>2. PICK p \in DOMAIN deps[c] : t = Blk(c, p) /\ t.c = c /\ t.pos = p /\ Key(t) = deps[c][p]
  BY <1>1
<1> DEFINE k == deps[c][p]
<1>3. /\ UNCHANGED <<deps, failing, parent, requests>> /\ requests' \subseteq Keys \X Keys
      /\ st[Blk(c, p)].pc = "onfail_lock" /\ st[Blk(c, p)].pc \in Waiting
  BY <1>2 DEF QueueOnFailure, At, Inv, TypeOK, Waiting
<1>4. /\ TypeOK /\ [deps |-> deps, failing |-> failing] \in Problems
      /\ p \in Pos(c) /\ k \in Keys /\ Blk(c, p) \in Tasks /\ node[k].exists
      /\ st[Blk(c, p)].i \in Nat \ {0}
  BY <1>3, WaitingFacts, Known
<1>5. CASE c \notin Keys \cup WithFail
  <2>1. FailTasks(c) = {}
    BY <1>4, <1>5, TaskSet
  <2>2. Step(Blk(c, p), "await_test")
    BY <1>2, <2>1 DEF QueueOnFailure, Step
  <2>3. CASE node[k].failed
    BY <1>2, <1>3, <1>5, <2>2, <2>3, WaitsOn DEF QueueOnFailure, Waiting, Registering, Passed, Stopped
  <2>4. CASE ~node[k].failed
    <3>1. DOMAIN node' = Keys /\ \A x \in Keys : NodeKept(x)
      <4>1. node' = [node EXCEPT ![k].onfail = @ \cup {}]
        BY <1>2, <2>1, <2>4 DEF QueueOnFailure
      <4>2. \A x \in Keys : DOMAIN node[x] = DOMAIN NoNode /\ node[x].exists \in BOOLEAN
        BY <1>4 DEF TypeOK
      <4>3. /\ DOMAIN node' = Keys /\ \A x \in Keys : x # k => node'[x] = node[x]
            /\ node'[k] = [node[k] EXCEPT !.onfail = @ \cup {}]
        BY <1>4, <4>1 DEF TypeOK
      <4> QED
        BY <4>2, <4>3, NoNodeFields DEF NodeKept
    <3>2. NodesKept({})
      BY <3>1 DEF NodesKept
    <3>3. /\ again' = again /\ DOMAIN st' = Tasks /\ Becomes(Blk(c, p), "await_test", st[Blk(c, p)].i, st[Blk(c, p)].key)
          /\ \A u \in Tasks : u = Blk(c, p) \/ st'[u] = st[u]
      BY <1>4, <2>2, StepEffect DEF Step
    <3>4. BlksKept({Blk(c, p)}) /\ ConsumesKept({}) /\ FailuresKept({}) /\ Static
      BY <1>3, <1>4, <3>3, OnlyBlk DEF Static
    <3>5. \A q \in DOMAIN deps[c] : node[deps[c][q]].queued
      BY <1>3, WaitingFacts
    <3>6. ~(c \in Keys \cup WithFail) /\ parent' = parent
      BY <1>3, <1>5
    <3> HIDE DEF k
    <3> QED
      BY <1>3, <1>4, <3>2, <3>3, <3>4, <3>5, <3>6, MoveNext DEF Asking, Waiting, Registering, Passed, Stopped
  <2> QED
    BY <2>3, <2>4
<1>6. CASE c \in Keys \cup WithFail
  <2>1. FailTasks(c) = {FailOf(c)} /\ FailOf(c) \in Tasks /\ FailOf(c) # t /\ First(FailOf(c)) = "fail"
    BY <1>2, <1>4, <1>6, TaskSet, TaskFacts
  <2>2. CASE node[k].failed
    <3>1. At(FailOf(c), "none")
      <4> SUFFICES ASSUME ~At(FailOf(c), "none")
                   PROVE  FALSE
        OBVIOUS
      <4>1. PICK q \in DOMAIN deps[c] : node[deps[c][q]].failed /\ st[Blk(c, q)].pc \in Registering
        BY <1>6 DEF Inv, FailureQueued
      <4>2. q \in Pos(c) /\ p \in Nat /\ q \in Nat /\ q # p /\ deps[c][q] \in Keys
        BY <1>3, <1>4, <4>1, DepsFacts DEF Registering
      <4>3. ~(p < q)
        BY <1>3, <1>4, <4>1, <4>2 DEF Inv, ChainInOrder, At, Registering, Passed
      <4>4. ~(q < p)
        BY <1>3, <1>4, <4>1, <4>2 DEF Inv, ChainInOrder, ValueFromConsumer, At
      <4> QED
        BY <4>2, <4>3, <4>4
    <3>2. /\ again' = again /\ DOMAIN st' = Tasks /\ Becomes(t, "await_test", st[t].i, st[t].key)
          /\ Starts(FailOf(c), "fail") /\ node' = node
          /\ \A u \in Tasks : u = t \/ u = FailOf(c) \/ st'[u] = st[u]
      <4>1. StepQueueing(t, "await_test", st[t].i, {FailOf(c)}) /\ node' = node
        BY <1>2, <2>1, <2>2 DEF QueueOnFailure
      <4> QED
        BY <1>4, <2>1, <3>1, <4>1, QueueEffect
    <3>3. BlksKept({Blk(c, p)}) /\ ConsumesKept({}) /\ FailuresKept({c})
      BY <1>2, <1>4, <3>2, BlkAndFail
    <3>4. Static /\ NodesKept({})
      BY <1>3, <1>4, <3>2, SameNodes DEF Static
    <3> QED
      BY <1>2, <1>3, <1>6, <2>2, <3>2, <3>3, <3>4, FailureQueuedNext DEF At
  <2>3. CASE ~node[k].failed
    <3>1. node' = [node EXCEPT ![k].onfail = @ \cup {FailOf(c)}] /\ Step(t, "await_test")
      BY <1>2, <2>1, <2>3 DEF QueueOnFailure
    <3>2. /\ again' = again /\ DOMAIN st' = Tasks /\ Becomes(t, "await_test", st[t].i, st[t].key)
          /\ \A u \in Tasks : u = t \/ st'[u] = st[u]
      BY <1>4, <3>1, StepEffect DEF Step
    <3>3. BlksKept({Blk(c, p)}) /\ ConsumesKept({}) /\ FailuresKept({}) /\ Static
      BY <1>2, <1>3, <1>4, <3>2, OnlyBlk DEF Static
    <3>4. /\ NodesKept({k})
          /\ NodeBecomes(k, node[k].queued, node[k].ready, node[k].failed, node[k].awaiting, node[k].onfail \cup {FailOf(c)})
      <4>1. \A x \in Keys : DOMAIN node[x] = DOMAIN NoNode /\ node[x].exists \in BOOLEAN
        BY <1>4 DEF TypeOK
      <4>2. /\ DOMAIN node' = Keys /\ \A x \in Keys : x # k => node'[x] = node[x]
            /\ node'[k] = [node[k] EXCEPT !.onfail = @ \cup {FailOf(c)}]
        BY <1>4, <3>1 DEF TypeOK
      <4> QED
        BY <1>4, <4>1, <4>2, NoNodeFields DEF NodesKept, NodeKept, NodeBecomes
    <3>5. k = deps[c][p]
      OBVIOUS
    <3> HIDE DEF k
    <3> QED
      BY <1>2, <1>3, <1>4, <1>6, <2>3, <3>2, <3>3, <3>4, <3>5, OnFailAddedNext DEF At
  <2> QED
    BY <2>2, <2>3
<1> QED
  BY <1>5, <1>6

(* The node is ready: the next task of the consumer is queued. *)
LEMMA GoesOn ==
  ASSUME Inv, NEW c \in Consumers, NEW p \in DOMAIN deps[c],
         st[Blk(c, p)].pc \in {"await_test", "await_lock"},
         node[deps[c][p]].ready, StepQueueing(Blk(c, p), "done", 1, {Task("chain", c, p + 1)}),
         UNCHANGED <<deps, failing, node, parent, requests>>
  PROVE  Inv'
<1>1. /\ p \in Pos(c) /\ p + 1 \in Pos(c) /\ p < p + 1 /\ Blk(c, p) \in Tasks
      /\ Blk(c, p + 1) \in Tasks
      /\ First(Blk(c, p + 1)) = "block" /\ Task("chain", c, p + 1) = Blk(c, p + 1)
      /\ Blk(c, p + 1) # Blk(c, p)
  BY WaitingFacts DEF Waiting
<1>2. TypeOK /\ [deps |-> deps, failing |-> failing] \in Problems
  BY Known
<1>3. At(Blk(c, p + 1), "none")
  BY <1>1, NotYet DEF Passed
<1>4. StepQueueing(Blk(c, p), "done", 1, {Blk(c, p + 1)})
  BY <1>1
<1>5. /\ again' = again /\ DOMAIN st' = Tasks /\ Becomes(Blk(c, p), "done", 1, st[Blk(c, p)].key)
      /\ Starts(Blk(c, p + 1), "block")
      /\ \A u \in Tasks : u = Blk(c, p) \/ u = Blk(c, p + 1) \/ st'[u] = st[u]
  BY <1>1, <1>2, <1>3, <1>4, QueueEffect
<1>6. BlksKept({Blk(c, p), Blk(c, p + 1)}) /\ ConsumesKept({}) /\ FailuresKept({})
  <2>1. /\ \A u \in {Blk(c, p), Blk(c, p + 1)} : \E d, q : u = Blk(d, q)
        /\ \A u \in Tasks : \/ u \in {Blk(c, p), Blk(c, p + 1)} \/ (\E d \in {} : u = Consume(d)) \/ (\E d \in {} : u = FailOf(d))
                            \/ st'[u] = st[u]
    BY <1>5
  <2> QED
    BY <1>2, <2>1, Others
<1>7. Static /\ NodesKept({})
  BY <1>2, <1>5, SameNodes DEF Static, TypeOK
<1> QED
  BY <1>5, <1>6, <1>7, NextQueuedNext

(* Whether the node is ready, without its lock. *)
LEMMA AwaitTestInv ==
  ASSUME Inv, NEW t \in Tasks, AddOrQueueAwaitingTest(t)
  PROVE  Inv'
<1>1. PICK c \in Consumers : \E p \in DOMAIN deps[c] : t = Blk(c, p) /\ t.c = c /\ t.pos = p /\ Key(t) = deps[c][p]
  BY Kinds DEF AddOrQueueAwaitingTest, At, Waiting
<1>2. PICK p \in DOMAIN deps[c] : t = Blk(c, p) /\ t.c = c /\ t.pos = p /\ Key(t) = deps[c][p]
  BY <1>1
<1>3. /\ UNCHANGED <<deps, failing, node, parent, requests>> /\ requests' \subseteq Keys \X Keys
      /\ st[Blk(c, p)].pc = "await_test"
  BY <1>2 DEF AddOrQueueAwaitingTest, At, Inv, TypeOK
<1>4. CASE node[deps[c][p]].ready
  <2>1. StepQueueing(Blk(c, p), "done", 1, {Task("chain", c, p + 1)})
    BY <1>2, <1>4 DEF AddOrQueueAwaitingTest
  <2> QED
    BY <1>3, <1>4, <2>1, GoesOn
<1>5. CASE ~node[deps[c][p]].ready
  <2>1. Step(Blk(c, p), "await_lock")
    BY <1>2, <1>5 DEF AddOrQueueAwaitingTest
  <2>2. c \in Keys \cup WithFail =>
           ~At(FailOf(c), "none") \/ node[deps[c][p]].ready \/ FailOf(c) \in node[deps[c][p]].onfail
    BY <1>3 DEF Inv, FailureRegistered
  <2> QED
    BY <1>3, <2>1, <2>2, WaitsOn DEF Waiting, Registering, Passed, Stopped
<1> QED
  BY <1>4, <1>5

(* The consumer registers with a node, under its lock. *)
LEMMA AwaitLockInv ==
  ASSUME Inv, NEW t \in Tasks, AddOrQueueAwaitingTask(t)
  PROVE  Inv'
<1>1. PICK c \in Consumers : \E p \in DOMAIN deps[c] : t = Blk(c, p) /\ t.c = c /\ t.pos = p /\ Key(t) = deps[c][p]
  BY Kinds DEF AddOrQueueAwaitingTask, At, Waiting
<1>2. PICK p \in DOMAIN deps[c] : t = Blk(c, p) /\ t.c = c /\ t.pos = p /\ Key(t) = deps[c][p]
  BY <1>1
<1> DEFINE k == deps[c][p]
<1>3. /\ UNCHANGED <<deps, failing, parent, requests>> /\ requests' \subseteq Keys \X Keys
      /\ st[Blk(c, p)].pc = "await_lock" /\ st[Blk(c, p)].pc \in Waiting
  BY <1>2 DEF AddOrQueueAwaitingTask, At, Inv, TypeOK, Waiting
<1>4. /\ TypeOK /\ [deps |-> deps, failing |-> failing] \in Problems
      /\ p \in Pos(c) /\ k \in Keys /\ Blk(c, p) \in Tasks /\ node[k].exists
      /\ st[Blk(c, p)].i \in Nat \ {0}
      /\ Task("chain", c, p + 1) = Blk(c, p + 1)
  BY <1>3, WaitingFacts, Known
<1>5. CASE node[k].failed
  <2>1. Step(Blk(c, p), "record") /\ node' = node
    BY <1>2, <1>5 DEF AddOrQueueAwaitingTask
  <2>2. ~node[k].ready
    BY <1>4, <1>5 DEF Inv, ValueFromConsumer
  <2>3. c \in Keys \cup WithFail => ~At(FailOf(c), "none")
    BY <1>3, <1>4, <1>5, <2>2 DEF Inv, FailureRegistered, OnFailLive
  <2>4. Refused(c)
    BY <1>5, <2>3 DEF Refused, Answerable
  <2> QED
    BY <1>3, <2>1, <2>4, WaitsOn DEF Waiting, Registering, Passed, Stopped
<1>6. CASE ~node[k].failed /\ node[k].ready
  <2>1. StepQueueing(Blk(c, p), "done", 1, {Task("chain", c, p + 1)}) /\ node' = node
    BY <1>2, <1>6 DEF AddOrQueueAwaitingTask
  <2> QED
    BY <1>3, <1>6, <2>1, GoesOn
<1>7. CASE ~node[k].failed /\ ~node[k].ready
  <2>1. node' = [node EXCEPT ![k].awaiting = @ \cup {Blk(c, p + 1)}] /\ Step(t, "record")
    BY <1>2, <1>4, <1>7 DEF AddOrQueueAwaitingTask
  <2>2. /\ again' = again /\ DOMAIN st' = Tasks /\ Becomes(t, "record", st[t].i, st[t].key)
        /\ \A u \in Tasks : u = t \/ st'[u] = st[u]
    BY <1>4, <2>1, StepEffect DEF Step
  <2>3. BlksKept({Blk(c, p)}) /\ ConsumesKept({}) /\ FailuresKept({}) /\ Static
    BY <1>2, <1>3, <1>4, <2>2, OnlyBlk DEF Static
  <2>4. /\ NodesKept({k})
        /\ NodeBecomes(k, node[k].queued, node[k].ready, node[k].failed, node[k].awaiting \cup {Blk(c, p + 1)}, node[k].onfail)
    <3>1. \A x \in Keys : DOMAIN node[x] = DOMAIN NoNode /\ node[x].exists \in BOOLEAN
      BY <1>4 DEF TypeOK
    <3>2. /\ DOMAIN node' = Keys /\ \A x \in Keys : x # k => node'[x] = node[x]
          /\ node'[k] = [node[k] EXCEPT !.awaiting = @ \cup {Blk(c, p + 1)}]
      BY <1>4, <2>1 DEF TypeOK
    <3> QED
      BY <1>4, <3>1, <3>2, NoNodeFields DEF NodesKept, NodeKept, NodeBecomes
  <2>5. k = deps[c][p]
    OBVIOUS
  <2> HIDE DEF k
  <2> QED
    BY <1>2, <1>3, <1>4, <1>7, <2>2, <2>3, <2>4, <2>5, AwaitAddedNext DEF At
<1> QED
  BY <1>5, <1>6, <1>7

(* The request of a key for another is recorded. *)
LEMMA RecordInv ==
  ASSUME Inv, NEW t \in Tasks, RecordNodeRequest(t)
  PROVE  Inv'
<1>1. PICK c \in Consumers : \E p \in DOMAIN deps[c] : t = Blk(c, p) /\ t.c = c /\ t.pos = p /\ Key(t) = deps[c][p]
  BY Kinds DEF RecordNodeRequest, At, Waiting
<1>2. PICK p \in DOMAIN deps[c] : t = Blk(c, p) /\ t.c = c /\ t.pos = p /\ Key(t) = deps[c][p]
  BY <1>1
<1>3. /\ UNCHANGED <<deps, failing, node, parent>> /\ st[Blk(c, p)].pc = "record"
      /\ Step(Blk(c, p), "done")
  BY <1>2 DEF RecordNodeRequest, At
<1>4. requests' \subseteq Keys \X Keys
  <2>1. requests \subseteq Keys \X Keys /\ deps[c][p] \in Keys
    BY Known DEF Inv, TypeOK
  <2> QED
    BY <1>2, <2>1 DEF RecordNodeRequest
<1> QED
  BY <1>3, <1>4, WaitsOn DEF Waiting, Registering, Passed, Stopped

(* The consumer of a key sets its value, or finds its node failed. *)
LEMMA SetAndQueueInv ==
  ASSUME Inv, NEW t \in Tasks, SetAndQueueAwaitingTasks(t)
  PROVE  Inv'
<1>1. /\ TypeOK /\ [deps |-> deps, failing |-> failing] \in Problems
      /\ UNCHANGED <<deps, failing, parent, requests>> /\ requests' \subseteq Keys \X Keys
      /\ At(t, "set") \/ (At(t, "consume") /\ t.c \in Keys \ failing)
      /\ st[t].i \in Nat \ {0} /\ st[t].key \in Keys \cup {"none"}
  BY Known DEF SetAndQueueAwaitingTasks, TypeOK
<1>2. \E c \in Keys : t.c = c /\ (t = Consume(c) \/ (t = Blk(c, 1) /\ At(t, "set")))
  BY <1>1, Kinds DEF At
<1>3. PICK k \in Keys : t.c = k /\ (t = Consume(k) \/ (t = Blk(k, 1) /\ At(t, "set")))
  BY <1>2
<1>4. k \in Consumers /\ Consume(k) \in Tasks
  BY Known
<1>5. CASE node[k].failed
  <2>1. Step(t, "done") /\ node' = node
    BY <1>3, <1>5 DEF SetAndQueueAwaitingTasks
  <2>2. /\ again' = again /\ DOMAIN st' = Tasks /\ Becomes(t, "done", st[t].i, st[t].key)
        /\ \A u \in Tasks : u = t \/ st'[u] = st[u]
    BY <1>1, <2>1, StepEffect DEF Step
  <2>3. Static /\ NodesKept({})
    BY <1>1, <2>1, <2>2, SameNodes DEF Static
  <2>4. CASE t = Consume(k)
    <3>1. BlksKept({}) /\ ConsumesKept({k}) /\ FailuresKept({})
      BY <1>1, <2>2, <2>4, OnlyConsume
    <3>2. st[Consume(k)].pc \in {"consume", "log", "set"}
      BY <1>1, <2>4 DEF At
    <3> QED
      BY <1>1, <1>4, <1>5, <2>2, <2>3, <2>4, <3>1, <3>2, ConsumerEndsNext
  <2>5. CASE t = Blk(k, 1) /\ At(t, "set")
    <3>1. BlksKept({Blk(k, 1)}) /\ ConsumesKept({}) /\ FailuresKept({})
      BY <1>1, <2>2, <2>5, OnlyBlk
    <3> QED
      BY <1>1, <1>5, <2>2, <2>3, <2>5, <3>1, CreatorFailsNext DEF At
  <2> QED
    BY <1>3, <2>4, <2>5
<1>6. CASE ~node[k].failed
  <2>1. t = Consume(k) /\ At(t, "consume") /\ k \notin failing
    BY <1>1, <1>3, <1>6 DEF Inv, FailureCaused
  <2> DEFINE Q == node[k].awaiting
  <2>2. /\ node' = [node EXCEPT ![k].ready = TRUE, ![k].awaiting = {}, ![k].onfail = {}]
        /\ StepQueueing(t, "done", 1, Q)
    BY <1>3, <1>6 DEF SetAndQueueAwaitingTasks
  <2>3. Q \in SUBSET Tasks
    BY <1>1 DEF TypeOK
  <2>4. \A u \in Q : At(u, "none") /\ First(u) = "block"
    <3> TAKE u \in Q
    <3>1. At(u, "none") /\ \E c \in Consumers : \E p \in DOMAIN deps[c] : u = Blk(c, p + 1)
      BY DEF Inv, AwaitingLive
    <3>2. \A c \in Consumers : \A p \in DOMAIN deps[c] : p + 1 # 1
      BY <1>1, DepsFacts
    <3> QED
      BY <3>1, <3>2, TaskFacts
  <2>5. t \notin Q
    BY <2>1, <2>4 DEF At
  <2>6. \A x \in Keys : DOMAIN node[x] = DOMAIN NoNode
    BY <1>1 DEF TypeOK
  <2>7. /\ DOMAIN node' = Keys /\ \A x \in Keys : x # k => node'[x] = node[x]
        /\ node'[k] = [node[k] EXCEPT !.ready = TRUE, !.awaiting = {}, !.onfail = {}]
    BY <1>1, <2>2 DEF TypeOK
  <2>8. node[k].exists /\ \A x \in Keys : node[x].exists \in BOOLEAN
    <3>1. \A x \in Keys : node[x].exists \in BOOLEAN
      BY <1>1 DEF TypeOK
    <3>2. st[Blk(k, 1)].pc \in Passed
      BY <1>1, <1>4, <2>1, DepsFacts DEF Inv, ChainInOrder, At
    <3>3. node[k].queued
      BY <3>2 DEF Inv, CreatorOnce, At, Passed
    <3> QED
      BY <3>1, <3>3 DEF Inv, KnownNodes
  <2>9. NodesKept({k}) /\ NodeBecomes(k, node[k].queued, TRUE, FALSE, {}, {})
    <3>1. node[k].failed = FALSE
      BY <1>1, <1>6 DEF TypeOK
    <3> QED
      BY <2>6, <2>7, <2>8, <3>1, NoNodeFields DEF NodesKept, NodeKept, NodeBecomes
  <2> HIDE DEF Q
  <2>10. /\ again' = again /\ DOMAIN st' = Tasks /\ Becomes(t, "done", 1, st[t].key)
         /\ \A u \in Q : Becomes(u, First(u), st[u].i, st[u].key)
         /\ \A u \in Tasks : u = t \/ u \in Q \/ st'[u] = st[u]
    BY <1>1, <2>2, <2>3, <2>4, <2>5, QueuesEffect
  <2>11. \A u \in Q : Becomes(u, "block", st[u].i, st[u].key)
    BY <2>4, <2>10
  <2>12. Static
    BY <1>1, <2>10 DEF Static
  <2> QED
    BY <1>1, <1>6, <2>1, <2>9, <2>10, <2>11, <2>12, SetValueNext DEF Q
<1> QED
  BY <1>5, <1>6

(* A consumer logs an error, or it is that of a request and ends. *)
LEMMA ConsumeOtherInv ==
  ASSUME Inv, NEW t \in Tasks, ConsumeOther(t)
  PROVE  Inv'
<1>1. PICK c \in Consumers : t = Consume(c) /\ t.c = c
  BY Kinds DEF ConsumeOther
<1>2. /\ TypeOK /\ [deps |-> deps, failing |-> failing] \in Problems /\ failing \subseteq Keys
      /\ 1 \in Pos(c) /\ UNCHANGED <<deps, failing, node, again, parent, requests>>
      /\ requests' \subseteq Keys \X Keys
      /\ st[t].i \in Nat \ {0} /\ st[t].key \in Keys \cup {"none"} /\ st[Consume(c)].pc = "consume"
  BY <1>1, Known DEF ConsumeOther, TypeOK, At
<1>3. NodesKept({}) /\ DOMAIN st = Tasks /\ DOMAIN st[t] = {"pc", "i", "key"}
  BY <1>2, SameNodes DEF TypeOK
<1>4. CASE c \in failing /\ st' = [st EXCEPT ![t].pc = "log", ![t].key = c]
  <2>1. DOMAIN st' = Tasks /\ Becomes(Consume(c), "log", st[t].i, c) /\ \A u \in Tasks : u = Consume(c) \/ st'[u] = st[u]
    BY <1>1, <1>3, <1>4 DEF Becomes
  <2>2. BlksKept({}) /\ ConsumesKept({c}) /\ FailuresKept({}) /\ Static
    BY <1>2, <2>1, OnlyConsume DEF Static
  <2>3. c \in Keys /\ Bad(c)
    BY <1>2, <1>4 DEF Bad
  <2>4. node[c].exists
    <3>1. st[Blk(c, 1)].pc \in Passed
      BY <1>2 DEF Inv, ChainInOrder, At
    <3>2. node[c].queued
      BY <2>3, <3>1 DEF Inv, CreatorOnce, At, Passed
    <3> QED
      BY <2>3, <3>2 DEF Inv, KnownNodes
  <2> QED
    BY <1>2, <1>3, <1>4, <2>1, <2>2, <2>3, <2>4, ConsumerEndsNext
<1>5. CASE c \in Roots /\ st' = [st EXCEPT ![t].pc = "done"]
  <2>1. /\ DOMAIN st' = Tasks /\ Becomes(Consume(c), "done", st[t].i, st[t].key)
        /\ \A u \in Tasks : u = Consume(c) \/ st'[u] = st[u]
    BY <1>1, <1>3, <1>5 DEF Becomes
  <2>2. BlksKept({}) /\ ConsumesKept({c}) /\ FailuresKept({}) /\ Static
    BY <1>2, <2>1, OnlyConsume DEF Static
  <2> QED
    BY <1>2, <1>3, <1>5, <2>1, <2>2, ConsumerEndsNext
<1> QED
  BY <1>1, <1>4, <1>5 DEF ConsumeOther

(* AsyncMapNode::Fail: nothing on a node that has a value or has failed. *)
LEMMA FailNodeEffect ==
  ASSUME Inv, NEW k \in Keys, node[k].exists, node' = FailNode(k)
  PROVE  /\ node[k].ready \/ node[k].failed => NodesKept({}) /\ FailQueues(k) = {}
         /\ ~node[k].ready /\ ~node[k].failed =>
              /\ NodesKept({k}) /\ NodeBecomes(k, node[k].queued, FALSE, TRUE, {}, {})
              /\ FailQueues(k) = node[k].onfail
<1>1. TypeOK
  BY Known
<1>2. \A x \in Keys : DOMAIN node[x] = DOMAIN NoNode /\ node[x].exists \in BOOLEAN
  BY <1>1 DEF TypeOK
<1> DEFINE old == node[k]
           new == IF old.ready \/ old.failed THEN old
                  ELSE [old EXCEPT !.failed = TRUE, !.awaiting = {}, !.onfail = {}]
<1>3. DOMAIN node' = Keys /\ node'[k] = new /\ \A x \in Keys : x # k => node'[x] = node[x]
  BY <1>1 DEF FailNode, TypeOK
<1>4. CASE node[k].ready \/ node[k].failed
  <2>1. \A x \in Keys : node'[x] = node[x]
    BY <1>3, <1>4
  <2>2. FailQueues(k) = {}
    BY <1>4 DEF FailQueues
  <2> QED
    BY <1>2, <1>3, <1>4, <2>1, <2>2 DEF NodesKept, NodeKept
<1>5. CASE ~node[k].ready /\ ~node[k].failed
  <2>1. node'[k] = [node[k] EXCEPT !.failed = TRUE, !.awaiting = {}, !.onfail = {}] /\ node[k].ready = FALSE
    BY <1>1, <1>3, <1>5 DEF TypeOK
  <2>2. FailQueues(k) = node[k].onfail
    BY <1>5 DEF FailQueues
  <2> HIDE DEF old, new
  <2> QED
    BY <1>2, <1>3, <1>5, <2>1, <2>2, NoNodeFields DEF NodesKept, NodeKept, NodeBecomes
<1> QED
  BY <1>4, <1>5

(* The wrapped logger of a key fails its node and calls the logger of the   *)
(* parent, which is that of a consumer that needs the key, or ends.         *)
LEMMA LogFatalInv ==
  ASSUME Inv, NEW t \in Tasks, LogFatal(t)
  PROVE  Inv'
<1> DEFINE k == st[t].key
           Q == FailQueues(k)
<1>1. /\ TypeOK /\ [deps |-> deps, failing |-> failing] \in Problems
      /\ UNCHANGED <<deps, failing, parent, requests>> /\ requests' \subseteq Keys \X Keys
      /\ At(t, "log") /\ st[t].i \in Nat \ {0} /\ DOMAIN st[t] = {"pc", "i", "key"}
  BY Known DEF LogFatal, TypeOK
<1>2. PICK c \in Keys : t.c = c /\ (t = Blk(c, 1) \/ t = Consume(c))
  BY <1>1, Kinds
<1>3. k \in Keys /\ c \in failing /\ c \in Consumers /\ (k # c => node[c].failed)
  BY <1>1, <1>2, Known DEF Inv, TaskShape, FailureCaused, At
<1>4. Bad(k) /\ node[k].exists
  BY <1>1, <1>2, <1>3 DEF Inv, FailureCaused, KnownNodes
<1>5. node' = FailNode(k)
  BY DEF LogFatal
<1>6. \A u \in Q : At(u, "none") /\ u \in Tasks /\ u # t /\ First(u) = "fail"
  <2>1. CASE node[k].ready \/ node[k].failed
    BY <1>3, <1>4, <1>5, <2>1, FailNodeEffect
  <2>2. CASE ~node[k].ready /\ ~node[k].failed
    <3>1. Q = node[k].onfail
      BY <1>3, <1>4, <1>5, <2>2, FailNodeEffect
    <3>2. \A u \in Q : At(u, "none") /\ \E d \in Keys \cup WithFail : u = FailOf(d)
      BY <1>3, <2>2, <3>1, OnFailIdle
    <3>3. \A u \in Q : First(u) = "fail" /\ u \in Tasks
      BY <1>1, <3>2, TaskFacts, TaskSet
    <3> QED
      BY <1>1, <3>2, <3>3 DEF At
  <2> QED
    BY <2>1, <2>2
<1>7. again' = again /\ DOMAIN st' = Tasks
  <2>1. {u \in Q : ~At(u, "none")} = {}
    BY <1>6
  <2> QED
    BY <2>1 DEF LogFatal
<1>8. Static
  BY <1>1, <1>7 DEF Static
<1>9. \A u \in Q : Becomes(u, "fail", st[u].i, st[u].key)
  <2> TAKE u \in Q
  <2>1. u \in Tasks /\ u # t /\ At(u, "none") /\ First(u) = "fail"
    BY <1>6
  <2>2. DOMAIN st[u] = {"pc", "i", "key"}
    BY <1>1, <2>1 DEF TypeOK
  <2>3. st'[u] = [st[u] EXCEPT !.pc = First(u)]
    BY <2>1 DEF LogFatal
  <2> QED
    BY <2>1, <2>2, <2>3 DEF Becomes
<1>10. \A u \in Tasks : u = t \/ u \in Q \/ st'[u] = st[u]
  BY DEF LogFatal
<1>11. \E l \in {"log", "set", "done"} : \E key \in Keys \cup {"none"} :
         /\ Becomes(t, l, st[t].i, key)
         /\ l = "log" => key \in Keys /\ key = parent[k]
  <2>1. \E end \in {"done", "set"} :
          st'[t] = IF parent[k] \in Keys THEN [st[t] EXCEPT !.key = parent[k]] ELSE [st[t] EXCEPT !.pc = end]
    <3> DEFINE new(end) == IF parent[k] \in Keys THEN [st[t] EXCEPT !.key = parent[k]] ELSE [st[t] EXCEPT !.pc = end]
               own(u)   == [st[u] EXCEPT !.pc = First(u)]
    <3>1. \E end \in {"done", "set"} :
            st' = [u \in Tasks |-> CASE u = t -> new(end)
                                     [] u \in FailQueues(k) /\ At(u, "none") -> own(u)
                                     [] OTHER -> st[u]]
      BY DEF LogFatal
    <3>0. t \notin FailQueues(k)
      BY <1>6
    <3> HIDE DEF new, own, k, Q
    <3>2. PICK end \in {"done", "set"} :
            st' = [u \in Tasks |-> CASE u = t -> new(end)
                                     [] u \in FailQueues(k) /\ At(u, "none") -> own(u)
                                     [] OTHER -> st[u]]
      BY <3>1
    <3>3. st'[t] = new(end)
      BY <3>0, <3>2
    <3> QED
      BY <3>3 DEF new
  <2>2. CASE parent[k] \in Keys
    <3>1. st'[t] = [st[t] EXCEPT !.key = parent[k]]
      BY <2>1, <2>2
    <3>2. Becomes(t, "log", st[t].i, parent[k])
      BY <1>1, <3>1 DEF Becomes, At
    <3> QED
      BY <2>2, <3>2
  <2>3. CASE parent[k] \notin Keys
    <3>1. PICK end \in {"done", "set"} : st'[t] = [st[t] EXCEPT !.pc = end]
      BY <2>1, <2>3
    <3>2. Becomes(t, end, st[t].i, k)
      BY <1>1, <3>1 DEF Becomes
    <3> QED
      BY <1>3, <3>2
  <2> QED
    BY <2>2, <2>3
<1>12. PICK l \in {"log", "set", "done"} : \E key \in Keys \cup {"none"} :
         /\ Becomes(t, l, st[t].i, key)
         /\ l = "log" => key \in Keys /\ key = parent[k]
  BY <1>11
<1>13. PICK key \in Keys \cup {"none"} :
         /\ Becomes(t, l, st[t].i, key)
         /\ l = "log" => key \in Keys /\ key = parent[k]
  BY <1>12
<1>14. l = "log" => key \in Keys /\ Bad(key) /\ node[key].exists
  <2> SUFFICES ASSUME l = "log"
               PROVE  key \in Keys /\ Bad(key) /\ node[key].exists
    OBVIOUS
  <2>1. key \in Keys /\ key = parent[k] /\ key \in Consumers
    BY <1>13, Known
  <2>2. PICK p \in DOMAIN deps[key] : deps[key][p] = k
    BY <1>3, <2>1 DEF Inv, FailureCaused
  <2>3. Bad(key)
    BY <1>1, <1>4, <2>1, <2>2, BadFacts
  <2> QED
    BY <1>3, <2>1, <2>3 DEF Inv, KnownNodes
<1> HIDE DEF Q
<1>15. CASE node[k].ready \/ node[k].failed
  <2>1. NodesKept({}) /\ Q = {}
    BY <1>3, <1>4, <1>5, <1>15, FailNodeEffect DEF Q
  <2>2. \A u \in Tasks : u = t \/ st'[u] = st[u]
    BY <1>10, <2>1
  <2>3. node[c].failed
    <3>1. ~node[c].ready
      BY <1>3 DEF Inv, FailureCaused
    <3> QED
      BY <1>3, <1>15, <3>1
  <2> HIDE DEF k
  <2>4. CASE t = Blk(c, 1)
    <3>1. BlksKept({Blk(c, 1)}) /\ ConsumesKept({}) /\ FailuresKept({})
      BY <1>1, <2>2, <2>4, OnlyBlk
    <3> QED
      BY <1>1, <1>3, <1>8, <1>13, <1>14, <2>1, <2>3, <2>4, <3>1, CreatorFailsNext DEF At
  <2>5. CASE t = Consume(c)
    <3>1. BlksKept({}) /\ ConsumesKept({c}) /\ FailuresKept({})
      BY <1>1, <2>2, <2>5, OnlyConsume
    <3> QED
      BY <1>1, <1>3, <1>8, <1>13, <1>14, <2>1, <2>3, <2>5, <3>1, ConsumerEndsNext DEF At
  <2> QED
    BY <1>2, <2>4, <2>5
<1>16. CASE ~node[k].ready /\ ~node[k].failed
  <2>1. NodesKept({k}) /\ NodeBecomes(k, node[k].queued, FALSE, TRUE, {}, {}) /\ Q = node[k].onfail
    BY <1>3, <1>4, <1>5, <1>16, FailNodeEffect DEF Q
  <2>2. t \notin Q
    BY <1>6 DEF Q
  <2>3. st[t].key = k
    OBVIOUS
  <2>6. /\ t \notin node[k].onfail
        /\ \A v \in Tasks : v = t \/ v \in node[k].onfail \/ st'[v] = st[v]
    BY <1>10, <2>1, <2>2 DEF Q
  <2>8. \A v \in node[k].onfail : Becomes(v, "fail", st[v].i, st[v].key)
    BY <1>9, <2>1 DEF Q
  <2>9. NodesKept({k}) /\ NodeBecomes(k, node[k].queued, FALSE, TRUE, {}, {}) /\ parent' = parent
    BY <1>1, <2>1
  <2>7. Becomes(t, l, st[t].i, key) /\ At(t, "log")
    BY <1>1, <1>13
  <2> HIDE DEF k
  <2>4. CASE t = Blk(c, 1)
    <3>1. /\ At(Blk(c, 1), "log") /\ st[Blk(c, 1)].key = k
          /\ Becomes(Blk(c, 1), l, st[Blk(c, 1)].i, key) /\ Blk(c, 1) \notin node[k].onfail
      BY <2>3, <2>4, <2>6, <2>7
    <3>2. \A v \in Tasks : v = Blk(c, 1) \/ v \in node[k].onfail \/ st'[v] = st[v]
      BY <2>4, <2>6
    <3> QED
      BY <1>3, <1>4, <1>8, <1>14, <1>16, <2>8, <2>9, <3>1, <3>2, CreatorFailsNodeNext
  <2>5. CASE t = Consume(c)
    <3>1. /\ At(Consume(c), "log") /\ st[Consume(c)].key = k
          /\ Becomes(Consume(c), l, st[Consume(c)].i, key) /\ Consume(c) \notin node[k].onfail
      BY <2>3, <2>5, <2>6, <2>7
    <3>2. \A v \in Tasks : v = Consume(c) \/ v \in node[k].onfail \/ st'[v] = st[v]
      BY <2>5, <2>6
    <3> QED
      BY <1>3, <1>4, <1>8, <1>14, <1>16, <2>8, <2>9, <3>1, <3>2, ConsumerFailsNodeNext
  <2> QED
    BY <1>2, <2>4, <2>5
<1> QED
  BY <1>15, <1>16

(* The failure function of a consumer. *)
LEMMA RunFailureInv ==
  ASSUME Inv, NEW t \in Tasks, RunFailure(t)
  PROVE  Inv'
<1>1. PICK c \in Keys \cup WithFail : t = FailOf(c) /\ t.c = c
  BY Kinds DEF RunFailure
<1>2. /\ TypeOK /\ [deps |-> deps, failing |-> failing] \in Problems
      /\ UNCHANGED <<deps, failing, parent, requests>> /\ requests' \subseteq Keys \X Keys
      /\ At(FailOf(c), "fail") /\ st[t].i \in Nat \ {0}
  BY <1>1, Known DEF RunFailure, TypeOK
<1>3. CASE c \notin Keys
  <2>1. Step(t, "done") /\ node' = node
    BY <1>1, <1>3 DEF RunFailure
  <2>2. /\ again' = again /\ DOMAIN st' = Tasks /\ Becomes(t, "done", st[t].i, st[t].key)
        /\ \A u \in Tasks : u = t \/ st'[u] = st[u]
    BY <1>2, <2>1, StepEffect DEF Step
  <2>3. Static /\ NodesKept({}) /\ BlksKept({}) /\ ConsumesKept({}) /\ FailuresKept({c})
    BY <1>1, <1>2, <2>1, <2>2, SameNodes, OnlyFail DEF Static
  <2> QED
    BY <1>1, <1>2, <1>3, <2>2, <2>3, FailureEndsNext
<1>4. CASE c \in Keys
  <2>1. node' = FailNode(c) /\ StepQueueing(t, "done", 1, FailQueues(c))
    BY <1>1, <1>4 DEF RunFailure
  <2>2. PICK p \in DOMAIN deps[c] : node[deps[c][p]].failed /\ st[Blk(c, p)].pc \in Registering
    BY <1>2 DEF Inv, FailureQueued, At
  <2>3. c \in Consumers /\ p \in Pos(c) /\ 1 \in Pos(c) /\ deps[c][p] \in Keys /\ (p # 1 => 1 < p)
    <3>1. c \in Consumers
      BY <1>4, Known
    <3>2. p \in Nat \ {0}
      BY <1>2, <3>1, DepsFacts
    <3> QED
      BY <3>1, <3>2, Known
  <2>4. Bad(c)
    BY <1>2, <2>2, <2>3, BadFacts DEF Inv, FailureCaused
  <2>5. node[c].exists
    <3>1. ~At(Blk(c, 1), "none")
      <4>1. CASE p = 1
        BY <2>2, <4>1 DEF At, Registering
      <4>2. CASE p # 1
        BY <2>2, <2>3, <4>2 DEF Inv, ChainInOrder, At, Registering, Passed
      <4> QED
        BY <4>1, <4>2
    <3> QED
      BY <1>4, <3>1 DEF Inv, CreatorOnce, KnownNodes
  <2>6. CASE node[c].ready \/ node[c].failed
    <3>1. NodesKept({}) /\ FailQueues(c) = {}
      BY <1>4, <2>1, <2>5, <2>6, FailNodeEffect
    <3>2. /\ again' = again /\ DOMAIN st' = Tasks /\ Becomes(t, "done", 1, st[t].key)
          /\ \A u \in Tasks : u = t \/ st'[u] = st[u]
      BY <1>2, <2>1, <3>1, StepEffect
    <3>3. Static /\ BlksKept({}) /\ ConsumesKept({}) /\ FailuresKept({c})
      BY <1>1, <1>2, <3>2, OnlyFail DEF Static
    <3> QED
      BY <1>1, <1>2, <2>6, <3>1, <3>2, <3>3, FailureEndsNext
  <2>7. CASE ~node[c].ready /\ ~node[c].failed
    <3> DEFINE Q == FailQueues(c)
    <3>1. NodesKept({c}) /\ NodeBecomes(c, node[c].queued, FALSE, TRUE, {}, {}) /\ Q = node[c].onfail
      BY <1>4, <2>1, <2>5, <2>7, FailNodeEffect
    <3>2. \A u \in node[c].onfail : At(u, "none") /\ \E d \in Keys \cup WithFail : u = FailOf(d)
      BY <1>4, <2>7, OnFailIdle
    <3>3. \A u \in Q : At(u, "none") /\ First(u) = "fail" /\ u \in Tasks /\ u # t
      BY <1>1, <1>2, <3>1, <3>2, TaskFacts, TaskSet DEF At
    <3>4. StepQueueing(t, "done", 1, Q)
      BY <2>1
    <3> HIDE DEF Q
    <3>5. /\ again' = again /\ DOMAIN st' = Tasks /\ Becomes(t, "done", 1, st[t].key)
          /\ \A u \in Q : Becomes(u, First(u), st[u].i, st[u].key)
          /\ \A u \in Tasks : u = t \/ u \in Q \/ st'[u] = st[u]
      BY <1>2, <3>3, <3>4, QueuesEffect
    <3>6. Static /\ \A u \in Q : Becomes(u, "fail", st[u].i, st[u].key)
      BY <1>2, <3>3, <3>5 DEF Static
    <3>7. /\ t \notin node[c].onfail
          /\ \A v \in node[c].onfail : Becomes(v, "fail", st[v].i, st[v].key)
          /\ \A v \in Tasks : v = t \/ v \in node[c].onfail \/ st'[v] = st[v]
      BY <3>1, <3>3, <3>5, <3>6
    <3>8. parent' = parent /\ 1 \in Nat \ {0}
      BY <1>2
    <3> QED
      BY <1>1, <1>2, <1>4, <2>4, <2>7, <3>1, <3>5, <3>6, <3>7, <3>8, FailureFailsNodeNext
  <2> QED
    BY <2>6, <2>7
<1> QED
  BY <1>3, <1>4

-----------------------------------------------------------------------------
(* At the start only the requests have something to run. *)
LEMMA InitInv == Init => Inv
<1> SUFFICES ASSUME Init
             PROVE  Inv
  OBVIOUS
<1>1. [deps |-> deps, failing |-> failing] \in Problems
  <2>1. PICK p \in Problems : deps = p.deps /\ failing = p.failing
    BY DEF Init
  <2>2. p \in [deps : [Consumers -> Seq(Keys)], failing : SUBSET Keys]
    BY ProblemAssumption
  <2>3. p = [deps |-> deps, failing |-> failing]
    BY <2>1, <2>2
  <2> QED
    BY <2>3
<1>2. DOMAIN node = Keys /\ \A k \in Keys : node[k] = NoNode
  BY DEF Init
<1>3. /\ DOMAIN NoNode = {"exists", "queued", "ready", "failed", "awaiting", "onfail"}
      /\ NoNode.exists = FALSE /\ NoNode.queued = FALSE /\ NoNode.ready = FALSE
      /\ NoNode.failed = FALSE
      /\ NoNode.awaiting = {} /\ NoNode.onfail = {}
  BY DEF NoNode
<1>4. /\ DOMAIN st = Tasks /\ again = {} /\ requests = {} /\ DOMAIN parent = Keys
      /\ parent = [k \in Keys |-> "none"] /\ \A k \in Keys : parent[k] = "none"
      /\ \A t \in Tasks : /\ DOMAIN st[t] = {"pc", "i", "key"}
                          /\ st[t].pc = (IF t.op = "call" THEN "ensure" ELSE "none") /\ st[t].i = 1 /\ st[t].key = "none"
  BY DEF Init
<1>5. /\ \A c \in Roots : Blk(c, 1).op = "call"
      /\ \A c \in Keys : Blk(c, 1).op = "create"
      /\ \A c, p : p # 1 => Blk(c, p).op = "chain"
      /\ \A c : Consume(c).op = "consume" /\ FailOf(c).op = "fail"
  BY <1>1, TaskSet DEF Blk, Consume, FailOf, Task
<1>6. /\ \A c \in Roots : At(Blk(c, 1), "ensure") /\ st[Blk(c, 1)].i = 1
      /\ \A c \in Keys : At(Blk(c, 1), "none") /\ st[Blk(c, 1)].i = 1
      /\ \A c \in Consumers : \A p \in Pos(c) : st[Blk(c, p)].i = 1 /\ (p # 1 => At(Blk(c, p), "none"))
      /\ \A c \in Consumers : At(Consume(c), "none")
      /\ \A c \in Keys \cup WithFail : At(FailOf(c), "none")
  <2>1. \A c \in Consumers : 1 \in Pos(c) /\ \A p \in Pos(c) : Blk(c, p) \in Tasks
    BY <1>1, TaskSet, DepsFacts
  <2>2. /\ \A c \in Roots : c \in Consumers
        /\ \A c \in Keys : c \in Consumers
        /\ \A c \in Consumers : Consume(c) \in Tasks
        /\ \A c \in Keys \cup WithFail : FailOf(c) \in Tasks
    BY <1>1, TaskSet
  <2>3. /\ \A c \in Roots : At(Blk(c, 1), "ensure") /\ st[Blk(c, 1)].i = 1
        /\ \A c \in Keys : At(Blk(c, 1), "none") /\ st[Blk(c, 1)].i = 1
    BY <1>4, <1>5, <2>1, <2>2 DEF At
  <2>4. \A c \in Consumers : \A p \in Pos(c) : st[Blk(c, p)].i = 1 /\ (p # 1 => At(Blk(c, p), "none"))
    BY <1>4, <1>5, <2>1 DEF At
  <2>5. /\ \A c \in Consumers : At(Consume(c), "none")
        /\ \A c \in Keys \cup WithFail : At(FailOf(c), "none")
    BY <1>4, <1>5, <2>2 DEF At
  <2> QED
    BY <2>3, <2>4, <2>5
<1>7. \A c \in Consumers : /\ 1 \in Pos(c) /\ (c \in Keys \/ c \in Roots)
                           /\ \A p \in DOMAIN deps[c] : p \in Pos(c) /\ p + 1 \in Pos(c) /\ p + 1 # 1 /\ ~(p < 1) /\ deps[c][p] \in Keys
                           /\ \A p \in Pos(c) : ~(p < 1)
  <2>1. \A c \in Consumers : Pos(c) \subseteq Nat \ {0}
    BY <1>1, DepsFacts DEF Pos
  <2>2. \A p \in Nat \ {0} : ~(p < 1)
    OBVIOUS
  <2> QED
    BY <1>1, <2>1, <2>2, DepsFacts, TaskSet
<1>8. TypeOK
  <2>1. \A k \in Keys : /\ DOMAIN node[k] = DOMAIN NoNode
                        /\ {node[k].exists, node[k].queued, node[k].ready, node[k].failed} \subseteq BOOLEAN
                        /\ node[k].awaiting \cup node[k].onfail \subseteq Tasks
    BY <1>2, <1>3
  <2>2. \A t \in Tasks : /\ DOMAIN st[t] = {"pc", "i", "key"}
                         /\ st[t].pc \in PCs /\ st[t].i \in Nat \ {0} /\ st[t].key \in Keys \cup {"none"}
    BY <1>4 DEF PCs
  <2>3. parent \in [Keys -> Consumers \cup {"none"}]
    BY <1>4
  <2> QED
    BY <1>1, <1>2, <1>4, <2>1, <2>2, <2>3 DEF TypeOK
<1>9. TaskShape
  BY <1>6, <1>7 DEF TaskShape, At, Asking, Waiting
<1>10. CreatorOnce
  BY <1>2, <1>3, <1>4, <1>6 DEF CreatorOnce
<1>11. ChainInOrder
  BY <1>6, <1>7 DEF ChainInOrder
<1>12. AwaitingLive /\ OnFailLive
  BY <1>2, <1>3 DEF AwaitingLive, OnFailLive
<1>13. FailureQueued
  BY <1>6 DEF FailureQueued
<1>14. DepsQueued
  <2>1. \A c \in Consumers : st[Blk(c, 1)].pc \in Asking => \A q \in DOMAIN deps[c] : ~(q < st[Blk(c, 1)].i)
    BY <1>6, <1>7
  <2>2. \A c \in Consumers : \A p \in Pos(c) : st[Blk(c, p)].pc \in {"ensure", "none"}
    BY <1>6, <1>7 DEF At
  <2>3. \A t : \A k \in Keys : t \notin node[k].awaiting
    BY <1>2, <1>3
  <2> QED
    BY <2>1, <2>2, <2>3 DEF DepsQueued, Waiting
<1>15. FailureRegistered
  <2>1. \A c \in Keys \cup WithFail : \A p \in DOMAIN deps[c] : /\ st[Blk(c, p)].pc \in {"ensure", "none"}
                                                               /\ node[deps[c][p]].awaiting = {}
    BY <1>1, <1>2, <1>3, <1>6, <1>7, TaskSet DEF At
  <2> QED
    BY <2>1 DEF FailureRegistered
<1>16. Somewhere
  <2>1. \A c \in Roots : Active(c)
    BY <1>1, <1>6, <1>7, TaskSet DEF Active, At, Stopped
  <2> QED
    BY <1>6, <1>7, <2>1 DEF Somewhere
<1>17. FailureCaused
  <2>1. \A k \in Keys : node[k].failed = FALSE /\ node[k].ready = FALSE /\ parent[k] \notin Keys
    BY <1>1, <1>2, <1>3, <1>4, TaskSet
  <2>2. \A t \in Tasks : ~At(t, "log") /\ ~At(t, "set")
    BY <1>4 DEF At
  <2> QED
    BY <2>1, <2>2 DEF FailureCaused
<1>18. ValueFromConsumer
  BY <1>2, <1>3, <1>6, <1>7, TaskSet, <1>1 DEF ValueFromConsumer, At
<1>19. KnownNodes
  <2>1. \A c \in Consumers : ~At(Blk(c, 1), "mark")
    BY <1>6, <1>7 DEF At
  <2>2. \A c \in Keys : ~At(Blk(c, 1), "log") /\ ~At(Consume(c), "log") /\ parent[c] \notin Keys
    BY <1>1, <1>4, <1>6, TaskSet DEF At
  <2>3. \A k \in Keys : /\ ~node[k].queued /\ ~node[k].ready /\ ~node[k].failed
                        /\ node[k].awaiting = {} /\ node[k].onfail = {}
    BY <1>2, <1>3
  <2> QED
    BY <2>1, <2>2, <2>3 DEF KnownNodes
<1> QED
  BY <1>8, <1>9, <1>10, <1>11, <1>12, <1>13, <1>14, <1>15, <1>16, <1>17, <1>18, <1>19 DEF Inv

(* Nothing changes when nothing is left to run. *)
LEMMA StutterInv ==
  ASSUME Inv, UNCHANGED vars
  PROVE  Inv'
<1>1. Tasks' = Tasks /\ \A c : Pos(c)' = Pos(c) /\ Bad(c)' = Bad(c)
  BY StaticFacts DEF vars
<1>2. \A t, l : At(t, l)' = At(t, l)
  BY DEF At, vars
<1>3. \A c : Active(c)' = Active(c) /\ Awaits(c)' = Awaits(c) /\ Refused(c)' = Refused(c)
  BY <1>1, <1>2 DEF Active, Awaits, Refused, Answerable, vars
<1>4. UNCHANGED <<deps, failing, node, st, again, parent, requests>>
  BY DEF vars
<1>5. TypeOK' /\ TaskShape'
  BY <1>1, <1>2, <1>4 DEF Inv, TypeOK, TaskShape
<1>6. CreatorOnce' /\ ChainInOrder' /\ AwaitingLive' /\ OnFailLive'
  BY <1>1, <1>2, <1>4 DEF Inv, CreatorOnce, ChainInOrder, AwaitingLive, OnFailLive
<1>7. FailureQueued' /\ DepsQueued' /\ FailureRegistered'
  BY <1>1, <1>2, <1>4 DEF Inv, FailureQueued, DepsQueued, FailureRegistered
<1>8. Somewhere'
  BY <1>1, <1>2, <1>3, <1>4 DEF Inv, Somewhere
<1>9. FailureCaused' /\ ValueFromConsumer' /\ KnownNodes'
  BY <1>1, <1>2, <1>4 DEF Inv, FailureCaused, ValueFromConsumer, KnownNodes
<1> QED
  BY <1>5, <1>6, <1>7, <1>8, <1>9 DEF Inv

(* The inductive invariant holds of the concurrent map. *)
THEOREM InvariantHolds == Spec => []Inv
<1>1. Inv /\ [Next]_vars => Inv'
  <2> SUFFICES ASSUME Inv, [Next]_vars
               PROVE  Inv'
    OBVIOUS
  <2>1. ASSUME NEW t \in Tasks, TaskStep(t)
        PROVE  Inv'
    BY <2>1, CreateInv, EnsureInv, AddKeyInv, QueueOnceInv, AllReadyInv, OnFailTestInv, OnFailureInv, AwaitTestInv,
       AwaitLockInv, RecordInv, SetAndQueueInv, ConsumeOtherInv, LogFatalInv, RunFailureInv DEF TaskStep
  <2>2. CASE Terminated
    BY <2>2, StutterInv DEF Terminated
  <2>3. CASE UNCHANGED vars
    BY <2>3, StutterInv
  <2> QED
    BY <2>1, <2>2, <2>3 DEF Next
<1> QED
  BY InitInv, <1>1, PTL DEF Spec

(* The map, its tasks and its bookkeeping have the types they should have,   *)
(* whatever the keys, the requests and the dependencies.                     *)
THEOREM TypeCorrect == Spec => []TypeOK
<1>1. Inv => TypeOK
  BY DEF Inv
<1> QED
  BY InvariantHolds, <1>1, PTL

(* The values a consumer is handed are there, however the creators and the   *)
(* requesters interleave.                                                    *)
THEOREM ConsumersGetValues == Spec => [](ConsumedValuesReady /\ NeverReadyAndFailed)
<1>1. Inv => ConsumedValuesReady /\ NeverReadyAndFailed
  <2> SUFFICES ASSUME Inv
               PROVE  ConsumedValuesReady /\ NeverReadyAndFailed
    OBVIOUS
  <2>1. \A c : Task("consume", c, 0) = Consume(c)
    BY DEF Consume
  <2> QED
    BY <2>1 DEF Inv, ChainInOrder, ValueFromConsumer, ConsumedValuesReady, NeverReadyAndFailed, Queued
<1> QED
  BY InvariantHolds, <1>1, PTL

(* No task is queued twice and no consumer is answered twice, whatever races *)
(* between requesters, setters and failures there are.                       *)
THEOREM NothingTwice == Spec => []AnsweredOnce
<1>1. Inv => AnsweredOnce
  <2> SUFFICES ASSUME Inv
               PROVE  AnsweredOnce
    OBVIOUS
  <2>1. again = {}
    BY DEF Inv, CreatorOnce
  <2>2. \A c : Task("consume", c, 0) = Consume(c) /\ Task("fail", c, 0) = FailOf(c)
    BY DEF Consume, FailOf
  <2>3. \A c \in Consumers : FailTasks(c) # {} => c \in Keys \cup WithFail
    BY Known, TaskSet
  <2>4. ASSUME NEW c \in Consumers, c \in Keys \cup WithFail, Queued(Consume(c)), Queued(FailOf(c))
        PROVE  FALSE
    <3>1. PICK p \in DOMAIN deps[c] : node[deps[c][p]].failed
      BY <2>4 DEF Inv, FailureQueued, Queued
    <3>2. node[deps[c][p]].ready
      BY <2>4 DEF Inv, ChainInOrder, Queued
    <3>3. deps[c][p] \in Keys
      BY Known
    <3> QED
      BY <3>1, <3>2, <3>3 DEF Inv, ValueFromConsumer
  <2> QED
    BY <2>1, <2>2, <2>3, <2>4 DEF AnsweredOnce
<1> QED
  BY InvariantHolds, <1>1, PTL

(* Whoever depends on a failing key is not handed a value. *)
LEMMA ReadyNotBad ==
  ASSUME Inv
  PROVE  /\ \A c \in Consumers : ~At(Consume(c), "none") => Reach(c) \cap failing = {}
         /\ \A k \in Keys : node[k].ready => ~Bad(k)
<1> DEFINE S == {k \in Keys : node[k].ready}
<1>1. \A c \in Consumers : ~At(Consume(c), "none") => \A p \in DOMAIN deps[c] : deps[c][p] \in S
  BY Known DEF Inv, ChainInOrder
<1>2. \A k \in S : k \in Consumers /\ ~At(Consume(k), "none") /\ k \notin failing
  BY Known DEF Inv, ValueFromConsumer, FailureCaused
<1>3. \A k \in S : \A p \in DOMAIN deps[k] : deps[k][p] \in S
  BY <1>1, <1>2
<1>4. S \in SUBSET Keys /\ S \cap failing = {}
  BY <1>2
<1> HIDE DEF S
<1>5. \A c \in Consumers : ~At(Consume(c), "none") => Reach(c) \subseteq S
  BY <1>1, <1>3, <1>4, Known, ReachFacts
<1>6. \A c \in Consumers : ~At(Consume(c), "none") => Reach(c) \cap failing = {}
  BY <1>4, <1>5
<1>7. \A k \in Keys : node[k].ready => k \in S
  BY DEF S
<1> QED
  BY <1>2, <1>6, <1>7 DEF Bad

(* When everything has run, no key that an acyclic request needs is still    *)
(* waiting for its own keys: the last of them would have got its answer.     *)
LEMMA NothingPending ==
  ASSUME Inv, Quiescent, NEW r \in Roots, Acyclic(r)
  PROVE  \A k \in Reach(r) : node[k].queued => node[k].ready \/ node[k].failed
<1> DEFINE B == {k \in Reach(r) : node[k].queued /\ ~node[k].ready /\ ~node[k].failed}
<1>0. /\ [deps |-> deps, failing |-> failing] \in Problems /\ r \in Consumers
      /\ Reach(r) \subseteq Keys
      /\ \A k \in Keys : k \in Consumers
  BY Known, TaskSet, ReachFacts
<1> SUFFICES ASSUME B # {}
             PROVE  FALSE
  OBVIOUS
<1>1. B \in SUBSET Reach(r)
  OBVIOUS
<1>2. PICK k \in B : Succ({k}) \cap B = {}
  BY <1>1 DEF Acyclic
<1>3. k \in Keys /\ k \in Consumers /\ k \in Reach(r) /\ node[k].queued /\ ~node[k].ready /\ ~node[k].failed
  BY <1>0, <1>2
<1>4. ~At(Blk(k, 1), "none")
  BY <1>3 DEF Inv, CreatorOnce
<1>5. ~Active(k)
  BY <1>3, Known DEF Active, Quiescent, Settled, At, Stopped
<1>6. ~Awaits(k)
  <2> SUFFICES ASSUME NEW p \in DOMAIN deps[k], Blk(k, p + 1) \in node[deps[k][p]].awaiting
               PROVE  FALSE
    BY DEF Awaits
  <2>1. deps[k][p] \in Keys /\ deps[k][p] \in Reach(r) /\ deps[k][p] \in Succ({k})
    BY <1>0, <1>3, Known, ReachFacts
  <2>2. deps[k][p] \in B
    BY <2>1 DEF Inv, AwaitingLive
  <2> QED
    BY <1>2, <2>1, <2>2
<1>7. ~Refused(k)
  <2> SUFFICES ASSUME ~At(FailOf(k), "none")
               PROVE  FALSE
    BY <1>3 DEF Refused, Answerable
  <2>1. At(FailOf(k), "done")
    BY <1>0, <1>3, TaskSet DEF Quiescent, Settled
  <2> QED
    BY <1>3, <2>1 DEF Inv, ValueFromConsumer
<1>8. At(Consume(k), "none")
  <2> SUFFICES ASSUME ~At(Consume(k), "none")
               PROVE  FALSE
    OBVIOUS
  <2>1. At(Consume(k), "done")
    BY <1>0, <1>3, TaskSet DEF Quiescent, Settled
  <2> QED
    BY <1>3, <2>1 DEF Inv, ValueFromConsumer
<1> QED
  BY <1>3, <1>4, <1>5, <1>6, <1>7, <1>8 DEF Inv, Somewhere

(* When everything has run, a request whose dependencies have no cycle has   *)
(* been answered, and rightly: by its failure function exactly if one of the *)
(* keys it needs fails.                                                      *)
THEOREM EveryRequestAnswered == Spec => []AnsweredWhenQuiescent
<1>1. Inv => AnsweredWhenQuiescent
  <2> SUFFICES ASSUME Inv, Quiescent, NEW r \in Roots, Acyclic(r)
               PROVE  /\ Queued(Consume(r)) <=> Reach(r) \cap failing = {}
                      /\ r \in WithFail => (Queued(FailOf(r)) <=> Reach(r) \cap failing # {})
    BY DEF AnsweredWhenQuiescent, Consume, FailOf
  <2>1. /\ [deps |-> deps, failing |-> failing] \in Problems /\ r \in Consumers /\ r \notin Keys
        /\ failing \subseteq Keys /\ 1 \in Pos(r)
    BY Known, TaskSet
  <2>2. Queued(Consume(r)) => Reach(r) \cap failing = {}
    BY <2>1, ReadyNotBad DEF Queued
  <2>3. (\E p \in DOMAIN deps[r] : node[deps[r][p]].failed) => Reach(r) \cap failing # {}
    <3> SUFFICES ASSUME NEW p \in DOMAIN deps[r], node[deps[r][p]].failed
                 PROVE  Reach(r) \cap failing # {}
      OBVIOUS
    <3>1. deps[r][p] \in Keys
      BY <2>1, Known
    <3>2. Bad(deps[r][p])
      BY <3>1 DEF Inv, FailureCaused
    <3>3. Bad(r)
      BY <2>1, <3>2, BadFacts
    <3> QED
      BY <2>1, <3>3 DEF Bad
  <2>4. Queued(Consume(r)) \/ Refused(r)
    <3>1. ~At(Blk(r, 1), "none")
      BY <2>1 DEF Inv, TaskShape, At, Asking, Waiting
    <3>2. ~Active(r)
      BY <2>1, Known DEF Active, Quiescent, Settled, At, Stopped
    <3>3. ~Awaits(r)
      <4> SUFFICES ASSUME NEW p \in DOMAIN deps[r], Blk(r, p + 1) \in node[deps[r][p]].awaiting
                   PROVE  FALSE
        BY DEF Awaits
      <4>1. deps[r][p] \in Keys /\ deps[r][p] \in Reach(r)
        BY <2>1, Known, ReachFacts
      <4> QED
        BY <4>1, NothingPending DEF Inv, AwaitingLive
    <3> QED
      BY <2>1, <3>1, <3>2, <3>3 DEF Inv, Somewhere, Queued
  <2>5. r \in WithFail /\ Queued(FailOf(r)) => Reach(r) \cap failing # {}
    BY <2>3 DEF Inv, FailureQueued, Queued
  <2>6. Refused(r) => Reach(r) \cap failing # {} /\ (r \in WithFail => Queued(FailOf(r)))
    BY <2>3 DEF Refused, Answerable, Queued
  <2> QED
    BY <2>2, <2>4, <2>5, <2>6
<1> QED
  BY InvariantHolds, <1>1, PTL
=============================================================================
