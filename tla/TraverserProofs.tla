-------------------------- MODULE TraverserProofs ---------------------------
(***************************************************************************)
(* Proofs about the traversal of the dependency graph (Traverser), for     *)
(* every acyclic graph, every set of targets and failing nodes and any     *)
(* number of threads: counts are exact, actions have their inputs, nothing *)
(* unneeded is done or done twice, and the flag tells the outcome.         *)
(*                                                                         *)
(* The inductive invariant Inv has one part for each thing that a task in  *)
(* the middle of its work relies on.  Each step of a task has a lemma, in  *)
(* which its effect is stated first and then each part of Inv follows.     *)
(***************************************************************************)
EXTENDS Traverser, FiniteSetTheorems, TLAPS

(* The nodes that are processed, and the task that makes an artifact available. *)
Makers == Acts \cup {x \in Arts : graph.builder[x] \notin Acts}
Maker(x) == IF graph.builder[x] \in Acts THEN Process(graph.builder[x]) ELSE Process(x)

(* A task is queued at most once, and then the node is marked. *)
QueuedOnce ==
  /\ again = {}
  /\ \A n \in Nodes : /\ n \in discovered <=> ~At(Visit(n), "none")
                      /\ n \in queued <=> ~At(Process(n), "none")
                      /\ n \in required <=> ~At(Visit(n), "none") /\ ~At(Visit(n), "queued")

(* What each kind of task does. *)
MainTask ==
  /\ st[Main].pc \in {"traverse", "queue_visit", "abort", "shutdown", "done"}
  /\ st[Main].todo \subseteq problem.targets
  /\ At(Main, "queue_visit") => st[Main].cur \in problem.targets \cap Arts
  /\ At(Main, "abort") => ~(problem.targets \subseteq Arts)
ArtifactVisit ==
  \A x \in Arts :
    /\ st[Visit(x)].pc \in {"none", "queued", "test", "queue_visit", "queue_process", "done"}
    /\ At(Visit(x), "queue_visit") => graph.builder[x] \in Acts /\ st[Visit(x)].cur = graph.builder[x]
    /\ At(Visit(x), "queue_process") => graph.builder[x] \notin Acts /\ st[Visit(x)].cur = x
ActionVisit ==
  \A a \in Acts :
    /\ st[Visit(a)].pc \in {"none", "queued", "deps", "queue_visit", "queue_process", "done"}
    /\ At(Visit(a), "queue_visit") => \E k \in DOMAIN graph.ins[a] : st[Visit(a)].cur = graph.ins[a][k]
    /\ At(Visit(a), "queue_process") => st[Visit(a)].cur = a
    /\ st[Visit(a)].pc \in {"none", "queued"} => st[Visit(a)].i = 1
    /\ st[Visit(a)].pc \in {"queue_process", "done"} => st[Visit(a)].i > Len(graph.ins[a])
Processing ==
  \A n \in Nodes :
    /\ st[Process(n)].pc \in {"none", "queued", "parents", "queue_process", "abort", "shutdown", "done"}
    /\ At(Process(n), "queue_process") => st[Process(n)].cur \in Acts
    /\ ~At(Process(n), "none") => n \in Makers
    /\ st[Process(n)].pc \in {"none", "queued", "abort", "shutdown", "done"} => st[Process(n)].todo = {}
    /\ st[Process(n)].pc \in {"none", "queued", "abort", "shutdown"} => st[Process(n)].i = 1
    /\ \A e \in st[Process(n)].todo :
         /\ e \in Edges /\ st[Process(n)].i - 1 \in DOMAIN Outputs(n)
         /\ graph.ins[e[1]][e[2]] = Outputs(n)[st[Process(n)].i - 1]
    /\ At(Process(n), "done") /\ ~failed => st[Process(n)].i > Len(Outputs(n))

(* The outputs of a node become available in order. *)
AvailableInOrder ==
  \A n \in Makers : \A k \in DOMAIN Outputs(n) :
    Outputs(n)[k] \in available <=> k < st[Process(n)].i

(* unavailable_deps_ counts the inputs whose notification is outstanding. *)
Outstanding(a) ==
  {k \in DOMAIN graph.ins[a] : \/ graph.ins[a][k] \notin available
                               \/ <<a, k>> \in st[Maker(graph.ins[a][k])].todo}
CountExact == \A a \in Acts : unavailable[a] = Cardinality(Outstanding(a))

Ready(a) == \A k \in DOMAIN graph.ins[a] : graph.ins[a][k] \in available
ReadyWhenQueued ==
  /\ \A a \in Acts : a \in queued => Ready(a)
  /\ \A t \in Tasks : At(t, "queue_process") /\ st[t].cur \in Acts => Ready(st[t].cur)

NeededOnly ==
  /\ discovered \subseteq Needed /\ queued \subseteq Needed
Cause == Needed \cap problem.bad # {} \/ ~(problem.targets \subseteq Arts)
FailedWithCause ==
  /\ failed => Cause
  /\ shutdown => failed
  /\ \A t \in Tasks : (At(t, "abort") => Cause) /\ (At(t, "shutdown") => failed)

(* Unless the traversal failed, nothing is forgotten. *)
TargetsDiscovered ==
  ~failed =>
    /\ \A x \in problem.targets \cap Arts :
         x \in discovered \/ x \in st[Main].todo \/ (At(Main, "queue_visit") /\ st[Main].cur = x)
    /\ At(Main, "done") => st[Main].todo = {}
InputsDiscovered ==
  ~failed =>
    \A a \in Acts : ~At(Visit(a), "none") /\ ~At(Visit(a), "queued") =>
      \A k \in DOMAIN graph.ins[a] : k < st[Visit(a)].i =>
        \/ graph.ins[a][k] \in available \cup discovered
        \/ At(Visit(a), "queue_visit") /\ st[Visit(a)].cur = graph.ins[a][k]
ArtifactsPursued ==
  ~failed =>
    \A x \in Arts : At(Visit(x), "done") =>
      x \in available \cup queued \/ graph.builder[x] \in discovered \cap Acts
ReadyPursued ==
  ~failed =>
    \A a \in required \cap Acts : unavailable[a] = 0 =>
      \/ a \in queued
      \/ \E t \in Tasks : At(t, "queue_process") /\ st[t].cur = a
      \/ st[Visit(a)].pc \in {"deps", "queue_visit"}

Inv ==
  /\ TypeOK /\ QueuedOnce /\ MainTask /\ ArtifactVisit /\ ActionVisit /\ Processing
  /\ AvailableInOrder /\ CountExact /\ ReadyWhenQueued /\ NeededOnly /\ FailedWithCause
  /\ TargetsDiscovered /\ InputsDiscovered /\ ArtifactsPursued /\ ReadyPursued

-----------------------------------------------------------------------------
(* Tasks are told apart by what they do and by their node. *)
LEMMA TaskFacts ==
  /\ \A n, m : Visit(n) = Visit(m) => n = m
  /\ \A n, m : Process(n) = Process(m) => n = m
  /\ \A n, m : Visit(n) # Process(m)
  /\ \A n : Visit(n) # Main /\ Process(n) # Main
  /\ \A n : Visit(n).op = "visit" /\ Visit(n).node = n
  /\ \A n : Process(n).op = "process" /\ Process(n).node = n
  /\ Main.op = "main"
BY DEF Visit, Process, Main

(* The tasks there are. *)
LEMMA TaskSet ==
  /\ Main \in Tasks
  /\ \A n \in Nodes : Visit(n) \in Tasks /\ Process(n) \in Tasks
  /\ \A t \in Tasks : t = Main \/ \E n \in Nodes : t = Visit(n) \/ t = Process(n)
  /\ \A n : n \in Nodes <=> n \in Arts \/ n \in Acts
  /\ \A n \in Makers : n \in Nodes
BY DEF Tasks, Nodes, Makers

(* The graph of the problem at hand is well-formed. *)
LEMMA WellFormedGraph ==
  ASSUME index \in DOMAIN Problems
  PROVE  /\ WellFormed(graph)
         /\ IsFiniteSet(Arts) /\ IsFiniteSet(Acts)
         /\ \A n : ~(n \in Arts /\ n \in Acts)
         /\ NoBuilder \notin Acts /\ "none" \notin Nodes
         /\ \A x \in Arts : graph.builder[x] \in Acts \cup {NoBuilder}
         /\ \A a \in Acts : graph.ins[a] \in Seq(Arts) /\ graph.outs[a] \in Seq(Arts)
         /\ \A a \in Acts : \A i, j \in DOMAIN graph.outs[a] : graph.outs[a][i] = graph.outs[a][j] => i = j
         /\ \A a \in Acts : \A x \in Arts :
              graph.builder[x] = a <=> \E i \in DOMAIN graph.outs[a] : graph.outs[a][i] = x
<1>1. WellFormed(graph) /\ "none" \notin Nodes
  BY ProblemAssumption DEF graph, problem, Nodes, Arts, Acts
<1> QED
  BY <1>1 DEF WellFormed, Arts, Acts

(* So it is in every state of the right types. *)
LEMMA GraphFacts ==
  ASSUME TypeOK
  PROVE  /\ WellFormed(graph)
         /\ IsFiniteSet(Arts) /\ IsFiniteSet(Acts)
         /\ \A n : ~(n \in Arts /\ n \in Acts)
         /\ NoBuilder \notin Acts /\ "none" \notin Nodes
         /\ \A x \in Arts : graph.builder[x] \in Acts \cup {NoBuilder}
         /\ \A a \in Acts : graph.ins[a] \in Seq(Arts) /\ graph.outs[a] \in Seq(Arts)
         /\ \A a \in Acts : \A i, j \in DOMAIN graph.outs[a] : graph.outs[a][i] = graph.outs[a][j] => i = j
         /\ \A a \in Acts : \A x \in Arts :
              graph.builder[x] = a <=> \E i \in DOMAIN graph.outs[a] : graph.outs[a][i] = x
BY WellFormedGraph DEF TypeOK

(* Every artifact is an output of one node that is processed. *)
LEMMA OutputFacts ==
  ASSUME TypeOK
  PROVE  /\ \A n \in Makers : Outputs(n) \in Seq(Arts)
         /\ \A n \in Makers : \A k \in DOMAIN Outputs(n) :
              Outputs(n)[k] \in Arts /\ Maker(Outputs(n)[k]) = Process(n)
         /\ \A n \in Makers : \A j, k \in DOMAIN Outputs(n) : Outputs(n)[j] = Outputs(n)[k] => j = k
         /\ \A x \in Arts : \E n \in Makers : Maker(x) = Process(n) /\ \E k \in DOMAIN Outputs(n) : Outputs(n)[k] = x
<1> USE GraphFacts
<1>1. ASSUME NEW a \in Acts
      PROVE  /\ Outputs(a) \in Seq(Arts)
             /\ \A k \in DOMAIN Outputs(a) : Outputs(a)[k] \in Arts /\ Maker(Outputs(a)[k]) = Process(a)
             /\ \A j, k \in DOMAIN Outputs(a) : Outputs(a)[j] = Outputs(a)[k] => j = k
  BY DEF Outputs, Maker
<1>2. ASSUME NEW x \in Arts, graph.builder[x] \notin Acts
      PROVE  /\ Outputs(x) = <<x>> /\ Maker(x) = Process(x) /\ x \in Makers
             /\ Outputs(x) \in Seq(Arts)
  <2>1. Outputs(x) = <<x>>
    BY <1>2 DEF Outputs
  <2>2. <<x>> \in Seq(Arts)
    OBVIOUS
  <2> QED
    BY <1>2, <2>1, <2>2 DEF Maker, Makers
<1>3. ASSUME NEW x \in Arts, graph.builder[x] \in Acts
      PROVE  /\ graph.builder[x] \in Makers /\ Maker(x) = Process(graph.builder[x])
             /\ \E k \in DOMAIN Outputs(graph.builder[x]) : Outputs(graph.builder[x])[k] = x
  BY <1>3 DEF Outputs, Maker, Makers
<1>4. \A n \in Makers : n \in Acts \/ (n \in Arts /\ graph.builder[n] \notin Acts)
  BY DEF Makers
<1>5. \A x : <<x>>[1] = x /\ DOMAIN <<x>> = {1}
  OBVIOUS
<1>7. ASSUME NEW n \in Makers
      PROVE  /\ Outputs(n) \in Seq(Arts)
             /\ \A k \in DOMAIN Outputs(n) : Outputs(n)[k] \in Arts /\ Maker(Outputs(n)[k]) = Process(n)
             /\ \A j, k \in DOMAIN Outputs(n) : Outputs(n)[j] = Outputs(n)[k] => j = k
  <2>1. CASE n \in Acts
    BY <1>1, <2>1
  <2>2. CASE n \in Arts /\ graph.builder[n] \notin Acts
    <3>1. Outputs(n) = <<n>> /\ Maker(n) = Process(n) /\ Outputs(n) \in Seq(Arts)
      BY <1>2, <2>2
    <3>2. DOMAIN Outputs(n) = {1} /\ Outputs(n)[1] = n
      BY <3>1, <1>5
    <3> QED
      BY <2>2, <3>1, <3>2
  <2> QED
    BY <1>4, <2>1, <2>2
<1>8. ASSUME NEW x \in Arts
      PROVE  \E n \in Makers : Maker(x) = Process(n) /\ \E k \in DOMAIN Outputs(n) : Outputs(n)[k] = x
  <2>1. CASE graph.builder[x] \in Acts
    BY <1>3, <2>1
  <2>2. CASE graph.builder[x] \notin Acts
    BY <1>2, <1>5, <2>2
  <2> QED
    BY <2>1, <2>2
<1> QED
  BY <1>7, <1>8

(* What is never changed. *)
LEMMA StaticFacts ==
  ASSUME UNCHANGED index
  PROVE  /\ UNCHANGED <<problem, graph, Arts, Acts, Nodes, Tasks, Edges, Makers, Needed, Cause>>
         /\ \A n : Outputs(n)' = Outputs(n) /\ Maker(n)' = Maker(n)
BY DEF problem, graph, Arts, Acts, Nodes, Tasks, Edges, Makers, Needed, Cause, Outputs, Maker

(* Which tasks come to which line, and with which node at hand. *)
LEMMA Kinds ==
  ASSUME Inv, NEW t \in Tasks
  PROVE  /\ At(t, "traverse") => t = Main
         /\ At(t, "test") => \E x \in Arts : t = Visit(x)
         /\ At(t, "deps") => \E a \in Acts : t = Visit(a)
         /\ At(t, "parents") => \E n \in Makers : t = Process(n)
         /\ At(t, "queue_visit") =>
              \/ t = Main /\ st[t].cur \in problem.targets \cap Arts
              \/ \E x \in Arts : t = Visit(x) /\ graph.builder[x] \in Acts /\ st[t].cur = graph.builder[x]
              \/ \E a \in Acts : t = Visit(a) /\ \E k \in DOMAIN graph.ins[a] : st[t].cur = graph.ins[a][k]
         /\ At(t, "queue_process") =>
              \/ \E x \in Arts : t = Visit(x) /\ graph.builder[x] \notin Acts /\ st[t].cur = x
              \/ \E a \in Acts : t = Visit(a) /\ st[t].cur = a
              \/ \E n \in Makers : t = Process(n) /\ st[t].cur \in Acts
<1>1. CASE t = Main
  BY <1>1 DEF Inv, MainTask, At
<1>2. CASE \E n \in Arts : t = Visit(n)
  BY <1>2 DEF Inv, ArtifactVisit, At
<1>3. CASE \E n \in Acts : t = Visit(n)
  BY <1>3 DEF Inv, ActionVisit, At
<1>4. CASE \E n \in Nodes : t = Process(n)
  BY <1>4 DEF Inv, Processing, At
<1> QED
  BY <1>1, <1>2, <1>3, <1>4, TaskSet

(* The needed nodes have the targets and what their nodes are made from, *)
(* and no smaller set does.                                              *)
LEMMA NeededFacts ==
  ASSUME TypeOK
  PROVE  /\ Needed \subseteq Nodes
         /\ problem.targets \cap Arts \subseteq Needed
         /\ \A x \in Needed \cap Arts : graph.builder[x] \in Acts => graph.builder[x] \in Needed
         /\ \A a \in Needed \cap Acts : \A k \in DOMAIN graph.ins[a] : graph.ins[a][k] \in Needed
         /\ \A S \in SUBSET Nodes :
              problem.targets \cap Arts \subseteq S /\ Below(graph, S) \subseteq S => Needed \subseteq S
<1>1. Needed = {n \in Nodes : \A S \in SUBSET Nodes :
                  problem.targets \cap Arts \subseteq S /\ Below(graph, S) \subseteq S => n \in S}
  BY DEF TypeOK, Needed, NeededOf, Nodes, Arts, Acts, graph, problem
<1>2. ASSUME NEW S \in SUBSET Nodes, Below(graph, S) \subseteq S
      PROVE  /\ \A x \in S \cap Arts : graph.builder[x] \in Acts => graph.builder[x] \in S
             /\ \A a \in S \cap Acts : \A k \in DOMAIN graph.ins[a] : graph.ins[a][k] \in S
  <2>1. ASSUME NEW n \in S
        PROVE (IF n \in Acts THEN {graph.ins[n][i] : i \in DOMAIN graph.ins[n]} ELSE {graph.builder[n]} \cap Acts) \subseteq S
    BY <1>2 DEF Below, Acts
  <2>2. ASSUME NEW a \in S \cap Acts, NEW k \in DOMAIN graph.ins[a]
        PROVE  graph.ins[a][k] \in S
    BY <2>1
  <2>3. ASSUME NEW x \in S \cap Arts, graph.builder[x] \in Acts
        PROVE  graph.builder[x] \in S
    <3>1. x \notin Acts
      BY GraphFacts
    <3> QED
      BY <2>1, <2>3, <3>1
  <2> QED
    BY <2>2, <2>3
<1>3. ASSUME NEW x \in Needed \cap Arts, graph.builder[x] \in Acts
      PROVE  graph.builder[x] \in Needed
  BY <1>1, <1>2, <1>3 DEF Nodes
<1>4. ASSUME NEW a \in Needed \cap Acts, NEW k \in DOMAIN graph.ins[a]
      PROVE  graph.ins[a][k] \in Needed
  <2>1. graph.ins[a][k] \in Nodes
    BY GraphFacts DEF Nodes
  <2> QED
    BY <1>1, <1>2, <2>1
<1>5. problem.targets \cap Arts \subseteq Needed
  BY <1>1 DEF Nodes
<1> QED
  BY <1>1, <1>3, <1>4, <1>5

(* The effect of a step on the tasks: only t changes. *)
Becomes(t, l, k, c, T) ==
  /\ DOMAIN st' = Tasks
  /\ \A v \in Tasks : v # t => st'[v] = st[v]
  /\ DOMAIN st'[t] = {"pc", "i", "cur", "todo"}
  /\ st'[t].pc = l /\ st'[t].i = k /\ st'[t].cur = c /\ st'[t].todo = T

(* A task that goes on to line l changes nothing else. *)
LEMMA GotoEffect ==
  ASSUME TypeOK, NEW t \in Tasks, NEW l, Goto(t, l)
  PROVE  Becomes(t, l, st[t].i, st[t].cur, st[t].todo)
BY DEF TypeOK, Goto, Becomes

(* A task that is queued for the first time goes to the task system. *)
Queues(t, l, u) ==
  /\ u \in Tasks /\ u # t /\ st[u].pc = "none" /\ DOMAIN st' = Tasks
  /\ \A v \in Tasks : v # t /\ v # u => st'[v] = st[v]
  /\ DOMAIN st'[t] = {"pc", "i", "cur", "todo"} /\ DOMAIN st'[u] = {"pc", "i", "cur", "todo"}
  /\ st'[t].pc = l /\ st'[t].i = st[t].i /\ st'[t].cur = st[t].cur /\ st'[t].todo = st[t].todo
  /\ st'[u].pc = "queued" /\ st'[u].i = st[u].i /\ st'[u].cur = st[u].cur /\ st'[u].todo = st[u].todo

(* QueueTask does so. *)
LEMMA QueueEffect ==
  ASSUME TypeOK, NEW t \in Tasks, NEW l, NEW u \in Tasks, u # t, At(u, "none"), QueueTask(t, l, u)
  PROVE  again' = again /\ Queues(t, l, u)
BY DEF TypeOK, QueueTask, At, Queues

(* What is available stays so, hence an action stays ready. *)
LEMMA ReadyKept ==
  ASSUME UNCHANGED index, available \subseteq available'
  PROVE  \A a : Ready(a) => Ready(a)'
BY StaticFacts DEF Ready

(* The counts stay exact while nothing is made available or notified. *)
LEMMA CountKept ==
  ASSUME TypeOK, CountExact, UNCHANGED <<index, available, unavailable>>,
         \A n \in Nodes : st'[Process(n)].todo = st[Process(n)].todo
  PROVE  CountExact'
<1>1. \A a \in Acts : \A k \in DOMAIN graph.ins[a] : \E n \in Nodes : Maker(graph.ins[a][k]) = Process(n)
  <2>1. \A x \in Arts : \E n \in Nodes : Maker(x) = Process(n)
    BY TaskSet DEF Maker
  <2> QED
    BY <2>1, GraphFacts
<1>2. \A a \in Acts : Outstanding(a)' = Outstanding(a)
  BY <1>1, StaticFacts DEF Outstanding
<1> QED
  BY <1>2, StaticFacts DEF CountExact


(* Once the count is zero, all inputs are available. *)
LEMMA CountZero ==
  ASSUME TypeOK, CountExact, NEW a \in Acts
  PROVE  /\ IsFiniteSet(Outstanding(a))
         /\ unavailable[a] = 0 => Ready(a)
<1>1. graph.ins[a] \in Seq(Arts)
  BY GraphFacts
<1>2. IsFiniteSet(1 .. Len(graph.ins[a]))
  BY <1>1, FS_Interval
<1>3. IsFiniteSet(Outstanding(a))
  <2>1. Outstanding(a) \subseteq 1 .. Len(graph.ins[a])
    BY <1>1 DEF Outstanding
  <2> QED
    BY <1>2, <2>1, FS_Subset
<1>4. ASSUME unavailable[a] = 0
      PROVE  Outstanding(a) = {}
  BY <1>3, <1>4, FS_EmptySet DEF CountExact
<1> QED
  BY <1>3, <1>4 DEF Outstanding, Ready

(* Abort sets the flag before the task system is shut down. *)
LEMMA AbortNext ==
  ASSUME Inv, NEW t \in Tasks, Abort(t)
  PROVE  Inv'
<1> USE DEF Becomes
<1>a. /\ At(t, "abort") /\ failed' = TRUE /\ Becomes(t, "shutdown", st[t].i, st[t].cur, st[t].todo)
  BY GotoEffect DEF Inv, Abort
<1>c. UNCHANGED <<index, discovered, queued, required, unavailable, available, shutdown, again>>
  BY DEF Abort, nodeVars
<1>d. /\ UNCHANGED <<problem, graph, Arts, Acts, Nodes, Tasks, Edges, Makers, Needed, Cause>>
      /\ \A n : Outputs(n)' = Outputs(n) /\ Maker(n)' = Maker(n)
  BY <1>c, StaticFacts
<1>1. TypeOK'
  BY <1>a, <1>c, <1>d DEF Inv, At, TypeOK, PCs
<1>2. QueuedOnce'
  BY <1>a, <1>c, <1>d, TaskFacts, TaskSet DEF Inv, At, QueuedOnce
<1>3. MainTask'
  BY <1>a, <1>c, <1>d, TaskFacts, TaskSet DEF Inv, At, MainTask
<1>4. ArtifactVisit'
  BY <1>a, <1>c, <1>d, TaskFacts, TaskSet DEF Inv, At, ArtifactVisit
<1>5. ActionVisit'
  BY <1>a, <1>c, <1>d, TaskFacts, TaskSet DEF Inv, At, ActionVisit
<1>6. Processing'
  BY <1>a, <1>c, <1>d, TaskFacts, TaskSet DEF Inv, At, Processing
<1>7. AvailableInOrder'
  BY <1>a, <1>c, <1>d, TaskFacts, TaskSet DEF Inv, At, AvailableInOrder
<1>8. CountExact'
  <2>1. \A n \in Nodes : st'[Process(n)].todo = st[Process(n)].todo
    BY <1>a, <1>c, <1>d, TaskFacts, TaskSet DEF Inv, TypeOK, At
  <2> QED
    BY <1>a, <1>c, <1>d, <2>1, CountKept DEF Inv
<1>9. ReadyWhenQueued'
  BY <1>a, <1>c, <1>d, ReadyKept, TaskSet DEF Inv, At, ReadyWhenQueued
<1>10. NeededOnly'
  BY <1>a, <1>c, <1>d, TaskFacts, TaskSet DEF Inv, At, NeededOnly
<1>11. FailedWithCause'
  BY <1>a, <1>c, <1>d, TaskFacts, TaskSet DEF Inv, At, FailedWithCause
<1>12. TargetsDiscovered'
  BY <1>a, <1>c, <1>d, TaskFacts, TaskSet DEF Inv, At, TargetsDiscovered
<1>13. InputsDiscovered'
  BY <1>a, <1>c, <1>d, TaskFacts, TaskSet DEF Inv, At, InputsDiscovered
<1>14. ArtifactsPursued'
  BY <1>a, <1>c, <1>d, TaskFacts, TaskSet DEF Inv, At, ArtifactsPursued
<1>15. ReadyPursued'
  BY <1>a, <1>c, <1>d, TaskFacts, TaskSet DEF Inv, At, ReadyPursued
<1> QED
  BY <1>1, <1>2, <1>3, <1>4, <1>5, <1>6, <1>7, <1>8, <1>9, <1>10, <1>11, <1>12, <1>13, <1>14, <1>15 DEF Inv

(* Only a task that has set the flag shuts the task system down. *)
LEMMA AbortShutdownNext ==
  ASSUME Inv, NEW t \in Tasks, AbortShutdown(t)
  PROVE  Inv'
<1> USE DEF Becomes
<1>a. /\ At(t, "shutdown") /\ failed /\ shutdown' = TRUE
      /\ Becomes(t, "done", st[t].i, st[t].cur, st[t].todo)
  BY GotoEffect DEF Inv, AbortShutdown, FailedWithCause
<1>c. UNCHANGED <<index, discovered, queued, required, unavailable, available, failed, again>>
  BY DEF AbortShutdown, nodeVars
<1>d. /\ UNCHANGED <<problem, graph, Arts, Acts, Nodes, Tasks, Edges, Makers, Needed, Cause>>
      /\ \A n : Outputs(n)' = Outputs(n) /\ Maker(n)' = Maker(n)
  BY <1>c, StaticFacts
<1>1. TypeOK'
  BY <1>a, <1>c, <1>d DEF Inv, At, TypeOK, PCs
<1>2. QueuedOnce'
  BY <1>a, <1>c, <1>d, TaskFacts, TaskSet DEF Inv, At, QueuedOnce
<1>3. MainTask'
  BY <1>a, <1>c, <1>d, TaskFacts, TaskSet DEF Inv, At, MainTask
<1>4. ArtifactVisit'
  BY <1>a, <1>c, <1>d, TaskFacts, TaskSet DEF Inv, At, ArtifactVisit
<1>5. ActionVisit'
  BY <1>a, <1>c, <1>d, TaskFacts, TaskSet DEF Inv, At, ActionVisit
<1>6. Processing'
  BY <1>a, <1>c, <1>d, TaskFacts, TaskSet DEF Inv, At, Processing
<1>7. AvailableInOrder'
  BY <1>a, <1>c, <1>d, TaskFacts, TaskSet DEF Inv, At, AvailableInOrder
<1>8. CountExact'
  <2>1. \A n \in Nodes : st'[Process(n)].todo = st[Process(n)].todo
    BY <1>a, <1>c, <1>d, TaskFacts, TaskSet DEF Inv, TypeOK, At
  <2> QED
    BY <1>a, <1>c, <1>d, <2>1, CountKept DEF Inv
<1>9. ReadyWhenQueued'
  BY <1>a, <1>c, <1>d, ReadyKept, TaskSet DEF Inv, At, ReadyWhenQueued
<1>10. NeededOnly'
  BY <1>a, <1>c, <1>d, TaskFacts, TaskSet DEF Inv, At, NeededOnly
<1>11. FailedWithCause'
  BY <1>a, <1>c, <1>d, TaskFacts, TaskSet DEF Inv, At, FailedWithCause
<1>12. TargetsDiscovered'
  BY <1>a, <1>c, <1>d, TaskFacts, TaskSet DEF Inv, At, TargetsDiscovered
<1>13. InputsDiscovered'
  BY <1>a, <1>c, <1>d, TaskFacts, TaskSet DEF Inv, At, InputsDiscovered
<1>14. ArtifactsPursued'
  BY <1>a, <1>c, <1>d, TaskFacts, TaskSet DEF Inv, At, ArtifactsPursued
<1>15. ReadyPursued'
  BY <1>a, <1>c, <1>d, TaskFacts, TaskSet DEF Inv, At, ReadyPursued
<1> QED
  BY <1>1, <1>2, <1>3, <1>4, <1>5, <1>6, <1>7, <1>8, <1>9, <1>10, <1>11, <1>12, <1>13, <1>14, <1>15 DEF Inv

(* The main task has visited all targets. *)
LEMMA TraverseEndsNext ==
  ASSUME Inv, NEW t \in Tasks, At(t, "traverse"), st[t].todo = {}, Goto(t, "done"),
         UNCHANGED <<index, nodeVars, poolVars>>
  PROVE  Inv'
<1> USE DEF Becomes
<1>a. /\ t = Main /\ At(t, "traverse") /\ st[t].todo = {}
      /\ Becomes(t, "done", st[t].i, st[t].cur, {})
  BY GotoEffect, Kinds DEF Inv, Becomes
<1>c. UNCHANGED <<index, discovered, queued, required, unavailable, available, failed, shutdown, again>>
  BY DEF nodeVars, poolVars
<1>d. /\ UNCHANGED <<problem, graph, Arts, Acts, Nodes, Tasks, Edges, Makers, Needed, Cause>>
      /\ \A n : Outputs(n)' = Outputs(n) /\ Maker(n)' = Maker(n)
  BY <1>c, StaticFacts
<1>1. TypeOK'
  BY <1>a, <1>c, <1>d DEF Inv, At, TypeOK, PCs
<1>2. QueuedOnce'
  BY <1>a, <1>c, <1>d, TaskFacts, TaskSet DEF Inv, At, QueuedOnce
<1>3. MainTask'
  BY <1>a, <1>c, <1>d, TaskFacts, TaskSet DEF Inv, At, MainTask
<1>4. ArtifactVisit'
  BY <1>a, <1>c, <1>d, TaskFacts, TaskSet DEF Inv, At, ArtifactVisit
<1>5. ActionVisit'
  BY <1>a, <1>c, <1>d, TaskFacts, TaskSet DEF Inv, At, ActionVisit
<1>6. Processing'
  BY <1>a, <1>c, <1>d, TaskFacts, TaskSet DEF Inv, At, Processing
<1>7. AvailableInOrder'
  BY <1>a, <1>c, <1>d, TaskFacts, TaskSet DEF Inv, At, AvailableInOrder
<1>8. CountExact'
  <2>1. \A n \in Nodes : st'[Process(n)].todo = st[Process(n)].todo
    BY <1>a, <1>c, <1>d, TaskFacts, TaskSet DEF Inv, TypeOK, At
  <2> QED
    BY <1>a, <1>c, <1>d, <2>1, CountKept DEF Inv
<1>9. ReadyWhenQueued'
  BY <1>a, <1>c, <1>d, ReadyKept, TaskSet DEF Inv, At, ReadyWhenQueued
<1>10. NeededOnly'
  BY <1>a, <1>c, <1>d, TaskFacts, TaskSet DEF Inv, At, NeededOnly
<1>11. FailedWithCause'
  BY <1>a, <1>c, <1>d, TaskFacts, TaskSet DEF Inv, At, FailedWithCause
<1>12. TargetsDiscovered'
  BY <1>a, <1>c, <1>d, TaskFacts, TaskSet DEF Inv, At, TargetsDiscovered
<1>13. InputsDiscovered'
  BY <1>a, <1>c, <1>d, TaskFacts, TaskSet DEF Inv, At, InputsDiscovered
<1>14. ArtifactsPursued'
  BY <1>a, <1>c, <1>d, TaskFacts, TaskSet DEF Inv, At, ArtifactsPursued
<1>15. ReadyPursued'
  BY <1>a, <1>c, <1>d, TaskFacts, TaskSet DEF Inv, At, ReadyPursued
<1> QED
  BY <1>1, <1>2, <1>3, <1>4, <1>5, <1>6, <1>7, <1>8, <1>9, <1>10, <1>11, <1>12, <1>13, <1>14, <1>15 DEF Inv

(* The main task takes the next target. *)
LEMMA TraverseTargetNext ==
  ASSUME Inv, NEW t \in Tasks, At(t, "traverse"), NEW x \in st[t].todo,
         st' = [st EXCEPT ![t].pc = IF x \in Arts THEN "queue_visit" ELSE "abort",
                          ![t].cur = x, ![t].todo = @ \ {x}],
         UNCHANGED <<index, nodeVars, poolVars>>
  PROVE  Inv'
<1> USE DEF Becomes
<1>a. /\ t = Main /\ At(t, "traverse") /\ x \in st[t].todo /\ x \in problem.targets
      /\ st[t].todo \subseteq problem.targets
      /\ Becomes(t, IF x \in Arts THEN "queue_visit" ELSE "abort", st[t].i, x, st[t].todo \ {x})
  BY Kinds DEF Inv, TypeOK, MainTask, Becomes
<1>e. x \notin Arts => Cause
  BY <1>a DEF Cause
<1>c. UNCHANGED <<index, discovered, queued, required, unavailable, available, failed, shutdown, again>>
  BY DEF nodeVars, poolVars
<1>d. /\ UNCHANGED <<problem, graph, Arts, Acts, Nodes, Tasks, Edges, Makers, Needed, Cause>>
      /\ \A n : Outputs(n)' = Outputs(n) /\ Maker(n)' = Maker(n)
  BY <1>c, StaticFacts
<1>1. TypeOK'
  BY <1>a, <1>e, <1>c, <1>d DEF Inv, At, TypeOK, PCs
<1>2. QueuedOnce'
  BY <1>a, <1>e, <1>c, <1>d, TaskFacts, TaskSet DEF Inv, At, QueuedOnce
<1>3. MainTask'
  BY <1>a, <1>e, <1>c, <1>d, TaskFacts, TaskSet DEF Inv, At, MainTask
<1>4. ArtifactVisit'
  BY <1>a, <1>e, <1>c, <1>d, TaskFacts, TaskSet DEF Inv, At, ArtifactVisit
<1>5. ActionVisit'
  BY <1>a, <1>e, <1>c, <1>d, TaskFacts, TaskSet DEF Inv, At, ActionVisit
<1>6. Processing'
  BY <1>a, <1>e, <1>c, <1>d, TaskFacts, TaskSet DEF Inv, At, Processing
<1>7. AvailableInOrder'
  BY <1>a, <1>e, <1>c, <1>d, TaskFacts, TaskSet DEF Inv, At, AvailableInOrder
<1>8. CountExact'
  <2>1. \A n \in Nodes : st'[Process(n)].todo = st[Process(n)].todo
    BY <1>a, <1>e, <1>c, <1>d, TaskFacts, TaskSet DEF Inv, TypeOK, At
  <2> QED
    BY <1>a, <1>e, <1>c, <1>d, <2>1, CountKept DEF Inv
<1>9. ReadyWhenQueued'
  BY <1>a, <1>e, <1>c, <1>d, ReadyKept, TaskSet DEF Inv, At, ReadyWhenQueued
<1>10. NeededOnly'
  BY <1>a, <1>e, <1>c, <1>d, TaskFacts, TaskSet DEF Inv, At, NeededOnly
<1>11. FailedWithCause'
  BY <1>a, <1>e, <1>c, <1>d, TaskFacts, TaskSet DEF Inv, At, FailedWithCause
<1>12. TargetsDiscovered'
  BY <1>a, <1>e, <1>c, <1>d, TaskFacts, TaskSet DEF Inv, At, TargetsDiscovered
<1>13. InputsDiscovered'
  BY <1>a, <1>e, <1>c, <1>d, TaskFacts, TaskSet DEF Inv, At, InputsDiscovered
<1>14. ArtifactsPursued'
  BY <1>a, <1>e, <1>c, <1>d, TaskFacts, TaskSet DEF Inv, At, ArtifactsPursued
<1>15. ReadyPursued'
  BY <1>a, <1>e, <1>c, <1>d, TaskFacts, TaskSet DEF Inv, At, ReadyPursued
<1> QED
  BY <1>1, <1>2, <1>3, <1>4, <1>5, <1>6, <1>7, <1>8, <1>9, <1>10, <1>11, <1>12, <1>13, <1>14, <1>15 DEF Inv

(* The visit of an artifact begins. *)
LEMMA MarkRequiredArtNext ==
  ASSUME Inv, NEW t \in Tasks, NEW x \in Arts, t = Visit(x), MarkRequired(t)
  PROVE  Inv'
<1> USE DEF Becomes
<1>a. /\ t = Visit(x) /\ At(t, "queued") /\ x \in Nodes /\ required' = required \cup {x}
      /\ Becomes(t, "test", st[t].i, st[t].cur, st[t].todo)
  BY GotoEffect, TaskFacts, TaskSet DEF Inv, MarkRequired, Starts
<1>c. UNCHANGED <<index, discovered, queued, unavailable, available, failed, shutdown, again>>
  BY DEF MarkRequired, poolVars
<1>e. /\ x \notin Acts /\ (\A b \in Acts : Visit(b) # t) /\ (\A y \in Arts : y # x => Visit(y) # t)
      /\ Main # t /\ \A m : Process(m) # t
  BY <1>a, TaskFacts, GraphFacts DEF Inv
<1>d. /\ UNCHANGED <<problem, graph, Arts, Acts, Nodes, Tasks, Edges, Makers, Needed, Cause>>
      /\ \A n : Outputs(n)' = Outputs(n) /\ Maker(n)' = Maker(n)
  BY <1>c, StaticFacts
<1>1. TypeOK'
  BY <1>a, <1>c, <1>e, <1>d DEF Inv, At, TypeOK, PCs
<1>2. QueuedOnce'
  BY <1>a, <1>c, <1>e, <1>d, TaskFacts, TaskSet DEF Inv, At, QueuedOnce
<1>3. MainTask'
  BY <1>a, <1>c, <1>e, <1>d, TaskFacts, TaskSet DEF Inv, At, MainTask
<1>4. ArtifactVisit'
  BY <1>a, <1>c, <1>e, <1>d, TaskFacts, TaskSet DEF Inv, At, ArtifactVisit
<1>5. ActionVisit'
  BY <1>a, <1>c, <1>e, <1>d, TaskFacts, TaskSet DEF Inv, At, ActionVisit
<1>6. Processing'
  BY <1>a, <1>c, <1>e, <1>d, TaskFacts, TaskSet DEF Inv, At, Processing
<1>7. AvailableInOrder'
  BY <1>a, <1>c, <1>e, <1>d, TaskFacts, TaskSet DEF Inv, At, AvailableInOrder
<1>8. CountExact'
  <2>1. \A n \in Nodes : st'[Process(n)].todo = st[Process(n)].todo
    BY <1>a, <1>c, <1>e, <1>d, TaskFacts, TaskSet DEF Inv, TypeOK, At
  <2> QED
    BY <1>a, <1>c, <1>e, <1>d, <2>1, CountKept DEF Inv
<1>9. ReadyWhenQueued'
  BY <1>a, <1>c, <1>e, <1>d, ReadyKept, TaskSet DEF Inv, At, ReadyWhenQueued
<1>10. NeededOnly'
  BY <1>a, <1>c, <1>e, <1>d, TaskFacts, TaskSet DEF Inv, At, NeededOnly
<1>11. FailedWithCause'
  BY <1>a, <1>c, <1>e, <1>d, TaskFacts, TaskSet DEF Inv, At, FailedWithCause
<1>12. TargetsDiscovered'
  BY <1>a, <1>c, <1>e, <1>d, TaskFacts, TaskSet DEF Inv, At, TargetsDiscovered
<1>13. InputsDiscovered'
  BY <1>a, <1>c, <1>e, <1>d, TaskFacts, TaskSet DEF Inv, At, InputsDiscovered
<1>14. ArtifactsPursued'
  BY <1>a, <1>c, <1>e, <1>d, TaskFacts, TaskSet DEF Inv, At, ArtifactsPursued
<1>15. ReadyPursued'
  BY <1>a, <1>c, <1>e, <1>d, TaskFacts, TaskSet DEF Inv, At, ReadyPursued
<1> QED
  BY <1>1, <1>2, <1>3, <1>4, <1>5, <1>6, <1>7, <1>8, <1>9, <1>10, <1>11, <1>12, <1>13, <1>14, <1>15 DEF Inv

(* The visit of an action begins. *)
LEMMA MarkRequiredActNext ==
  ASSUME Inv, NEW t \in Tasks, NEW x \in Acts, t = Visit(x), MarkRequired(t)
  PROVE  Inv'
<1> USE DEF Becomes
<1>a. /\ t = Visit(x) /\ At(t, "queued") /\ x \in Nodes /\ x \notin Arts
      /\ required' = required \cup {x} /\ Becomes(t, "deps", st[t].i, st[t].cur, st[t].todo)
  BY GotoEffect, TaskFacts, TaskSet, GraphFacts DEF Inv, MarkRequired, Starts
<1>c. UNCHANGED <<index, discovered, queued, unavailable, available, failed, shutdown, again>>
  BY DEF MarkRequired, poolVars
<1>e. /\ x \notin Arts /\ (\A b \in Arts : Visit(b) # t) /\ (\A y \in Acts : y # x => Visit(y) # t)
      /\ Main # t /\ \A m : Process(m) # t
  BY <1>a, TaskFacts, GraphFacts DEF Inv
<1>f. /\ \A k \in DOMAIN graph.ins[x] : k \in Nat \ {0} /\ ~(k < 1)
      /\ st[t].i = 1
  BY <1>a, GraphFacts DEF Inv, ActionVisit, At
<1>d. /\ UNCHANGED <<problem, graph, Arts, Acts, Nodes, Tasks, Edges, Makers, Needed, Cause>>
      /\ \A n : Outputs(n)' = Outputs(n) /\ Maker(n)' = Maker(n)
  BY <1>c, StaticFacts
<1>1. TypeOK'
  BY <1>a, <1>c, <1>e, <1>f, <1>d DEF Inv, At, TypeOK, PCs
<1>2. QueuedOnce'
  BY <1>a, <1>c, <1>e, <1>f, <1>d, TaskFacts, TaskSet DEF Inv, At, QueuedOnce
<1>3. MainTask'
  BY <1>a, <1>c, <1>e, <1>f, <1>d, TaskFacts, TaskSet DEF Inv, At, MainTask
<1>4. ArtifactVisit'
  BY <1>a, <1>c, <1>e, <1>f, <1>d, TaskFacts, TaskSet DEF Inv, At, ArtifactVisit
<1>5. ActionVisit'
  BY <1>a, <1>c, <1>e, <1>f, <1>d, TaskFacts, TaskSet DEF Inv, At, ActionVisit
<1>6. Processing'
  BY <1>a, <1>c, <1>e, <1>f, <1>d, TaskFacts, TaskSet DEF Inv, At, Processing
<1>7. AvailableInOrder'
  BY <1>a, <1>c, <1>e, <1>f, <1>d, TaskFacts, TaskSet DEF Inv, At, AvailableInOrder
<1>8. CountExact'
  <2>1. \A n \in Nodes : st'[Process(n)].todo = st[Process(n)].todo
    BY <1>a, <1>c, <1>e, <1>f, <1>d, TaskFacts, TaskSet DEF Inv, TypeOK, At
  <2> QED
    BY <1>a, <1>c, <1>e, <1>f, <1>d, <2>1, CountKept DEF Inv
<1>9. ReadyWhenQueued'
  BY <1>a, <1>c, <1>e, <1>f, <1>d, ReadyKept, TaskSet DEF Inv, At, ReadyWhenQueued
<1>10. NeededOnly'
  BY <1>a, <1>c, <1>e, <1>f, <1>d, TaskFacts, TaskSet DEF Inv, At, NeededOnly
<1>11. FailedWithCause'
  BY <1>a, <1>c, <1>e, <1>f, <1>d, TaskFacts, TaskSet DEF Inv, At, FailedWithCause
<1>12. TargetsDiscovered'
  BY <1>a, <1>c, <1>e, <1>f, <1>d, TaskFacts, TaskSet DEF Inv, At, TargetsDiscovered
<1>13. InputsDiscovered'
  BY <1>a, <1>c, <1>e, <1>f, <1>d, TaskFacts, TaskSet DEF Inv, At, InputsDiscovered
<1>14. ArtifactsPursued'
  BY <1>a, <1>c, <1>e, <1>f, <1>d, TaskFacts, TaskSet DEF Inv, At, ArtifactsPursued
<1>15. ReadyPursued'
  BY <1>a, <1>c, <1>e, <1>f, <1>d, TaskFacts, TaskSet DEF Inv, At, ReadyPursued
<1> QED
  BY <1>1, <1>2, <1>3, <1>4, <1>5, <1>6, <1>7, <1>8, <1>9, <1>10, <1>11, <1>12, <1>13, <1>14, <1>15 DEF Inv

(* The visited artifact was made meanwhile. *)
LEMMA VisitBuiltNext ==
  ASSUME Inv, NEW t \in Tasks, NEW x \in available, x \in Arts, t = Visit(x), At(t, "test"),
         Goto(t, "done"), UNCHANGED <<index, nodeVars, poolVars>>
  PROVE  Inv'
<1> USE DEF Becomes
<1>a. /\ t = Visit(x) /\ x \in Nodes /\ Becomes(t, "done", st[t].i, st[t].cur, st[t].todo)
  BY GotoEffect, TaskFacts, TaskSet DEF Inv
<1>c. UNCHANGED <<index, discovered, queued, required, unavailable, available, failed, shutdown, again>>
  BY DEF nodeVars, poolVars
<1>e. /\ x \notin Acts /\ (\A b \in Acts : Visit(b) # t) /\ (\A y \in Arts : y # x => Visit(y) # t)
      /\ Main # t /\ \A m : Process(m) # t
  BY <1>a, TaskFacts, GraphFacts DEF Inv
<1>d. /\ UNCHANGED <<problem, graph, Arts, Acts, Nodes, Tasks, Edges, Makers, Needed, Cause>>
      /\ \A n : Outputs(n)' = Outputs(n) /\ Maker(n)' = Maker(n)
  BY <1>c, StaticFacts
<1>1. TypeOK'
  BY <1>a, <1>c, <1>e, <1>d DEF Inv, At, TypeOK, PCs
<1>2. QueuedOnce'
  BY <1>a, <1>c, <1>e, <1>d, TaskFacts, TaskSet DEF Inv, At, QueuedOnce
<1>3. MainTask'
  BY <1>a, <1>c, <1>e, <1>d, TaskFacts, TaskSet DEF Inv, At, MainTask
<1>4. ArtifactVisit'
  BY <1>a, <1>c, <1>e, <1>d, TaskFacts, TaskSet DEF Inv, At, ArtifactVisit
<1>5. ActionVisit'
  BY <1>a, <1>c, <1>e, <1>d, TaskFacts, TaskSet DEF Inv, At, ActionVisit
<1>6. Processing'
  BY <1>a, <1>c, <1>e, <1>d, TaskFacts, TaskSet DEF Inv, At, Processing
<1>7. AvailableInOrder'
  BY <1>a, <1>c, <1>e, <1>d, TaskFacts, TaskSet DEF Inv, At, AvailableInOrder
<1>8. CountExact'
  <2>1. \A n \in Nodes : st'[Process(n)].todo = st[Process(n)].todo
    BY <1>a, <1>c, <1>e, <1>d, TaskFacts, TaskSet DEF Inv, TypeOK, At
  <2> QED
    BY <1>a, <1>c, <1>e, <1>d, <2>1, CountKept DEF Inv
<1>9. ReadyWhenQueued'
  BY <1>a, <1>c, <1>e, <1>d, ReadyKept, TaskSet DEF Inv, At, ReadyWhenQueued
<1>10. NeededOnly'
  BY <1>a, <1>c, <1>e, <1>d, TaskFacts, TaskSet DEF Inv, At, NeededOnly
<1>11. FailedWithCause'
  BY <1>a, <1>c, <1>e, <1>d, TaskFacts, TaskSet DEF Inv, At, FailedWithCause
<1>12. TargetsDiscovered'
  BY <1>a, <1>c, <1>e, <1>d, TaskFacts, TaskSet DEF Inv, At, TargetsDiscovered
<1>13. InputsDiscovered'
  BY <1>a, <1>c, <1>e, <1>d, TaskFacts, TaskSet DEF Inv, At, InputsDiscovered
<1>14. ArtifactsPursued'
  BY <1>a, <1>c, <1>e, <1>d, TaskFacts, TaskSet DEF Inv, At, ArtifactsPursued
<1>15. ReadyPursued'
  BY <1>a, <1>c, <1>e, <1>d, TaskFacts, TaskSet DEF Inv, At, ReadyPursued
<1> QED
  BY <1>1, <1>2, <1>3, <1>4, <1>5, <1>6, <1>7, <1>8, <1>9, <1>10, <1>11, <1>12, <1>13, <1>14, <1>15 DEF Inv

(* The builder of the visited artifact is next, or the artifact itself. *)
LEMMA VisitMissingNext ==
  ASSUME Inv, NEW t \in Tasks, NEW x \in Arts, x \notin available, t = Visit(x), At(t, "test"),
         st' = [st EXCEPT ![t].pc  = IF graph.builder[x] \in Acts THEN "queue_visit" ELSE "queue_process",
                          ![t].cur = IF graph.builder[x] \in Acts THEN graph.builder[x] ELSE x],
         UNCHANGED <<index, nodeVars, poolVars>>
  PROVE  Inv'
<1> USE DEF Becomes
<1>a. /\ t = Visit(x) /\ x \in Nodes
      /\ Becomes(t, IF graph.builder[x] \in Acts THEN "queue_visit" ELSE "queue_process", st[t].i,
                 IF graph.builder[x] \in Acts THEN graph.builder[x] ELSE x, st[t].todo)
  BY TaskFacts, TaskSet DEF Inv, TypeOK, Becomes
<1>c. UNCHANGED <<index, discovered, queued, required, unavailable, available, failed, shutdown, again>>
  BY DEF nodeVars, poolVars
<1>e. /\ x \notin Acts /\ (\A b \in Acts : Visit(b) # t) /\ (\A y \in Arts : y # x => Visit(y) # t)
      /\ Main # t /\ \A m : Process(m) # t
  BY <1>a, TaskFacts, GraphFacts DEF Inv
<1>d. /\ UNCHANGED <<problem, graph, Arts, Acts, Nodes, Tasks, Edges, Makers, Needed, Cause>>
      /\ \A n : Outputs(n)' = Outputs(n) /\ Maker(n)' = Maker(n)
  BY <1>c, StaticFacts
<1>1. TypeOK'
  BY <1>a, <1>c, <1>e, <1>d DEF Inv, At, TypeOK, PCs
<1>2. QueuedOnce'
  BY <1>a, <1>c, <1>e, <1>d, TaskFacts, TaskSet DEF Inv, At, QueuedOnce
<1>3. MainTask'
  BY <1>a, <1>c, <1>e, <1>d, TaskFacts, TaskSet DEF Inv, At, MainTask
<1>4. ArtifactVisit'
  BY <1>a, <1>c, <1>e, <1>d, TaskFacts, TaskSet DEF Inv, At, ArtifactVisit
<1>5. ActionVisit'
  BY <1>a, <1>c, <1>e, <1>d, TaskFacts, TaskSet DEF Inv, At, ActionVisit
<1>6. Processing'
  BY <1>a, <1>c, <1>e, <1>d, TaskFacts, TaskSet DEF Inv, At, Processing
<1>7. AvailableInOrder'
  BY <1>a, <1>c, <1>e, <1>d, TaskFacts, TaskSet DEF Inv, At, AvailableInOrder
<1>8. CountExact'
  <2>1. \A n \in Nodes : st'[Process(n)].todo = st[Process(n)].todo
    BY <1>a, <1>c, <1>e, <1>d, TaskFacts, TaskSet DEF Inv, TypeOK, At
  <2> QED
    BY <1>a, <1>c, <1>e, <1>d, <2>1, CountKept DEF Inv
<1>9. ReadyWhenQueued'
  BY <1>a, <1>c, <1>e, <1>d, ReadyKept, TaskSet DEF Inv, At, ReadyWhenQueued
<1>10. NeededOnly'
  BY <1>a, <1>c, <1>e, <1>d, TaskFacts, TaskSet DEF Inv, At, NeededOnly
<1>11. FailedWithCause'
  BY <1>a, <1>c, <1>e, <1>d, TaskFacts, TaskSet DEF Inv, At, FailedWithCause
<1>12. TargetsDiscovered'
  BY <1>a, <1>c, <1>e, <1>d, TaskFacts, TaskSet DEF Inv, At, TargetsDiscovered
<1>13. InputsDiscovered'
  BY <1>a, <1>c, <1>e, <1>d, TaskFacts, TaskSet DEF Inv, At, InputsDiscovered
<1>14. ArtifactsPursued'
  BY <1>a, <1>c, <1>e, <1>d, TaskFacts, TaskSet DEF Inv, At, ArtifactsPursued
<1>15. ReadyPursued'
  BY <1>a, <1>c, <1>e, <1>d, TaskFacts, TaskSet DEF Inv, At, ReadyPursued
<1> QED
  BY <1>1, <1>2, <1>3, <1>4, <1>5, <1>6, <1>7, <1>8, <1>9, <1>10, <1>11, <1>12, <1>13, <1>14, <1>15 DEF Inv

(* The next input of the visited action is available. *)
LEMMA DependencyThereNext ==
  ASSUME Inv, NEW t \in Tasks, NEW a \in Acts, t = Visit(a), At(t, "deps"),
         NEW k \in DOMAIN graph.ins[a], st[t].i = k,
         NEW x \in Arts, graph.ins[a][k] = x, x \in available, NEW j \in Nat \ {0},
         \A q \in DOMAIN graph.ins[a] : q < j => q < k \/ q = k,
         Becomes(t, "deps", j, x, st[t].todo), UNCHANGED <<index, nodeVars, poolVars>>
  PROVE  Inv'
<1> USE DEF Becomes
<1>a. /\ a \in Nodes /\ t = Visit(a) /\ At(t, "deps") /\ x \in Nodes
  BY TaskSet
<1>c. UNCHANGED <<index, discovered, queued, required, unavailable, available, failed, shutdown, again>>
  BY DEF nodeVars, poolVars
<1>e. /\ a \notin Arts /\ (\A b \in Arts : Visit(b) # t) /\ (\A y \in Acts : y # a => Visit(y) # t)
      /\ Main # t /\ \A m : Process(m) # t
  BY <1>a, TaskFacts, GraphFacts DEF Inv
<1>d. /\ UNCHANGED <<problem, graph, Arts, Acts, Nodes, Tasks, Edges, Makers, Needed, Cause>>
      /\ \A n : Outputs(n)' = Outputs(n) /\ Maker(n)' = Maker(n)
  BY <1>c, StaticFacts
<1>1. TypeOK'
  BY <1>a, <1>c, <1>e, <1>d DEF Inv, At, TypeOK, PCs
<1>2. QueuedOnce'
  BY <1>a, <1>c, <1>e, <1>d, TaskFacts, TaskSet DEF Inv, At, QueuedOnce
<1>3. MainTask'
  BY <1>a, <1>c, <1>e, <1>d, TaskFacts, TaskSet DEF Inv, At, MainTask
<1>4. ArtifactVisit'
  BY <1>a, <1>c, <1>e, <1>d, TaskFacts, TaskSet DEF Inv, At, ArtifactVisit
<1>5. ActionVisit'
  BY <1>a, <1>c, <1>e, <1>d, TaskFacts, TaskSet DEF Inv, At, ActionVisit
<1>6. Processing'
  BY <1>a, <1>c, <1>e, <1>d, TaskFacts, TaskSet DEF Inv, At, Processing
<1>7. AvailableInOrder'
  BY <1>a, <1>c, <1>e, <1>d, TaskFacts, TaskSet DEF Inv, At, AvailableInOrder
<1>8. CountExact'
  <2>1. \A n \in Nodes : st'[Process(n)].todo = st[Process(n)].todo
    BY <1>a, <1>c, <1>e, <1>d, TaskFacts, TaskSet DEF Inv, TypeOK, At
  <2> QED
    BY <1>a, <1>c, <1>e, <1>d, <2>1, CountKept DEF Inv
<1>9. ReadyWhenQueued'
  BY <1>a, <1>c, <1>e, <1>d, ReadyKept, TaskSet DEF Inv, At, ReadyWhenQueued
<1>10. NeededOnly'
  BY <1>a, <1>c, <1>e, <1>d, TaskFacts, TaskSet DEF Inv, At, NeededOnly
<1>11. FailedWithCause'
  BY <1>a, <1>c, <1>e, <1>d, TaskFacts, TaskSet DEF Inv, At, FailedWithCause
<1>12. TargetsDiscovered'
  BY <1>a, <1>c, <1>e, <1>d, TaskFacts, TaskSet DEF Inv, At, TargetsDiscovered
<1>13. InputsDiscovered'
  BY <1>a, <1>c, <1>e, <1>d, TaskFacts, TaskSet DEF Inv, At, InputsDiscovered
<1>14. ArtifactsPursued'
  BY <1>a, <1>c, <1>e, <1>d, TaskFacts, TaskSet DEF Inv, At, ArtifactsPursued
<1>15. ReadyPursued'
  BY <1>a, <1>c, <1>e, <1>d, TaskFacts, TaskSet DEF Inv, At, ReadyPursued
<1> QED
  BY <1>1, <1>2, <1>3, <1>4, <1>5, <1>6, <1>7, <1>8, <1>9, <1>10, <1>11, <1>12, <1>13, <1>14, <1>15 DEF Inv

(* The next input of the visited action is visited. *)
LEMMA DependencyMissingNext ==
  ASSUME Inv, NEW t \in Tasks, NEW a \in Acts, t = Visit(a), At(t, "deps"),
         NEW k \in DOMAIN graph.ins[a], st[t].i = k,
         NEW x \in Arts, graph.ins[a][k] = x, x \notin available, NEW j \in Nat \ {0},
         \A q \in DOMAIN graph.ins[a] : q < j => q < k \/ q = k,
         Becomes(t, "queue_visit", j, x, st[t].todo), UNCHANGED <<index, nodeVars, poolVars>>
  PROVE  Inv'
<1> USE DEF Becomes
<1>a. /\ a \in Nodes /\ t = Visit(a) /\ At(t, "deps") /\ x \in Nodes
  BY TaskSet
<1>c. UNCHANGED <<index, discovered, queued, required, unavailable, available, failed, shutdown, again>>
  BY DEF nodeVars, poolVars
<1>e. /\ a \notin Arts /\ (\A b \in Arts : Visit(b) # t) /\ (\A y \in Acts : y # a => Visit(y) # t)
      /\ Main # t /\ \A m : Process(m) # t
  BY <1>a, TaskFacts, GraphFacts DEF Inv
<1>d. /\ UNCHANGED <<problem, graph, Arts, Acts, Nodes, Tasks, Edges, Makers, Needed, Cause>>
      /\ \A n : Outputs(n)' = Outputs(n) /\ Maker(n)' = Maker(n)
  BY <1>c, StaticFacts
<1>1. TypeOK'
  BY <1>a, <1>c, <1>e, <1>d DEF Inv, At, TypeOK, PCs
<1>2. QueuedOnce'
  BY <1>a, <1>c, <1>e, <1>d, TaskFacts, TaskSet DEF Inv, At, QueuedOnce
<1>3. MainTask'
  BY <1>a, <1>c, <1>e, <1>d, TaskFacts, TaskSet DEF Inv, At, MainTask
<1>4. ArtifactVisit'
  BY <1>a, <1>c, <1>e, <1>d, TaskFacts, TaskSet DEF Inv, At, ArtifactVisit
<1>5. ActionVisit'
  BY <1>a, <1>c, <1>e, <1>d, TaskFacts, TaskSet DEF Inv, At, ActionVisit
<1>6. Processing'
  BY <1>a, <1>c, <1>e, <1>d, TaskFacts, TaskSet DEF Inv, At, Processing
<1>7. AvailableInOrder'
  BY <1>a, <1>c, <1>e, <1>d, TaskFacts, TaskSet DEF Inv, At, AvailableInOrder
<1>8. CountExact'
  <2>1. \A n \in Nodes : st'[Process(n)].todo = st[Process(n)].todo
    BY <1>a, <1>c, <1>e, <1>d, TaskFacts, TaskSet DEF Inv, TypeOK, At
  <2> QED
    BY <1>a, <1>c, <1>e, <1>d, <2>1, CountKept DEF Inv
<1>9. ReadyWhenQueued'
  BY <1>a, <1>c, <1>e, <1>d, ReadyKept, TaskSet DEF Inv, At, ReadyWhenQueued
<1>10. NeededOnly'
  BY <1>a, <1>c, <1>e, <1>d, TaskFacts, TaskSet DEF Inv, At, NeededOnly
<1>11. FailedWithCause'
  BY <1>a, <1>c, <1>e, <1>d, TaskFacts, TaskSet DEF Inv, At, FailedWithCause
<1>12. TargetsDiscovered'
  BY <1>a, <1>c, <1>e, <1>d, TaskFacts, TaskSet DEF Inv, At, TargetsDiscovered
<1>13. InputsDiscovered'
  BY <1>a, <1>c, <1>e, <1>d, TaskFacts, TaskSet DEF Inv, At, InputsDiscovered
<1>14. ArtifactsPursued'
  BY <1>a, <1>c, <1>e, <1>d, TaskFacts, TaskSet DEF Inv, At, ArtifactsPursued
<1>15. ReadyPursued'
  BY <1>a, <1>c, <1>e, <1>d, TaskFacts, TaskSet DEF Inv, At, ReadyPursued
<1> QED
  BY <1>1, <1>2, <1>3, <1>4, <1>5, <1>6, <1>7, <1>8, <1>9, <1>10, <1>11, <1>12, <1>13, <1>14, <1>15 DEF Inv

(* All notifications came before the visit. *)
LEMMA VisitReadyNext ==
  ASSUME Inv, NEW t \in Tasks, NEW a \in Acts, t = Visit(a), At(t, "deps"),
         st[t].i > Len(graph.ins[a]), unavailable[a] = 0,
         st' = [st EXCEPT ![t].pc = "queue_process", ![t].cur = a],
         UNCHANGED <<index, nodeVars, poolVars>>
  PROVE  Inv'
<1> USE DEF Becomes
<1>a. /\ t = Visit(a) /\ a \in Nodes /\ Becomes(t, "queue_process", st[t].i, a, st[t].todo)
  BY TaskFacts, TaskSet, GraphFacts DEF Inv, TypeOK, Becomes
<1>c. UNCHANGED <<index, discovered, queued, required, unavailable, available, failed, shutdown, again>>
  BY DEF nodeVars, poolVars
<1>e. /\ a \notin Arts /\ (\A b \in Arts : Visit(b) # t) /\ (\A y \in Acts : y # a => Visit(y) # t)
      /\ Main # t /\ \A m : Process(m) # t
  BY <1>a, TaskFacts, GraphFacts DEF Inv
<1>d. /\ UNCHANGED <<problem, graph, Arts, Acts, Nodes, Tasks, Edges, Makers, Needed, Cause>>
      /\ \A n : Outputs(n)' = Outputs(n) /\ Maker(n)' = Maker(n)
  BY <1>c, StaticFacts
<1>1. TypeOK'
  BY <1>a, <1>c, <1>e, <1>d DEF Inv, At, TypeOK, PCs
<1>2. QueuedOnce'
  BY <1>a, <1>c, <1>e, <1>d, TaskFacts, TaskSet DEF Inv, At, QueuedOnce
<1>3. MainTask'
  BY <1>a, <1>c, <1>e, <1>d, TaskFacts, TaskSet DEF Inv, At, MainTask
<1>4. ArtifactVisit'
  BY <1>a, <1>c, <1>e, <1>d, TaskFacts, TaskSet DEF Inv, At, ArtifactVisit
<1>5. ActionVisit'
  BY <1>a, <1>c, <1>e, <1>d, TaskFacts, TaskSet DEF Inv, At, ActionVisit
<1>6. Processing'
  BY <1>a, <1>c, <1>e, <1>d, TaskFacts, TaskSet DEF Inv, At, Processing
<1>7. AvailableInOrder'
  BY <1>a, <1>c, <1>e, <1>d, TaskFacts, TaskSet DEF Inv, At, AvailableInOrder
<1>8. CountExact'
  <2>1. \A n \in Nodes : st'[Process(n)].todo = st[Process(n)].todo
    BY <1>a, <1>c, <1>e, <1>d, TaskFacts, TaskSet DEF Inv, TypeOK, At
  <2> QED
    BY <1>a, <1>c, <1>e, <1>d, <2>1, CountKept DEF Inv
<1>9. ReadyWhenQueued'
  BY <1>a, <1>c, <1>e, <1>d, TaskFacts, TaskSet, ReadyKept, CountZero DEF Inv, At, ReadyWhenQueued
<1>10. NeededOnly'
  BY <1>a, <1>c, <1>e, <1>d, TaskFacts, TaskSet DEF Inv, At, NeededOnly
<1>11. FailedWithCause'
  BY <1>a, <1>c, <1>e, <1>d, TaskFacts, TaskSet DEF Inv, At, FailedWithCause
<1>12. TargetsDiscovered'
  BY <1>a, <1>c, <1>e, <1>d, TaskFacts, TaskSet DEF Inv, At, TargetsDiscovered
<1>13. InputsDiscovered'
  BY <1>a, <1>c, <1>e, <1>d, TaskFacts, TaskSet DEF Inv, At, InputsDiscovered
<1>14. ArtifactsPursued'
  BY <1>a, <1>c, <1>e, <1>d, TaskFacts, TaskSet DEF Inv, At, ArtifactsPursued
<1>15. ReadyPursued'
  BY <1>a, <1>c, <1>e, <1>d, TaskFacts, TaskSet DEF Inv, At, ReadyPursued
<1> QED
  BY <1>1, <1>2, <1>3, <1>4, <1>5, <1>6, <1>7, <1>8, <1>9, <1>10, <1>11, <1>12, <1>13, <1>14, <1>15 DEF Inv

(* The visited action waits for notifications. *)
LEMMA VisitWaitsNext ==
  ASSUME Inv, NEW t \in Tasks, NEW a \in Acts, t = Visit(a), At(t, "deps"),
         st[t].i > Len(graph.ins[a]), unavailable[a] # 0,
         Goto(t, "done"), UNCHANGED <<index, nodeVars, poolVars>>
  PROVE  Inv'
<1> USE DEF Becomes
<1>a. /\ t = Visit(a) /\ a \in Nodes /\ Becomes(t, "done", st[t].i, st[t].cur, st[t].todo)
  BY GotoEffect, TaskSet DEF Inv
<1>c. UNCHANGED <<index, discovered, queued, required, unavailable, available, failed, shutdown, again>>
  BY DEF nodeVars, poolVars
<1>e. /\ a \notin Arts /\ (\A b \in Arts : Visit(b) # t) /\ (\A y \in Acts : y # a => Visit(y) # t)
      /\ Main # t /\ \A m : Process(m) # t
  BY <1>a, TaskFacts, GraphFacts DEF Inv
<1>d. /\ UNCHANGED <<problem, graph, Arts, Acts, Nodes, Tasks, Edges, Makers, Needed, Cause>>
      /\ \A n : Outputs(n)' = Outputs(n) /\ Maker(n)' = Maker(n)
  BY <1>c, StaticFacts
<1>1. TypeOK'
  BY <1>a, <1>c, <1>e, <1>d DEF Inv, At, TypeOK, PCs
<1>2. QueuedOnce'
  BY <1>a, <1>c, <1>e, <1>d, TaskFacts, TaskSet DEF Inv, At, QueuedOnce
<1>3. MainTask'
  BY <1>a, <1>c, <1>e, <1>d, TaskFacts, TaskSet DEF Inv, At, MainTask
<1>4. ArtifactVisit'
  BY <1>a, <1>c, <1>e, <1>d, TaskFacts, TaskSet DEF Inv, At, ArtifactVisit
<1>5. ActionVisit'
  BY <1>a, <1>c, <1>e, <1>d, TaskFacts, TaskSet DEF Inv, At, ActionVisit
<1>6. Processing'
  BY <1>a, <1>c, <1>e, <1>d, TaskFacts, TaskSet DEF Inv, At, Processing
<1>7. AvailableInOrder'
  BY <1>a, <1>c, <1>e, <1>d, TaskFacts, TaskSet DEF Inv, At, AvailableInOrder
<1>8. CountExact'
  <2>1. \A n \in Nodes : st'[Process(n)].todo = st[Process(n)].todo
    BY <1>a, <1>c, <1>e, <1>d, TaskFacts, TaskSet DEF Inv, TypeOK, At
  <2> QED
    BY <1>a, <1>c, <1>e, <1>d, <2>1, CountKept DEF Inv
<1>9. ReadyWhenQueued'
  BY <1>a, <1>c, <1>e, <1>d, ReadyKept, TaskSet DEF Inv, At, ReadyWhenQueued
<1>10. NeededOnly'
  BY <1>a, <1>c, <1>e, <1>d, TaskFacts, TaskSet DEF Inv, At, NeededOnly
<1>11. FailedWithCause'
  BY <1>a, <1>c, <1>e, <1>d, TaskFacts, TaskSet DEF Inv, At, FailedWithCause
<1>12. TargetsDiscovered'
  BY <1>a, <1>c, <1>e, <1>d, TaskFacts, TaskSet DEF Inv, At, TargetsDiscovered
<1>13. InputsDiscovered'
  BY <1>a, <1>c, <1>e, <1>d, TaskFacts, TaskSet DEF Inv, At, InputsDiscovered
<1>14. ArtifactsPursued'
  BY <1>a, <1>c, <1>e, <1>d, TaskFacts, TaskSet DEF Inv, At, ArtifactsPursued
<1>15. ReadyPursued'
  BY <1>a, <1>c, <1>e, <1>d, TaskFacts, TaskSet DEF Inv, At, ReadyPursued
<1> QED
  BY <1>1, <1>2, <1>3, <1>4, <1>5, <1>6, <1>7, <1>8, <1>9, <1>10, <1>11, <1>12, <1>13, <1>14, <1>15 DEF Inv

(* A node is processed. *)
LEMMA ProcessesNext ==
  ASSUME Inv, NEW t \in Tasks, NEW n \in Nodes, t = Process(n), RunProcess(t)
  PROVE  Inv'
<1> USE DEF Becomes
<1>a. /\ t = Process(n) /\ n \in Nodes /\ At(t, "queued") /\ n \in Makers /\ n \in queued
      /\ n \in Needed /\ (n \in problem.bad => Cause)
      /\ Becomes(t, IF n \in problem.bad THEN "abort" ELSE "parents", st[t].i, st[t].cur, st[t].todo)
  BY GotoEffect, TaskFacts, TaskSet DEF Inv, RunProcess, Starts, QueuedOnce, NeededOnly, Processing, At, Cause
<1>c. UNCHANGED <<index, discovered, queued, required, unavailable, available, failed, shutdown, again>>
  BY DEF RunProcess, nodeVars, poolVars
<1>d. /\ UNCHANGED <<problem, graph, Arts, Acts, Nodes, Tasks, Edges, Makers, Needed, Cause>>
      /\ \A m : Outputs(m)' = Outputs(m) /\ Maker(m)' = Maker(m)
  BY <1>c, StaticFacts
<1>1. TypeOK'
  BY <1>a, <1>c, <1>d DEF Inv, At, TypeOK, PCs
<1>2. QueuedOnce'
  BY <1>a, <1>c, <1>d, TaskFacts, TaskSet DEF Inv, At, QueuedOnce
<1>3. MainTask'
  BY <1>a, <1>c, <1>d, TaskFacts, TaskSet DEF Inv, At, MainTask
<1>4. ArtifactVisit'
  BY <1>a, <1>c, <1>d, TaskFacts, TaskSet DEF Inv, At, ArtifactVisit
<1>5. ActionVisit'
  BY <1>a, <1>c, <1>d, TaskFacts, TaskSet DEF Inv, At, ActionVisit
<1>6. Processing'
  BY <1>a, <1>c, <1>d, TaskFacts, TaskSet DEF Inv, At, Processing
<1>7. AvailableInOrder'
  BY <1>a, <1>c, <1>d, TaskFacts, TaskSet DEF Inv, At, AvailableInOrder
<1>8. CountExact'
  <2>1. \A m \in Nodes : st'[Process(m)].todo = st[Process(m)].todo
    BY <1>a, <1>c, <1>d, TaskFacts, TaskSet DEF Inv, TypeOK, At
  <2> QED
    BY <1>a, <1>c, <1>d, <2>1, CountKept DEF Inv
<1>9. ReadyWhenQueued'
  BY <1>a, <1>c, <1>d, ReadyKept, TaskSet DEF Inv, At, ReadyWhenQueued
<1>10. NeededOnly'
  BY <1>a, <1>c, <1>d, TaskFacts, TaskSet DEF Inv, At, NeededOnly
<1>11. FailedWithCause'
  BY <1>a, <1>c, <1>d, TaskFacts, TaskSet DEF Inv, At, FailedWithCause
<1>12. TargetsDiscovered'
  BY <1>a, <1>c, <1>d, TaskFacts, TaskSet DEF Inv, At, TargetsDiscovered
<1>13. InputsDiscovered'
  BY <1>a, <1>c, <1>d, TaskFacts, TaskSet DEF Inv, At, InputsDiscovered
<1>14. ArtifactsPursued'
  BY <1>a, <1>c, <1>d, TaskFacts, TaskSet DEF Inv, At, ArtifactsPursued
<1>15. ReadyPursued'
  BY <1>a, <1>c, <1>d, TaskFacts, TaskSet DEF Inv, At, ReadyPursued
<1> QED
  BY <1>1, <1>2, <1>3, <1>4, <1>5, <1>6, <1>7, <1>8, <1>9, <1>10, <1>11, <1>12, <1>13, <1>14, <1>15 DEF Inv

(* All consumers of all outputs are notified. *)
LEMMA NotifiedAllNext ==
  ASSUME Inv, NEW t \in Tasks, NEW n \in Nodes, t = Process(n), NotifiedAll(t)
  PROVE  Inv'
<1> USE DEF Becomes
<1>a. /\ t = Process(n) /\ n \in Nodes /\ n \in Makers /\ At(t, "parents") /\ st[t].todo = {}
      /\ st[t].i > Len(Outputs(n))
      /\ Becomes(t, "done", st[t].i, st[t].cur, st[t].todo)
  BY GotoEffect, TaskFacts, TaskSet, Kinds DEF Inv, NotifiedAll
<1>c. UNCHANGED <<index, discovered, queued, required, unavailable, available, failed, shutdown, again>>
  BY DEF NotifiedAll, nodeVars, poolVars
<1>d. /\ UNCHANGED <<problem, graph, Arts, Acts, Nodes, Tasks, Edges, Makers, Needed, Cause>>
      /\ \A m : Outputs(m)' = Outputs(m) /\ Maker(m)' = Maker(m)
  BY <1>c, StaticFacts
<1>1. TypeOK'
  BY <1>a, <1>c, <1>d DEF Inv, At, TypeOK, PCs
<1>2. QueuedOnce'
  BY <1>a, <1>c, <1>d, TaskFacts, TaskSet DEF Inv, At, QueuedOnce
<1>3. MainTask'
  BY <1>a, <1>c, <1>d, TaskFacts, TaskSet DEF Inv, At, MainTask
<1>4. ArtifactVisit'
  BY <1>a, <1>c, <1>d, TaskFacts, TaskSet DEF Inv, At, ArtifactVisit
<1>5. ActionVisit'
  BY <1>a, <1>c, <1>d, TaskFacts, TaskSet DEF Inv, At, ActionVisit
<1>6. Processing'
  BY <1>a, <1>c, <1>d, TaskFacts, TaskSet DEF Inv, At, Processing
<1>7. AvailableInOrder'
  BY <1>a, <1>c, <1>d, TaskFacts, TaskSet DEF Inv, At, AvailableInOrder
<1>8. CountExact'
  <2>1. \A m \in Nodes : st'[Process(m)].todo = st[Process(m)].todo
    BY <1>a, <1>c, <1>d, TaskFacts, TaskSet DEF Inv, TypeOK, At
  <2> QED
    BY <1>a, <1>c, <1>d, <2>1, CountKept DEF Inv
<1>9. ReadyWhenQueued'
  BY <1>a, <1>c, <1>d, ReadyKept, TaskSet DEF Inv, At, ReadyWhenQueued
<1>10. NeededOnly'
  BY <1>a, <1>c, <1>d, TaskFacts, TaskSet DEF Inv, At, NeededOnly
<1>11. FailedWithCause'
  BY <1>a, <1>c, <1>d, TaskFacts, TaskSet DEF Inv, At, FailedWithCause
<1>12. TargetsDiscovered'
  BY <1>a, <1>c, <1>d, TaskFacts, TaskSet DEF Inv, At, TargetsDiscovered
<1>13. InputsDiscovered'
  BY <1>a, <1>c, <1>d, TaskFacts, TaskSet DEF Inv, At, InputsDiscovered
<1>14. ArtifactsPursued'
  BY <1>a, <1>c, <1>d, TaskFacts, TaskSet DEF Inv, At, ArtifactsPursued
<1>15. ReadyPursued'
  BY <1>a, <1>c, <1>d, TaskFacts, TaskSet DEF Inv, At, ReadyPursued
<1> QED
  BY <1>1, <1>2, <1>3, <1>4, <1>5, <1>6, <1>7, <1>8, <1>9, <1>10, <1>11, <1>12, <1>13, <1>14, <1>15 DEF Inv

(* No second visit of a target is queued. *)
LEMMA SkipTargetNext ==
  ASSUME Inv, NEW t \in Tasks, NEW n \in Nodes, t = Main, st[t].cur = n, n \in problem.targets,
         n \in Arts,
         At(t, "queue_visit"), failed \/ n \in discovered,
         Becomes(t, "traverse", st[t].i, st[t].cur, st[t].todo),
         UNCHANGED <<index, nodeVars, poolVars>>
  PROVE  Inv'
<1> USE DEF Becomes
<1>a. /\ t \in Tasks /\ At(t, "queue_visit") /\ (failed \/ n \in discovered)
  OBVIOUS
<1>c. UNCHANGED <<index, discovered, queued, required, unavailable, available, failed, shutdown, again>>
  BY DEF nodeVars, poolVars
<1>e. /\ (\A m : Visit(m) # t) /\ \A m : Process(m) # t
  BY TaskFacts
<1>d. /\ UNCHANGED <<problem, graph, Arts, Acts, Nodes, Tasks, Edges, Makers, Needed, Cause>>
      /\ \A m : Outputs(m)' = Outputs(m) /\ Maker(m)' = Maker(m)
  BY <1>c, StaticFacts
<1>1. TypeOK'
  BY <1>a, <1>c, <1>e, <1>d DEF Inv, At, TypeOK, PCs
<1>2. QueuedOnce'
  BY <1>a, <1>c, <1>e, <1>d, TaskFacts, TaskSet DEF Inv, At, QueuedOnce
<1>3. MainTask'
  BY <1>a, <1>c, <1>e, <1>d, TaskFacts, TaskSet DEF Inv, At, MainTask
<1>4. ArtifactVisit'
  BY <1>a, <1>c, <1>e, <1>d, TaskFacts, TaskSet DEF Inv, At, ArtifactVisit
<1>5. ActionVisit'
  BY <1>a, <1>c, <1>e, <1>d, TaskFacts, TaskSet DEF Inv, At, ActionVisit
<1>6. Processing'
  BY <1>a, <1>c, <1>e, <1>d, TaskFacts, TaskSet DEF Inv, At, Processing
<1>7. AvailableInOrder'
  BY <1>a, <1>c, <1>e, <1>d, TaskFacts, TaskSet DEF Inv, At, AvailableInOrder
<1>8. CountExact'
  <2>1. \A m \in Nodes : st'[Process(m)].todo = st[Process(m)].todo
    BY <1>a, <1>c, <1>e, <1>d, TaskFacts, TaskSet DEF Inv, TypeOK, At
  <2> QED
    BY <1>a, <1>c, <1>e, <1>d, <2>1, CountKept DEF Inv
<1>9. ReadyWhenQueued'
  BY <1>a, <1>c, <1>e, <1>d, ReadyKept, TaskSet DEF Inv, At, ReadyWhenQueued
<1>10. NeededOnly'
  BY <1>a, <1>c, <1>e, <1>d, TaskFacts, TaskSet DEF Inv, At, NeededOnly
<1>11. FailedWithCause'
  BY <1>a, <1>c, <1>e, <1>d, TaskFacts, TaskSet DEF Inv, At, FailedWithCause
<1>12. TargetsDiscovered'
  BY <1>a, <1>c, <1>e, <1>d, TaskFacts, TaskSet DEF Inv, At, TargetsDiscovered
<1>13. InputsDiscovered'
  BY <1>a, <1>c, <1>e, <1>d, TaskFacts, TaskSet DEF Inv, At, InputsDiscovered
<1>14. ArtifactsPursued'
  BY <1>a, <1>c, <1>e, <1>d, TaskFacts, TaskSet DEF Inv, At, ArtifactsPursued
<1>15. ReadyPursued'
  BY <1>a, <1>c, <1>e, <1>d, TaskFacts, TaskSet DEF Inv, At, ReadyPursued
<1> QED
  BY <1>1, <1>2, <1>3, <1>4, <1>5, <1>6, <1>7, <1>8, <1>9, <1>10, <1>11, <1>12, <1>13, <1>14, <1>15 DEF Inv

(* The visit of a target is queued. *)
LEMMA QueueTargetNext ==
  ASSUME Inv, NEW t \in Tasks, NEW n \in Nodes, t = Main, st[t].cur = n, n \in problem.targets,
         n \in Arts,
         At(t, "queue_visit"), n \notin discovered, discovered' = discovered \cup {n},
         Queues(t, "traverse", Visit(n)),
         UNCHANGED <<index, queued, required, unavailable, available, failed, shutdown, again>>
  PROVE  Inv'
<1> USE DEF Queues
<1>a. /\ t \in Tasks /\ At(t, "queue_visit") /\ n \notin discovered /\ Visit(n) \in Tasks
  BY TaskSet
<1>c. UNCHANGED <<index, queued, required, unavailable, available, failed, shutdown, again>>
  BY DEF nodeVars, poolVars
<1>u. /\ (\A v : v # n => Visit(v) # Visit(n)) /\ (\A v : Process(v) # Visit(n)) /\ Main # Visit(n)
  BY TaskFacts
<1>e. /\ (\A m : Visit(m) # t) /\ \A m : Process(m) # t
  BY TaskFacts
<1>n. n \in Needed
  BY <1>a, <1>e, NeededFacts, TaskSet DEF Inv, NeededOnly, QueuedOnce, At
<1>d. /\ UNCHANGED <<problem, graph, Arts, Acts, Nodes, Tasks, Edges, Makers, Needed, Cause>>
      /\ \A m : Outputs(m)' = Outputs(m) /\ Maker(m)' = Maker(m)
  BY <1>c, StaticFacts
<1>1. TypeOK'
  BY <1>a, <1>n, <1>c, <1>u, <1>e, <1>d DEF Inv, At, TypeOK, PCs
<1>2. QueuedOnce'
  BY <1>a, <1>n, <1>c, <1>u, <1>e, <1>d, TaskFacts, TaskSet DEF Inv, At, QueuedOnce
<1>3. MainTask'
  BY <1>a, <1>n, <1>c, <1>u, <1>e, <1>d, TaskFacts, TaskSet DEF Inv, At, MainTask
<1>4. ArtifactVisit'
  BY <1>a, <1>n, <1>c, <1>u, <1>e, <1>d, TaskFacts, TaskSet DEF Inv, At, ArtifactVisit
<1>5. ActionVisit'
  BY <1>a, <1>n, <1>c, <1>u, <1>e, <1>d, TaskFacts, TaskSet DEF Inv, At, ActionVisit
<1>6. Processing'
  BY <1>a, <1>n, <1>c, <1>u, <1>e, <1>d, TaskFacts, TaskSet DEF Inv, At, Processing
<1>7. AvailableInOrder'
  BY <1>a, <1>n, <1>c, <1>u, <1>e, <1>d, TaskFacts, TaskSet DEF Inv, At, AvailableInOrder
<1>8. CountExact'
  <2>1. \A m \in Nodes : st'[Process(m)].todo = st[Process(m)].todo
    BY <1>a, <1>n, <1>c, <1>u, <1>e, <1>d, TaskFacts, TaskSet DEF Inv, TypeOK, At
  <2> QED
    BY <1>a, <1>n, <1>c, <1>u, <1>e, <1>d, <2>1, CountKept DEF Inv
<1>9. ReadyWhenQueued'
  BY <1>a, <1>n, <1>c, <1>u, <1>e, <1>d, ReadyKept, TaskSet DEF Inv, At, ReadyWhenQueued
<1>10. NeededOnly'
  BY <1>a, <1>n, <1>c, <1>u, <1>e, <1>d, TaskFacts, TaskSet DEF Inv, At, NeededOnly
<1>11. FailedWithCause'
  BY <1>a, <1>n, <1>c, <1>u, <1>e, <1>d, TaskFacts, TaskSet DEF Inv, At, FailedWithCause
<1>12. TargetsDiscovered'
  BY <1>a, <1>n, <1>c, <1>u, <1>e, <1>d, TaskFacts, TaskSet DEF Inv, At, TargetsDiscovered
<1>13. InputsDiscovered'
  BY <1>a, <1>n, <1>c, <1>u, <1>e, <1>d, TaskFacts, TaskSet DEF Inv, At, InputsDiscovered
<1>14. ArtifactsPursued'
  BY <1>a, <1>n, <1>c, <1>u, <1>e, <1>d, TaskFacts, TaskSet DEF Inv, At, ArtifactsPursued
<1>15. ReadyPursued'
  BY <1>a, <1>n, <1>c, <1>u, <1>e, <1>d, TaskFacts, TaskSet DEF Inv, At, ReadyPursued
<1> QED
  BY <1>1, <1>2, <1>3, <1>4, <1>5, <1>6, <1>7, <1>8, <1>9, <1>10, <1>11, <1>12, <1>13, <1>14, <1>15 DEF Inv

(* No second visit of the builder of an artifact is queued. *)
LEMMA SkipBuilderNext ==
  ASSUME Inv, NEW t \in Tasks, NEW n \in Nodes, NEW x \in Arts, t = Visit(x), graph.builder[x] = n,
         n \in Acts, st[t].cur = n,
         At(t, "queue_visit"), failed \/ n \in discovered,
         Becomes(t, "done", st[t].i, st[t].cur, st[t].todo), UNCHANGED <<index, nodeVars, poolVars>>
  PROVE  Inv'
<1> USE DEF Becomes
<1>a. /\ t \in Tasks /\ At(t, "queue_visit") /\ (failed \/ n \in discovered)
  OBVIOUS
<1>c. UNCHANGED <<index, discovered, queued, required, unavailable, available, failed, shutdown, again>>
  BY DEF nodeVars, poolVars
<1>e. /\ x \in Nodes /\ x \notin Acts /\ (\A b \in Acts : Visit(b) # t)
      /\ (\A y \in Arts : y # x => Visit(y) # t)
      /\ Main # t /\ \A m : Process(m) # t
  BY TaskFacts, GraphFacts, TaskSet DEF Inv
<1>d. /\ UNCHANGED <<problem, graph, Arts, Acts, Nodes, Tasks, Edges, Makers, Needed, Cause>>
      /\ \A m : Outputs(m)' = Outputs(m) /\ Maker(m)' = Maker(m)
  BY <1>c, StaticFacts
<1>1. TypeOK'
  BY <1>a, <1>c, <1>e, <1>d DEF Inv, At, TypeOK, PCs
<1>2. QueuedOnce'
  BY <1>a, <1>c, <1>e, <1>d, TaskFacts, TaskSet DEF Inv, At, QueuedOnce
<1>3. MainTask'
  BY <1>a, <1>c, <1>e, <1>d, TaskFacts, TaskSet DEF Inv, At, MainTask
<1>4. ArtifactVisit'
  BY <1>a, <1>c, <1>e, <1>d, TaskFacts, TaskSet DEF Inv, At, ArtifactVisit
<1>5. ActionVisit'
  BY <1>a, <1>c, <1>e, <1>d, TaskFacts, TaskSet DEF Inv, At, ActionVisit
<1>6. Processing'
  BY <1>a, <1>c, <1>e, <1>d, TaskFacts, TaskSet DEF Inv, At, Processing
<1>7. AvailableInOrder'
  BY <1>a, <1>c, <1>e, <1>d, TaskFacts, TaskSet DEF Inv, At, AvailableInOrder
<1>8. CountExact'
  <2>1. \A m \in Nodes : st'[Process(m)].todo = st[Process(m)].todo
    BY <1>a, <1>c, <1>e, <1>d, TaskFacts, TaskSet DEF Inv, TypeOK, At
  <2> QED
    BY <1>a, <1>c, <1>e, <1>d, <2>1, CountKept DEF Inv
<1>9. ReadyWhenQueued'
  BY <1>a, <1>c, <1>e, <1>d, ReadyKept, TaskSet DEF Inv, At, ReadyWhenQueued
<1>10. NeededOnly'
  BY <1>a, <1>c, <1>e, <1>d, TaskFacts, TaskSet DEF Inv, At, NeededOnly
<1>11. FailedWithCause'
  BY <1>a, <1>c, <1>e, <1>d, TaskFacts, TaskSet DEF Inv, At, FailedWithCause
<1>12. TargetsDiscovered'
  BY <1>a, <1>c, <1>e, <1>d, TaskFacts, TaskSet DEF Inv, At, TargetsDiscovered
<1>13. InputsDiscovered'
  BY <1>a, <1>c, <1>e, <1>d, TaskFacts, TaskSet DEF Inv, At, InputsDiscovered
<1>14. ArtifactsPursued'
  BY <1>a, <1>c, <1>e, <1>d, TaskFacts, TaskSet DEF Inv, At, ArtifactsPursued
<1>15. ReadyPursued'
  BY <1>a, <1>c, <1>e, <1>d, TaskFacts, TaskSet DEF Inv, At, ReadyPursued
<1> QED
  BY <1>1, <1>2, <1>3, <1>4, <1>5, <1>6, <1>7, <1>8, <1>9, <1>10, <1>11, <1>12, <1>13, <1>14, <1>15 DEF Inv

(* The visit of the builder of an artifact is queued. *)
LEMMA QueueBuilderNext ==
  ASSUME Inv, NEW t \in Tasks, NEW n \in Nodes, NEW x \in Arts, t = Visit(x), graph.builder[x] = n,
         n \in Acts, st[t].cur = n,
         At(t, "queue_visit"), n \notin discovered, discovered' = discovered \cup {n},
         Queues(t, "done", Visit(n)),
         UNCHANGED <<index, queued, required, unavailable, available, failed, shutdown, again>>
  PROVE  Inv'
<1> USE DEF Queues
<1>a. /\ t \in Tasks /\ At(t, "queue_visit") /\ n \notin discovered /\ Visit(n) \in Tasks
  BY TaskSet
<1>c. UNCHANGED <<index, queued, required, unavailable, available, failed, shutdown, again>>
  BY DEF nodeVars, poolVars
<1>u. /\ (\A v : v # n => Visit(v) # Visit(n)) /\ (\A v : Process(v) # Visit(n)) /\ Main # Visit(n)
  BY TaskFacts
<1>e. /\ x \in Nodes /\ x \notin Acts /\ (\A b \in Acts : Visit(b) # t)
      /\ (\A y \in Arts : y # x => Visit(y) # t)
      /\ Main # t /\ \A m : Process(m) # t
  BY TaskFacts, GraphFacts, TaskSet DEF Inv
<1>n. n \in Needed
  BY <1>a, <1>e, NeededFacts, TaskSet DEF Inv, NeededOnly, QueuedOnce, At
<1>d. /\ UNCHANGED <<problem, graph, Arts, Acts, Nodes, Tasks, Edges, Makers, Needed, Cause>>
      /\ \A m : Outputs(m)' = Outputs(m) /\ Maker(m)' = Maker(m)
  BY <1>c, StaticFacts
<1>1. TypeOK'
  BY <1>a, <1>n, <1>c, <1>u, <1>e, <1>d DEF Inv, At, TypeOK, PCs
<1>2. QueuedOnce'
  BY <1>a, <1>n, <1>c, <1>u, <1>e, <1>d, TaskFacts, TaskSet DEF Inv, At, QueuedOnce
<1>3. MainTask'
  BY <1>a, <1>n, <1>c, <1>u, <1>e, <1>d, TaskFacts, TaskSet DEF Inv, At, MainTask
<1>4. ArtifactVisit'
  BY <1>a, <1>n, <1>c, <1>u, <1>e, <1>d, TaskFacts, TaskSet DEF Inv, At, ArtifactVisit
<1>5. ActionVisit'
  BY <1>a, <1>n, <1>c, <1>u, <1>e, <1>d, TaskFacts, TaskSet DEF Inv, At, ActionVisit
<1>6. Processing'
  BY <1>a, <1>n, <1>c, <1>u, <1>e, <1>d, TaskFacts, TaskSet DEF Inv, At, Processing
<1>7. AvailableInOrder'
  BY <1>a, <1>n, <1>c, <1>u, <1>e, <1>d, TaskFacts, TaskSet DEF Inv, At, AvailableInOrder
<1>8. CountExact'
  <2>1. \A m \in Nodes : st'[Process(m)].todo = st[Process(m)].todo
    BY <1>a, <1>n, <1>c, <1>u, <1>e, <1>d, TaskFacts, TaskSet DEF Inv, TypeOK, At
  <2> QED
    BY <1>a, <1>n, <1>c, <1>u, <1>e, <1>d, <2>1, CountKept DEF Inv
<1>9. ReadyWhenQueued'
  BY <1>a, <1>n, <1>c, <1>u, <1>e, <1>d, ReadyKept, TaskSet DEF Inv, At, ReadyWhenQueued
<1>10. NeededOnly'
  BY <1>a, <1>n, <1>c, <1>u, <1>e, <1>d, TaskFacts, TaskSet DEF Inv, At, NeededOnly
<1>11. FailedWithCause'
  BY <1>a, <1>n, <1>c, <1>u, <1>e, <1>d, TaskFacts, TaskSet DEF Inv, At, FailedWithCause
<1>12. TargetsDiscovered'
  BY <1>a, <1>n, <1>c, <1>u, <1>e, <1>d, TaskFacts, TaskSet DEF Inv, At, TargetsDiscovered
<1>13. InputsDiscovered'
  BY <1>a, <1>n, <1>c, <1>u, <1>e, <1>d, TaskFacts, TaskSet DEF Inv, At, InputsDiscovered
<1>14. ArtifactsPursued'
  BY <1>a, <1>n, <1>c, <1>u, <1>e, <1>d, TaskFacts, TaskSet DEF Inv, At, ArtifactsPursued
<1>15. ReadyPursued'
  BY <1>a, <1>n, <1>c, <1>u, <1>e, <1>d, TaskFacts, TaskSet DEF Inv, At, ReadyPursued
<1> QED
  BY <1>1, <1>2, <1>3, <1>4, <1>5, <1>6, <1>7, <1>8, <1>9, <1>10, <1>11, <1>12, <1>13, <1>14, <1>15 DEF Inv

(* No second visit of an input of an action is queued. *)
LEMMA SkipInputNext ==
  ASSUME Inv, NEW t \in Tasks, NEW n \in Nodes, NEW a \in Acts, t = Visit(a),
         NEW k \in DOMAIN graph.ins[a], graph.ins[a][k] = n, n \in Arts, st[t].cur = n,
         At(t, "queue_visit"), failed \/ n \in discovered,
         Becomes(t, "deps", st[t].i, st[t].cur, st[t].todo), UNCHANGED <<index, nodeVars, poolVars>>
  PROVE  Inv'
<1> USE DEF Becomes
<1>a. /\ t \in Tasks /\ At(t, "queue_visit") /\ (failed \/ n \in discovered)
  OBVIOUS
<1>c. UNCHANGED <<index, discovered, queued, required, unavailable, available, failed, shutdown, again>>
  BY DEF nodeVars, poolVars
<1>e. /\ a \in Nodes /\ a \notin Arts /\ (\A b \in Arts : Visit(b) # t)
      /\ (\A y \in Acts : y # a => Visit(y) # t)
      /\ Main # t /\ \A m : Process(m) # t
  BY TaskFacts, GraphFacts, TaskSet DEF Inv
<1>d. /\ UNCHANGED <<problem, graph, Arts, Acts, Nodes, Tasks, Edges, Makers, Needed, Cause>>
      /\ \A m : Outputs(m)' = Outputs(m) /\ Maker(m)' = Maker(m)
  BY <1>c, StaticFacts
<1>1. TypeOK'
  BY <1>a, <1>c, <1>e, <1>d DEF Inv, At, TypeOK, PCs
<1>2. QueuedOnce'
  BY <1>a, <1>c, <1>e, <1>d, TaskFacts, TaskSet DEF Inv, At, QueuedOnce
<1>3. MainTask'
  BY <1>a, <1>c, <1>e, <1>d, TaskFacts, TaskSet DEF Inv, At, MainTask
<1>4. ArtifactVisit'
  BY <1>a, <1>c, <1>e, <1>d, TaskFacts, TaskSet DEF Inv, At, ArtifactVisit
<1>5. ActionVisit'
  BY <1>a, <1>c, <1>e, <1>d, TaskFacts, TaskSet DEF Inv, At, ActionVisit
<1>6. Processing'
  BY <1>a, <1>c, <1>e, <1>d, TaskFacts, TaskSet DEF Inv, At, Processing
<1>7. AvailableInOrder'
  BY <1>a, <1>c, <1>e, <1>d, TaskFacts, TaskSet DEF Inv, At, AvailableInOrder
<1>8. CountExact'
  <2>1. \A m \in Nodes : st'[Process(m)].todo = st[Process(m)].todo
    BY <1>a, <1>c, <1>e, <1>d, TaskFacts, TaskSet DEF Inv, TypeOK, At
  <2> QED
    BY <1>a, <1>c, <1>e, <1>d, <2>1, CountKept DEF Inv
<1>9. ReadyWhenQueued'
  BY <1>a, <1>c, <1>e, <1>d, ReadyKept, TaskSet DEF Inv, At, ReadyWhenQueued
<1>10. NeededOnly'
  BY <1>a, <1>c, <1>e, <1>d, TaskFacts, TaskSet DEF Inv, At, NeededOnly
<1>11. FailedWithCause'
  BY <1>a, <1>c, <1>e, <1>d, TaskFacts, TaskSet DEF Inv, At, FailedWithCause
<1>12. TargetsDiscovered'
  BY <1>a, <1>c, <1>e, <1>d, TaskFacts, TaskSet DEF Inv, At, TargetsDiscovered
<1>13. InputsDiscovered'
  BY <1>a, <1>c, <1>e, <1>d, TaskFacts, TaskSet DEF Inv, At, InputsDiscovered
<1>14. ArtifactsPursued'
  BY <1>a, <1>c, <1>e, <1>d, TaskFacts, TaskSet DEF Inv, At, ArtifactsPursued
<1>15. ReadyPursued'
  BY <1>a, <1>c, <1>e, <1>d, TaskFacts, TaskSet DEF Inv, At, ReadyPursued
<1> QED
  BY <1>1, <1>2, <1>3, <1>4, <1>5, <1>6, <1>7, <1>8, <1>9, <1>10, <1>11, <1>12, <1>13, <1>14, <1>15 DEF Inv

(* The visit of an input of an action is queued. *)
LEMMA QueueInputNext ==
  ASSUME Inv, NEW t \in Tasks, NEW n \in Nodes, NEW a \in Acts, t = Visit(a),
         NEW k \in DOMAIN graph.ins[a], graph.ins[a][k] = n, n \in Arts, st[t].cur = n,
         At(t, "queue_visit"), n \notin discovered, discovered' = discovered \cup {n},
         Queues(t, "deps", Visit(n)),
         UNCHANGED <<index, queued, required, unavailable, available, failed, shutdown, again>>
  PROVE  Inv'
<1> USE DEF Queues
<1>a. /\ t \in Tasks /\ At(t, "queue_visit") /\ n \notin discovered /\ Visit(n) \in Tasks
  BY TaskSet
<1>c. UNCHANGED <<index, queued, required, unavailable, available, failed, shutdown, again>>
  BY DEF nodeVars, poolVars
<1>u. /\ (\A v : v # n => Visit(v) # Visit(n)) /\ (\A v : Process(v) # Visit(n)) /\ Main # Visit(n)
  BY TaskFacts
<1>e. /\ a \in Nodes /\ a \notin Arts /\ (\A b \in Arts : Visit(b) # t)
      /\ (\A y \in Acts : y # a => Visit(y) # t)
      /\ Main # t /\ \A m : Process(m) # t
  BY TaskFacts, GraphFacts, TaskSet DEF Inv
<1>n. n \in Needed
  BY <1>a, <1>e, NeededFacts, TaskSet DEF Inv, NeededOnly, QueuedOnce, At
<1>d. /\ UNCHANGED <<problem, graph, Arts, Acts, Nodes, Tasks, Edges, Makers, Needed, Cause>>
      /\ \A m : Outputs(m)' = Outputs(m) /\ Maker(m)' = Maker(m)
  BY <1>c, StaticFacts
<1>1. TypeOK'
  BY <1>a, <1>n, <1>c, <1>u, <1>e, <1>d DEF Inv, At, TypeOK, PCs
<1>2. QueuedOnce'
  BY <1>a, <1>n, <1>c, <1>u, <1>e, <1>d, TaskFacts, TaskSet DEF Inv, At, QueuedOnce
<1>3. MainTask'
  BY <1>a, <1>n, <1>c, <1>u, <1>e, <1>d, TaskFacts, TaskSet DEF Inv, At, MainTask
<1>4. ArtifactVisit'
  BY <1>a, <1>n, <1>c, <1>u, <1>e, <1>d, TaskFacts, TaskSet DEF Inv, At, ArtifactVisit
<1>5. ActionVisit'
  BY <1>a, <1>n, <1>c, <1>u, <1>e, <1>d, TaskFacts, TaskSet DEF Inv, At, ActionVisit
<1>6. Processing'
  BY <1>a, <1>n, <1>c, <1>u, <1>e, <1>d, TaskFacts, TaskSet DEF Inv, At, Processing
<1>7. AvailableInOrder'
  BY <1>a, <1>n, <1>c, <1>u, <1>e, <1>d, TaskFacts, TaskSet DEF Inv, At, AvailableInOrder
<1>8. CountExact'
  <2>1. \A m \in Nodes : st'[Process(m)].todo = st[Process(m)].todo
    BY <1>a, <1>n, <1>c, <1>u, <1>e, <1>d, TaskFacts, TaskSet DEF Inv, TypeOK, At
  <2> QED
    BY <1>a, <1>n, <1>c, <1>u, <1>e, <1>d, <2>1, CountKept DEF Inv
<1>9. ReadyWhenQueued'
  BY <1>a, <1>n, <1>c, <1>u, <1>e, <1>d, ReadyKept, TaskSet DEF Inv, At, ReadyWhenQueued
<1>10. NeededOnly'
  BY <1>a, <1>n, <1>c, <1>u, <1>e, <1>d, TaskFacts, TaskSet DEF Inv, At, NeededOnly
<1>11. FailedWithCause'
  BY <1>a, <1>n, <1>c, <1>u, <1>e, <1>d, TaskFacts, TaskSet DEF Inv, At, FailedWithCause
<1>12. TargetsDiscovered'
  BY <1>a, <1>n, <1>c, <1>u, <1>e, <1>d, TaskFacts, TaskSet DEF Inv, At, TargetsDiscovered
<1>13. InputsDiscovered'
  BY <1>a, <1>n, <1>c, <1>u, <1>e, <1>d, TaskFacts, TaskSet DEF Inv, At, InputsDiscovered
<1>14. ArtifactsPursued'
  BY <1>a, <1>n, <1>c, <1>u, <1>e, <1>d, TaskFacts, TaskSet DEF Inv, At, ArtifactsPursued
<1>15. ReadyPursued'
  BY <1>a, <1>n, <1>c, <1>u, <1>e, <1>d, TaskFacts, TaskSet DEF Inv, At, ReadyPursued
<1> QED
  BY <1>1, <1>2, <1>3, <1>4, <1>5, <1>6, <1>7, <1>8, <1>9, <1>10, <1>11, <1>12, <1>13, <1>14, <1>15 DEF Inv

(* No processing of a known artifact is queued, or not again. *)
LEMMA PassLeafNext ==
  ASSUME Inv, NEW t \in Tasks, NEW n \in Nodes, NEW x \in Arts, t = Visit(x), n = x, n \in Makers,
         st[t].cur = n,
         At(t, "queue_process"), failed \/ n \notin required \/ n \in queued,
         Becomes(t, "done", st[t].i, st[t].cur, st[t].todo), UNCHANGED <<index, nodeVars, poolVars>>
  PROVE  Inv'
<1> USE DEF Becomes
<1>a. /\ t \in Tasks /\ At(t, "queue_process") /\ n \in required /\ (failed \/ n \in queued)
  BY TaskSet, TaskFacts DEF Inv, QueuedOnce, At
<1>c. UNCHANGED <<index, discovered, queued, required, unavailable, available, failed, shutdown, again>>
  BY DEF nodeVars, poolVars
<1>e. /\ x \in Nodes /\ x \notin Acts /\ (\A b \in Acts : Visit(b) # t)
      /\ (\A y \in Arts : y # x => Visit(y) # t)
      /\ Main # t /\ \A m : Process(m) # t
  BY TaskFacts, GraphFacts, TaskSet DEF Inv
<1>d. /\ UNCHANGED <<problem, graph, Arts, Acts, Nodes, Tasks, Edges, Makers, Needed, Cause>>
      /\ \A m : Outputs(m)' = Outputs(m) /\ Maker(m)' = Maker(m)
  BY <1>c, StaticFacts
<1>1. TypeOK'
  BY <1>a, <1>c, <1>e, <1>d DEF Inv, At, TypeOK, PCs
<1>2. QueuedOnce'
  BY <1>a, <1>c, <1>e, <1>d, TaskFacts, TaskSet DEF Inv, At, QueuedOnce
<1>3. MainTask'
  BY <1>a, <1>c, <1>e, <1>d, TaskFacts, TaskSet DEF Inv, At, MainTask
<1>4. ArtifactVisit'
  BY <1>a, <1>c, <1>e, <1>d, TaskFacts, TaskSet DEF Inv, At, ArtifactVisit
<1>5. ActionVisit'
  BY <1>a, <1>c, <1>e, <1>d, TaskFacts, TaskSet DEF Inv, At, ActionVisit
<1>6. Processing'
  BY <1>a, <1>c, <1>e, <1>d, TaskFacts, TaskSet DEF Inv, At, Processing
<1>7. AvailableInOrder'
  BY <1>a, <1>c, <1>e, <1>d, TaskFacts, TaskSet DEF Inv, At, AvailableInOrder
<1>8. CountExact'
  <2>1. \A m \in Nodes : st'[Process(m)].todo = st[Process(m)].todo
    BY <1>a, <1>c, <1>e, <1>d, TaskFacts, TaskSet DEF Inv, TypeOK, At
  <2> QED
    BY <1>a, <1>c, <1>e, <1>d, <2>1, CountKept DEF Inv
<1>9. ReadyWhenQueued'
  BY <1>a, <1>c, <1>e, <1>d, ReadyKept, TaskSet DEF Inv, At, ReadyWhenQueued
<1>10. NeededOnly'
  BY <1>a, <1>c, <1>e, <1>d, TaskFacts, TaskSet DEF Inv, At, NeededOnly
<1>11. FailedWithCause'
  BY <1>a, <1>c, <1>e, <1>d, TaskFacts, TaskSet DEF Inv, At, FailedWithCause
<1>12. TargetsDiscovered'
  BY <1>a, <1>c, <1>e, <1>d, TaskFacts, TaskSet DEF Inv, At, TargetsDiscovered
<1>13. InputsDiscovered'
  BY <1>a, <1>c, <1>e, <1>d, TaskFacts, TaskSet DEF Inv, At, InputsDiscovered
<1>14. ArtifactsPursued'
  BY <1>a, <1>c, <1>e, <1>d, TaskFacts, TaskSet DEF Inv, At, ArtifactsPursued
<1>15. ReadyPursued'
  BY <1>a, <1>c, <1>e, <1>d, TaskFacts, TaskSet DEF Inv, At, ReadyPursued
<1> QED
  BY <1>1, <1>2, <1>3, <1>4, <1>5, <1>6, <1>7, <1>8, <1>9, <1>10, <1>11, <1>12, <1>13, <1>14, <1>15 DEF Inv

(* The processing of a known artifact is queued. *)
LEMMA ProcessLeafNext ==
  ASSUME Inv, NEW t \in Tasks, NEW n \in Nodes, NEW x \in Arts, t = Visit(x), n = x, n \in Makers,
         st[t].cur = n,
         At(t, "queue_process"), n \in required, n \notin queued, queued' = queued \cup {n},
         Queues(t, "done", Process(n)),
         UNCHANGED <<index, discovered, required, unavailable, available, failed, shutdown, again>>
  PROVE  Inv'
<1> USE DEF Queues
<1>a. /\ t \in Tasks /\ At(t, "queue_process") /\ n \notin queued /\ n \in required
      /\ Process(n) \in Tasks
  BY TaskSet
<1>c. UNCHANGED <<index, discovered, required, unavailable, available, failed, shutdown, again>>
  BY DEF nodeVars, poolVars
<1>u. /\ (\A v : v # n => Process(v) # Process(n)) /\ (\A v : Visit(v) # Process(n)) /\ Main # Process(n)
  BY TaskFacts
<1>e. /\ x \in Nodes /\ x \notin Acts /\ (\A b \in Acts : Visit(b) # t)
      /\ (\A y \in Arts : y # x => Visit(y) # t)
      /\ Main # t /\ \A m : Process(m) # t
  BY TaskFacts, GraphFacts, TaskSet DEF Inv
<1>n. /\ n \in Needed /\ (n \in Acts => Ready(n))
  BY <1>a, TaskSet DEF Inv, NeededOnly, QueuedOnce, At, ReadyWhenQueued
<1>d. /\ UNCHANGED <<problem, graph, Arts, Acts, Nodes, Tasks, Edges, Makers, Needed, Cause>>
      /\ \A m : Outputs(m)' = Outputs(m) /\ Maker(m)' = Maker(m)
  BY <1>c, StaticFacts
<1>1. TypeOK'
  BY <1>a, <1>c, <1>u, <1>e, <1>n, <1>d DEF Inv, At, TypeOK, PCs
<1>2. QueuedOnce'
  BY <1>a, <1>c, <1>u, <1>e, <1>n, <1>d, TaskFacts, TaskSet DEF Inv, At, QueuedOnce
<1>3. MainTask'
  BY <1>a, <1>c, <1>u, <1>e, <1>n, <1>d, TaskFacts, TaskSet DEF Inv, At, MainTask
<1>4. ArtifactVisit'
  BY <1>a, <1>c, <1>u, <1>e, <1>n, <1>d, TaskFacts, TaskSet DEF Inv, At, ArtifactVisit
<1>5. ActionVisit'
  BY <1>a, <1>c, <1>u, <1>e, <1>n, <1>d, TaskFacts, TaskSet DEF Inv, At, ActionVisit
<1>6. Processing'
  BY <1>a, <1>c, <1>u, <1>e, <1>n, <1>d, TaskFacts, TaskSet DEF Inv, At, Processing
<1>7. AvailableInOrder'
  BY <1>a, <1>c, <1>u, <1>e, <1>n, <1>d, TaskFacts, TaskSet DEF Inv, At, AvailableInOrder
<1>8. CountExact'
  <2>1. \A m \in Nodes : st'[Process(m)].todo = st[Process(m)].todo
    BY <1>a, <1>c, <1>u, <1>e, <1>n, <1>d, TaskFacts, TaskSet DEF Inv, TypeOK, At
  <2> QED
    BY <1>a, <1>c, <1>u, <1>e, <1>n, <1>d, <2>1, CountKept DEF Inv
<1>9. ReadyWhenQueued'
  BY <1>a, <1>c, <1>u, <1>e, <1>n, <1>d, ReadyKept, TaskSet DEF Inv, At, ReadyWhenQueued
<1>10. NeededOnly'
  BY <1>a, <1>c, <1>u, <1>e, <1>n, <1>d, TaskFacts, TaskSet DEF Inv, At, NeededOnly
<1>11. FailedWithCause'
  BY <1>a, <1>c, <1>u, <1>e, <1>n, <1>d, TaskFacts, TaskSet DEF Inv, At, FailedWithCause
<1>12. TargetsDiscovered'
  BY <1>a, <1>c, <1>u, <1>e, <1>n, <1>d, TaskFacts, TaskSet DEF Inv, At, TargetsDiscovered
<1>13. InputsDiscovered'
  BY <1>a, <1>c, <1>u, <1>e, <1>n, <1>d, TaskFacts, TaskSet DEF Inv, At, InputsDiscovered
<1>14. ArtifactsPursued'
  BY <1>a, <1>c, <1>u, <1>e, <1>n, <1>d, TaskFacts, TaskSet DEF Inv, At, ArtifactsPursued
<1>15. ReadyPursued'
  BY <1>a, <1>c, <1>u, <1>e, <1>n, <1>d, TaskFacts, TaskSet DEF Inv, At, ReadyPursued
<1> QED
  BY <1>1, <1>2, <1>3, <1>4, <1>5, <1>6, <1>7, <1>8, <1>9, <1>10, <1>11, <1>12, <1>13, <1>14, <1>15 DEF Inv

(* No processing of a visited action is queued, or not again. *)
LEMMA PassActionNext ==
  ASSUME Inv, NEW t \in Tasks, NEW n \in Nodes, NEW a \in Acts, t = Visit(a), n = a, n \in Makers,
         st[t].cur = n,
         At(t, "queue_process"), failed \/ n \notin required \/ n \in queued,
         Becomes(t, "done", st[t].i, st[t].cur, st[t].todo), UNCHANGED <<index, nodeVars, poolVars>>
  PROVE  Inv'
<1> USE DEF Becomes
<1>a. /\ t \in Tasks /\ At(t, "queue_process") /\ n \in required /\ (failed \/ n \in queued)
  BY TaskSet, TaskFacts DEF Inv, QueuedOnce, At
<1>c. UNCHANGED <<index, discovered, queued, required, unavailable, available, failed, shutdown, again>>
  BY DEF nodeVars, poolVars
<1>e. /\ a \in Nodes /\ a \notin Arts /\ (\A b \in Arts : Visit(b) # t)
      /\ (\A y \in Acts : y # a => Visit(y) # t)
      /\ Main # t /\ \A m : Process(m) # t
  BY TaskFacts, GraphFacts, TaskSet DEF Inv
<1>d. /\ UNCHANGED <<problem, graph, Arts, Acts, Nodes, Tasks, Edges, Makers, Needed, Cause>>
      /\ \A m : Outputs(m)' = Outputs(m) /\ Maker(m)' = Maker(m)
  BY <1>c, StaticFacts
<1>1. TypeOK'
  BY <1>a, <1>c, <1>e, <1>d DEF Inv, At, TypeOK, PCs
<1>2. QueuedOnce'
  BY <1>a, <1>c, <1>e, <1>d, TaskFacts, TaskSet DEF Inv, At, QueuedOnce
<1>3. MainTask'
  BY <1>a, <1>c, <1>e, <1>d, TaskFacts, TaskSet DEF Inv, At, MainTask
<1>4. ArtifactVisit'
  BY <1>a, <1>c, <1>e, <1>d, TaskFacts, TaskSet DEF Inv, At, ArtifactVisit
<1>5. ActionVisit'
  BY <1>a, <1>c, <1>e, <1>d, TaskFacts, TaskSet DEF Inv, At, ActionVisit
<1>6. Processing'
  BY <1>a, <1>c, <1>e, <1>d, TaskFacts, TaskSet DEF Inv, At, Processing
<1>7. AvailableInOrder'
  BY <1>a, <1>c, <1>e, <1>d, TaskFacts, TaskSet DEF Inv, At, AvailableInOrder
<1>8. CountExact'
  <2>1. \A m \in Nodes : st'[Process(m)].todo = st[Process(m)].todo
    BY <1>a, <1>c, <1>e, <1>d, TaskFacts, TaskSet DEF Inv, TypeOK, At
  <2> QED
    BY <1>a, <1>c, <1>e, <1>d, <2>1, CountKept DEF Inv
<1>9. ReadyWhenQueued'
  BY <1>a, <1>c, <1>e, <1>d, ReadyKept, TaskSet DEF Inv, At, ReadyWhenQueued
<1>10. NeededOnly'
  BY <1>a, <1>c, <1>e, <1>d, TaskFacts, TaskSet DEF Inv, At, NeededOnly
<1>11. FailedWithCause'
  BY <1>a, <1>c, <1>e, <1>d, TaskFacts, TaskSet DEF Inv, At, FailedWithCause
<1>12. TargetsDiscovered'
  BY <1>a, <1>c, <1>e, <1>d, TaskFacts, TaskSet DEF Inv, At, TargetsDiscovered
<1>13. InputsDiscovered'
  BY <1>a, <1>c, <1>e, <1>d, TaskFacts, TaskSet DEF Inv, At, InputsDiscovered
<1>14. ArtifactsPursued'
  BY <1>a, <1>c, <1>e, <1>d, TaskFacts, TaskSet DEF Inv, At, ArtifactsPursued
<1>15. ReadyPursued'
  BY <1>a, <1>c, <1>e, <1>d, TaskFacts, TaskSet DEF Inv, At, ReadyPursued
<1> QED
  BY <1>1, <1>2, <1>3, <1>4, <1>5, <1>6, <1>7, <1>8, <1>9, <1>10, <1>11, <1>12, <1>13, <1>14, <1>15 DEF Inv

(* The processing of a visited action is queued. *)
LEMMA ProcessActionNext ==
  ASSUME Inv, NEW t \in Tasks, NEW n \in Nodes, NEW a \in Acts, t = Visit(a), n = a, n \in Makers,
         st[t].cur = n,
         At(t, "queue_process"), n \in required, n \notin queued, queued' = queued \cup {n},
         Queues(t, "done", Process(n)),
         UNCHANGED <<index, discovered, required, unavailable, available, failed, shutdown, again>>
  PROVE  Inv'
<1> USE DEF Queues
<1>a. /\ t \in Tasks /\ At(t, "queue_process") /\ n \notin queued /\ n \in required
      /\ Process(n) \in Tasks
  BY TaskSet
<1>c. UNCHANGED <<index, discovered, required, unavailable, available, failed, shutdown, again>>
  BY DEF nodeVars, poolVars
<1>u. /\ (\A v : v # n => Process(v) # Process(n)) /\ (\A v : Visit(v) # Process(n)) /\ Main # Process(n)
  BY TaskFacts
<1>e. /\ a \in Nodes /\ a \notin Arts /\ (\A b \in Arts : Visit(b) # t)
      /\ (\A y \in Acts : y # a => Visit(y) # t)
      /\ Main # t /\ \A m : Process(m) # t
  BY TaskFacts, GraphFacts, TaskSet DEF Inv
<1>n. /\ n \in Needed /\ (n \in Acts => Ready(n))
  BY <1>a, TaskSet DEF Inv, NeededOnly, QueuedOnce, At, ReadyWhenQueued
<1>d. /\ UNCHANGED <<problem, graph, Arts, Acts, Nodes, Tasks, Edges, Makers, Needed, Cause>>
      /\ \A m : Outputs(m)' = Outputs(m) /\ Maker(m)' = Maker(m)
  BY <1>c, StaticFacts
<1>1. TypeOK'
  BY <1>a, <1>c, <1>u, <1>e, <1>n, <1>d DEF Inv, At, TypeOK, PCs
<1>2. QueuedOnce'
  BY <1>a, <1>c, <1>u, <1>e, <1>n, <1>d, TaskFacts, TaskSet DEF Inv, At, QueuedOnce
<1>3. MainTask'
  BY <1>a, <1>c, <1>u, <1>e, <1>n, <1>d, TaskFacts, TaskSet DEF Inv, At, MainTask
<1>4. ArtifactVisit'
  BY <1>a, <1>c, <1>u, <1>e, <1>n, <1>d, TaskFacts, TaskSet DEF Inv, At, ArtifactVisit
<1>5. ActionVisit'
  BY <1>a, <1>c, <1>u, <1>e, <1>n, <1>d, TaskFacts, TaskSet DEF Inv, At, ActionVisit
<1>6. Processing'
  BY <1>a, <1>c, <1>u, <1>e, <1>n, <1>d, TaskFacts, TaskSet DEF Inv, At, Processing
<1>7. AvailableInOrder'
  BY <1>a, <1>c, <1>u, <1>e, <1>n, <1>d, TaskFacts, TaskSet DEF Inv, At, AvailableInOrder
<1>8. CountExact'
  <2>1. \A m \in Nodes : st'[Process(m)].todo = st[Process(m)].todo
    BY <1>a, <1>c, <1>u, <1>e, <1>n, <1>d, TaskFacts, TaskSet DEF Inv, TypeOK, At
  <2> QED
    BY <1>a, <1>c, <1>u, <1>e, <1>n, <1>d, <2>1, CountKept DEF Inv
<1>9. ReadyWhenQueued'
  BY <1>a, <1>c, <1>u, <1>e, <1>n, <1>d, ReadyKept, TaskSet DEF Inv, At, ReadyWhenQueued
<1>10. NeededOnly'
  BY <1>a, <1>c, <1>u, <1>e, <1>n, <1>d, TaskFacts, TaskSet DEF Inv, At, NeededOnly
<1>11. FailedWithCause'
  BY <1>a, <1>c, <1>u, <1>e, <1>n, <1>d, TaskFacts, TaskSet DEF Inv, At, FailedWithCause
<1>12. TargetsDiscovered'
  BY <1>a, <1>c, <1>u, <1>e, <1>n, <1>d, TaskFacts, TaskSet DEF Inv, At, TargetsDiscovered
<1>13. InputsDiscovered'
  BY <1>a, <1>c, <1>u, <1>e, <1>n, <1>d, TaskFacts, TaskSet DEF Inv, At, InputsDiscovered
<1>14. ArtifactsPursued'
  BY <1>a, <1>c, <1>u, <1>e, <1>n, <1>d, TaskFacts, TaskSet DEF Inv, At, ArtifactsPursued
<1>15. ReadyPursued'
  BY <1>a, <1>c, <1>u, <1>e, <1>n, <1>d, TaskFacts, TaskSet DEF Inv, At, ReadyPursued
<1> QED
  BY <1>1, <1>2, <1>3, <1>4, <1>5, <1>6, <1>7, <1>8, <1>9, <1>10, <1>11, <1>12, <1>13, <1>14, <1>15 DEF Inv

(* No processing of an action that became ready is queued, or not again. *)
LEMMA PassParentNext ==
  ASSUME Inv, NEW t \in Tasks, NEW n \in Nodes, NEW m \in Makers, t = Process(m), m \in Nodes,
         n \in Acts, n \in Makers, st[t].cur = n,
         At(t, "queue_process"), failed \/ n \notin required \/ n \in queued,
         Becomes(t, "parents", st[t].i, st[t].cur, st[t].todo),
         UNCHANGED <<index, nodeVars, poolVars>>
  PROVE  Inv'
<1> USE DEF Becomes
<1>a. /\ t \in Tasks /\ At(t, "queue_process") /\ (failed \/ n \notin required \/ n \in queued)
  OBVIOUS
<1>c. UNCHANGED <<index, discovered, queued, required, unavailable, available, failed, shutdown, again>>
  BY DEF nodeVars, poolVars
<1>e. /\ \A b : Visit(b) # t
      /\ Main # t /\ \A y : y # m => Process(y) # t
  BY TaskFacts
<1>d. /\ UNCHANGED <<problem, graph, Arts, Acts, Nodes, Tasks, Edges, Makers, Needed, Cause>>
      /\ \A q : Outputs(q)' = Outputs(q) /\ Maker(q)' = Maker(q)
  BY <1>c, StaticFacts
<1>1. TypeOK'
  BY <1>a, <1>c, <1>e, <1>d DEF Inv, At, TypeOK, PCs
<1>2. QueuedOnce'
  BY <1>a, <1>c, <1>e, <1>d, TaskFacts, TaskSet DEF Inv, At, QueuedOnce
<1>3. MainTask'
  BY <1>a, <1>c, <1>e, <1>d, TaskFacts, TaskSet DEF Inv, At, MainTask
<1>4. ArtifactVisit'
  BY <1>a, <1>c, <1>e, <1>d, TaskFacts, TaskSet DEF Inv, At, ArtifactVisit
<1>5. ActionVisit'
  BY <1>a, <1>c, <1>e, <1>d, TaskFacts, TaskSet DEF Inv, At, ActionVisit
<1>6. Processing'
  BY <1>a, <1>c, <1>e, <1>d, TaskFacts, TaskSet DEF Inv, At, Processing
<1>7. AvailableInOrder'
  BY <1>a, <1>c, <1>e, <1>d, TaskFacts, TaskSet DEF Inv, At, AvailableInOrder
<1>8. CountExact'
  <2>1. \A q \in Nodes : st'[Process(q)].todo = st[Process(q)].todo
    BY <1>a, <1>c, <1>e, <1>d, TaskFacts, TaskSet DEF Inv, TypeOK, At
  <2> QED
    BY <1>a, <1>c, <1>e, <1>d, <2>1, CountKept DEF Inv
<1>9. ReadyWhenQueued'
  BY <1>a, <1>c, <1>e, <1>d, ReadyKept, TaskSet DEF Inv, At, ReadyWhenQueued
<1>10. NeededOnly'
  BY <1>a, <1>c, <1>e, <1>d, TaskFacts, TaskSet DEF Inv, At, NeededOnly
<1>11. FailedWithCause'
  BY <1>a, <1>c, <1>e, <1>d, TaskFacts, TaskSet DEF Inv, At, FailedWithCause
<1>12. TargetsDiscovered'
  BY <1>a, <1>c, <1>e, <1>d, TaskFacts, TaskSet DEF Inv, At, TargetsDiscovered
<1>13. InputsDiscovered'
  BY <1>a, <1>c, <1>e, <1>d, TaskFacts, TaskSet DEF Inv, At, InputsDiscovered
<1>14. ArtifactsPursued'
  BY <1>a, <1>c, <1>e, <1>d, TaskFacts, TaskSet DEF Inv, At, ArtifactsPursued
<1>15. ReadyPursued'
  BY <1>a, <1>c, <1>e, <1>d, TaskFacts, TaskSet DEF Inv, At, ReadyPursued
<1> QED
  BY <1>1, <1>2, <1>3, <1>4, <1>5, <1>6, <1>7, <1>8, <1>9, <1>10, <1>11, <1>12, <1>13, <1>14, <1>15 DEF Inv

(* The processing of an action that became ready is queued. *)
LEMMA ProcessParentNext ==
  ASSUME Inv, NEW t \in Tasks, NEW n \in Nodes, NEW m \in Makers, t = Process(m), m \in Nodes,
         n \in Acts, n \in Makers, st[t].cur = n,
         At(t, "queue_process"), n \in required, n \notin queued, queued' = queued \cup {n},
         Queues(t, "parents", Process(n)),
         UNCHANGED <<index, discovered, required, unavailable, available, failed, shutdown, again>>
  PROVE  Inv'
<1> USE DEF Queues
<1>a. /\ t \in Tasks /\ At(t, "queue_process") /\ n \notin queued /\ n \in required
      /\ Process(n) \in Tasks
  BY TaskSet
<1>c. UNCHANGED <<index, discovered, required, unavailable, available, failed, shutdown, again>>
  BY DEF nodeVars, poolVars
<1>u. /\ (\A v : v # n => Process(v) # Process(n)) /\ (\A v : Visit(v) # Process(n)) /\ Main # Process(n)
  BY TaskFacts
<1>e. /\ \A b : Visit(b) # t
      /\ Main # t /\ \A y : y # m => Process(y) # t
  BY TaskFacts
<1>n. /\ n \in Needed /\ (n \in Acts => Ready(n))
  BY <1>a, TaskSet DEF Inv, NeededOnly, QueuedOnce, At, ReadyWhenQueued
<1>d. /\ UNCHANGED <<problem, graph, Arts, Acts, Nodes, Tasks, Edges, Makers, Needed, Cause>>
      /\ \A q : Outputs(q)' = Outputs(q) /\ Maker(q)' = Maker(q)
  BY <1>c, StaticFacts
<1>1. TypeOK'
  BY <1>a, <1>c, <1>u, <1>e, <1>n, <1>d DEF Inv, At, TypeOK, PCs
<1>2. QueuedOnce'
  BY <1>a, <1>c, <1>u, <1>e, <1>n, <1>d, TaskFacts, TaskSet DEF Inv, At, QueuedOnce
<1>3. MainTask'
  BY <1>a, <1>c, <1>u, <1>e, <1>n, <1>d, TaskFacts, TaskSet DEF Inv, At, MainTask
<1>4. ArtifactVisit'
  BY <1>a, <1>c, <1>u, <1>e, <1>n, <1>d, TaskFacts, TaskSet DEF Inv, At, ArtifactVisit
<1>5. ActionVisit'
  BY <1>a, <1>c, <1>u, <1>e, <1>n, <1>d, TaskFacts, TaskSet DEF Inv, At, ActionVisit
<1>6. Processing'
  BY <1>a, <1>c, <1>u, <1>e, <1>n, <1>d, TaskFacts, TaskSet DEF Inv, At, Processing
<1>7. AvailableInOrder'
  BY <1>a, <1>c, <1>u, <1>e, <1>n, <1>d, TaskFacts, TaskSet DEF Inv, At, AvailableInOrder
<1>8. CountExact'
  <2>1. \A q \in Nodes : st'[Process(q)].todo = st[Process(q)].todo
    BY <1>a, <1>c, <1>u, <1>e, <1>n, <1>d, TaskFacts, TaskSet DEF Inv, TypeOK, At
  <2> QED
    BY <1>a, <1>c, <1>u, <1>e, <1>n, <1>d, <2>1, CountKept DEF Inv
<1>9. ReadyWhenQueued'
  BY <1>a, <1>c, <1>u, <1>e, <1>n, <1>d, ReadyKept, TaskSet DEF Inv, At, ReadyWhenQueued
<1>10. NeededOnly'
  BY <1>a, <1>c, <1>u, <1>e, <1>n, <1>d, TaskFacts, TaskSet DEF Inv, At, NeededOnly
<1>11. FailedWithCause'
  BY <1>a, <1>c, <1>u, <1>e, <1>n, <1>d, TaskFacts, TaskSet DEF Inv, At, FailedWithCause
<1>12. TargetsDiscovered'
  BY <1>a, <1>c, <1>u, <1>e, <1>n, <1>d, TaskFacts, TaskSet DEF Inv, At, TargetsDiscovered
<1>13. InputsDiscovered'
  BY <1>a, <1>c, <1>u, <1>e, <1>n, <1>d, TaskFacts, TaskSet DEF Inv, At, InputsDiscovered
<1>14. ArtifactsPursued'
  BY <1>a, <1>c, <1>u, <1>e, <1>n, <1>d, TaskFacts, TaskSet DEF Inv, At, ArtifactsPursued
<1>15. ReadyPursued'
  BY <1>a, <1>c, <1>u, <1>e, <1>n, <1>d, TaskFacts, TaskSet DEF Inv, At, ReadyPursued
<1> QED
  BY <1>1, <1>2, <1>3, <1>4, <1>5, <1>6, <1>7, <1>8, <1>9, <1>10, <1>11, <1>12, <1>13, <1>14, <1>15 DEF Inv

(* An output becomes available, its consumers are to be notified. *)
LEMMA OutputAvailableNext ==
  ASSUME Inv, NEW t \in Tasks, NEW n \in Makers, t = Process(n), At(t, "parents"), st[t].todo = {},
         NEW i \in DOMAIN Outputs(n), st[t].i = i, NEW x \in Arts, x = Outputs(n)[i],
         NEW j \in Nat \ {0}, j - 1 = i, \A q \in Nat : q < j <=> q < i \/ q = i,
         available' = available \cup {x}, Becomes(t, "parents", j, st[t].cur, Consumers(x)),
         UNCHANGED <<index, discovered, queued, required, unavailable, poolVars>>
  PROVE  Inv'
<1> USE DEF Becomes
<1>a. /\ At(t, "parents") /\ t = Process(n) /\ n \in Makers
  OBVIOUS
<1>c. UNCHANGED <<index, discovered, queued, required, unavailable, failed, shutdown, again>>
  BY DEF poolVars
<1>e. /\ n \in Nodes /\ (\A b : Visit(b) # t)
      /\ Main # t /\ \A m : m # n => Process(m) # t
  BY TaskFacts, TaskSet
<1>d. /\ UNCHANGED <<problem, graph, Arts, Acts, Nodes, Tasks, Edges, Makers, Needed, Cause>>
      /\ \A m : Outputs(m)' = Outputs(m) /\ Maker(m)' = Maker(m)
  BY <1>c, StaticFacts
<1>1. TypeOK'
  <2>1. Consumers(x) \subseteq Edges
    BY DEF Consumers
  <2> QED
    BY <1>a, <1>c, <1>e, <1>d, <2>1 DEF Inv, At, TypeOK, PCs
<1>2. QueuedOnce'
  BY <1>a, <1>c, <1>e, <1>d, TaskFacts, TaskSet DEF Inv, At, QueuedOnce
<1>3. MainTask'
  BY <1>a, <1>c, <1>e, <1>d, TaskFacts, TaskSet DEF Inv, At, MainTask
<1>4. ArtifactVisit'
  BY <1>a, <1>c, <1>e, <1>d, TaskFacts, TaskSet DEF Inv, At, ArtifactVisit
<1>5. ActionVisit'
  BY <1>a, <1>c, <1>e, <1>d, TaskFacts, TaskSet DEF Inv, At, ActionVisit
<1>6. Processing'
  <2>1. \A f \in Consumers(x) : f \in Edges /\ graph.ins[f[1]][f[2]] = x
    BY DEF Consumers
  <2> QED
    BY <1>a, <1>c, <1>e, <1>d, <2>1, TaskFacts, TaskSet DEF Inv, At, Processing
<1>7. AvailableInOrder'
  <2>1. ASSUME NEW m \in Makers, NEW k \in DOMAIN Outputs(m)
        PROVE  Outputs(m)[k] \in available' <=> k < st'[Process(m)].i
    <3>1. k \in Nat
      <4>1. Outputs(m) \in Seq(Arts)
        BY OutputFacts DEF Inv
      <4> QED
        BY <4>1
    <3>2. Process(m) \in Tasks
      BY TaskSet
    <3>3. CASE m = n
      <4>1. Outputs(m)[k] = x <=> k = i
        BY <3>3, OutputFacts DEF Inv
      <4> QED
        BY <1>a, <3>1, <3>3, <4>1 DEF Inv, AvailableInOrder
    <3>4. CASE m # n
      <4>1. Outputs(m)[k] # x
        BY <1>a, <1>e, <3>4, OutputFacts DEF Inv
      <4> QED
        BY <1>e, <3>2, <3>4, <4>1 DEF Inv, AvailableInOrder
    <3> QED
      BY <3>3, <3>4
  <2> QED
    BY <1>d, <2>1 DEF AvailableInOrder
<1>8. CountExact'
  <2>1. x \notin available /\ Maker(x) = t
    BY <1>a, OutputFacts DEF Inv, AvailableInOrder
  <2>2. ASSUME NEW a \in Acts, NEW k \in DOMAIN graph.ins[a]
        PROVE  (graph.ins[a][k] \notin available' \/ <<a, k>> \in st'[Maker(graph.ins[a][k])].todo)
                <=> (graph.ins[a][k] \notin available \/ <<a, k>> \in st[Maker(graph.ins[a][k])].todo)
    <3>1. graph.ins[a][k] \in Arts
      BY GraphFacts DEF Inv
    <3>2. <<a, k>> \in Consumers(x) <=> graph.ins[a][k] = x
      BY DEF Consumers, Edges
    <3>3. Maker(graph.ins[a][k]) \in Tasks
      BY <3>1, TaskSet DEF Maker
    <3>4. CASE graph.ins[a][k] = x
      BY <2>1, <3>2, <3>4
    <3>5. CASE graph.ins[a][k] # x
      <4>1. CASE Maker(graph.ins[a][k]) = t
        BY <3>2, <3>5, <4>1
      <4>2. CASE Maker(graph.ins[a][k]) # t
        BY <3>3, <3>5, <4>2
      <4> QED
        BY <4>1, <4>2
    <3> QED
      BY <3>4, <3>5
  <2>3. \A a \in Acts : Outstanding(a)' = Outstanding(a)
    BY <1>c, <1>d, <2>2 DEF Outstanding
  <2> QED
    BY <1>c, <1>d, <2>3 DEF Inv, CountExact
<1>9. ReadyWhenQueued'
  BY <1>a, <1>c, <1>e, <1>d, ReadyKept, TaskSet DEF Inv, At, ReadyWhenQueued
<1>10. NeededOnly'
  BY <1>a, <1>c, <1>e, <1>d, TaskFacts, TaskSet DEF Inv, At, NeededOnly
<1>11. FailedWithCause'
  BY <1>a, <1>c, <1>e, <1>d, TaskFacts, TaskSet DEF Inv, At, FailedWithCause
<1>12. TargetsDiscovered'
  BY <1>a, <1>c, <1>e, <1>d, TaskFacts, TaskSet DEF Inv, At, TargetsDiscovered
<1>13. InputsDiscovered'
  BY <1>a, <1>c, <1>e, <1>d, TaskFacts, TaskSet DEF Inv, At, InputsDiscovered
<1>14. ArtifactsPursued'
  BY <1>a, <1>c, <1>e, <1>d, TaskFacts, TaskSet DEF Inv, At, ArtifactsPursued
<1>15. ReadyPursued'
  BY <1>a, <1>c, <1>e, <1>d, TaskFacts, TaskSet DEF Inv, At, ReadyPursued
<1> QED
  BY <1>1, <1>2, <1>3, <1>4, <1>5, <1>6, <1>7, <1>8, <1>9, <1>10, <1>11, <1>12, <1>13, <1>14, <1>15 DEF Inv

(* A notification on the way is for an input that is available and that is *)
(* still counted; the last one makes the action ready.                     *)
LEMMA NotificationFacts ==
  ASSUME Inv, NEW n \in Makers, NEW e \in st[Process(n)].todo
  PROVE  \E a \in Acts : \E k \in DOMAIN graph.ins[a] :
           /\ e = <<a, k>> /\ k \in Outstanding(a) /\ graph.ins[a][k] \in available
           /\ Maker(graph.ins[a][k]) = Process(n)
           /\ unavailable[a] \in Nat /\ unavailable[a] - 1 \in Nat
           /\ Cardinality(Outstanding(a) \ {k}) = unavailable[a] - 1
           /\ unavailable[a] = 1 => Ready(a)
<1>1. /\ n \in Nodes /\ e \in Edges /\ st[Process(n)].i - 1 \in DOMAIN Outputs(n)
      /\ graph.ins[e[1]][e[2]] = Outputs(n)[st[Process(n)].i - 1]
  BY TaskSet DEF Inv, Processing
<1>a. PICK a \in Acts : \E k \in DOMAIN graph.ins[a] : e = <<a, k>>
  BY <1>1 DEF Edges
<1>2. PICK k \in DOMAIN graph.ins[a] : e = <<a, k>>
  BY <1>a
<1>3. graph.ins[a][k] = Outputs(n)[st[Process(n)].i - 1]
  BY <1>1, <1>2
<1>4. st[Process(n)].i \in Nat
  BY <1>1, TaskSet DEF Inv, TypeOK
<1>5. graph.ins[a][k] \in available
  BY <1>1, <1>3, <1>4 DEF Inv, AvailableInOrder
<1>6. Maker(graph.ins[a][k]) = Process(n)
  BY <1>1, <1>3, OutputFacts DEF Inv
<1>7. k \in Outstanding(a)
  BY <1>2, <1>6 DEF Outstanding
<1>8. IsFiniteSet(Outstanding(a)) /\ unavailable[a] = Cardinality(Outstanding(a))
  BY CountZero DEF Inv, CountExact
<1>9. unavailable[a] \in Nat /\ unavailable[a] # 0
  BY <1>7, <1>8, FS_CardinalityType, FS_EmptySet
<1>10. Cardinality(Outstanding(a) \ {k}) = unavailable[a] - 1
  BY <1>7, <1>8, FS_RemoveElement
<1>11. ASSUME unavailable[a] = 1
       PROVE  Ready(a)
  <2>1. \E y : Outstanding(a) = {y}
    BY <1>8, <1>11, FS_Singleton
  <2>2. Outstanding(a) = {k}
    BY <1>7, <2>1
  <2> QED
    BY <1>5, <2>2 DEF Ready, Outstanding
<1>12. unavailable[a] - 1 \in Nat
  BY <1>9
<1>13. unavailable[a] = 1 => Ready(a)
  BY <1>11
<1> QED
  BY <1>2, <1>5, <1>6, <1>7, <1>9, <1>10, <1>12, <1>13

(* A consumer of an available output is notified. *)
LEMMA NotifiedNext ==
  ASSUME Inv, NEW t \in Tasks, NEW n \in Makers, t = Process(n), At(t, "parents"),
         NEW e \in st[t].todo,
         NEW a \in Acts, NEW k \in DOMAIN graph.ins[a],
         e = <<a, k>>, k \in Outstanding(a), graph.ins[a][k] \in available,
         Maker(graph.ins[a][k]) = t,
         unavailable[a] \in Nat, unavailable[a] - 1 \in Nat, NEW C \in BOOLEAN,
         C <=> unavailable[a] = 1,
         Cardinality(Outstanding(a) \ {k}) = unavailable[a] - 1, C => Ready(a),
         unavailable' = [unavailable EXCEPT ![a] = @ - 1],
         Becomes(t, IF C THEN "queue_process" ELSE "parents", st[t].i, a, st[t].todo \ {e}),
         UNCHANGED <<index, discovered, queued, required, available, poolVars>>
  PROVE  Inv'
<1> USE DEF Becomes
<1>a. /\ At(t, "parents") /\ t = Process(n) /\ n \in Makers /\ e \in st[t].todo /\ a \in Nodes
      /\ a # "none"
  BY TaskSet, GraphFacts DEF Inv
<1>c. UNCHANGED <<index, discovered, queued, required, available, failed, shutdown, again>>
  BY DEF poolVars
<1>f. /\ unavailable'[a] = unavailable[a] - 1 /\ unavailable' \in [Acts -> Nat]
      /\ \A b \in Acts : b # a => unavailable'[b] = unavailable[b]
  BY DEF Inv, TypeOK
<1>e. /\ n \in Nodes /\ (\A b : Visit(b) # t)
      /\ Main # t /\ \A m : m # n => Process(m) # t
  BY TaskFacts, TaskSet
<1>d. /\ UNCHANGED <<problem, graph, Arts, Acts, Nodes, Tasks, Edges, Makers, Needed, Cause>>
      /\ \A m : Outputs(m)' = Outputs(m) /\ Maker(m)' = Maker(m)
  BY <1>c, StaticFacts
<1>1. TypeOK'
  BY <1>a, <1>c, <1>f, <1>e, <1>d DEF Inv, At, TypeOK, PCs
<1>2. QueuedOnce'
  BY <1>a, <1>c, <1>f, <1>e, <1>d, TaskFacts, TaskSet DEF Inv, At, QueuedOnce
<1>3. MainTask'
  BY <1>a, <1>c, <1>f, <1>e, <1>d, TaskFacts, TaskSet DEF Inv, At, MainTask
<1>4. ArtifactVisit'
  BY <1>a, <1>c, <1>f, <1>e, <1>d, TaskFacts, TaskSet DEF Inv, At, ArtifactVisit
<1>5. ActionVisit'
  BY <1>a, <1>c, <1>f, <1>e, <1>d, TaskFacts, TaskSet DEF Inv, At, ActionVisit
<1>6. Processing'
  BY <1>a, <1>c, <1>f, <1>e, <1>d, TaskFacts, TaskSet DEF Inv, At, Processing
<1>7. AvailableInOrder'
  BY <1>a, <1>c, <1>f, <1>e, <1>d, TaskFacts, TaskSet DEF Inv, At, AvailableInOrder
<1>8. CountExact'
  <2>1. ASSUME NEW b \in Acts, NEW h \in DOMAIN graph.ins[b]
        PROVE  <<b, h>> \in st'[Maker(graph.ins[b][h])].todo
                <=> <<b, h>> \in st[Maker(graph.ins[b][h])].todo /\ ~(b = a /\ h = k)
    <3>1. graph.ins[b][h] \in Arts
      BY GraphFacts DEF Inv
    <3>3. Maker(graph.ins[b][h]) \in Tasks
      BY <3>1, TaskSet DEF Maker
    <3>4. CASE Maker(graph.ins[b][h]) = t
      BY <3>4
    <3>5. CASE Maker(graph.ins[b][h]) # t
      BY <3>3, <3>5
    <3> QED
      BY <3>4, <3>5
  <2>2. Outstanding(a)' = Outstanding(a) \ {k}
    BY <1>c, <1>d, <2>1 DEF Outstanding
  <2>3. \A b \in Acts : b # a => Outstanding(b)' = Outstanding(b)
    BY <1>c, <1>d, <2>1 DEF Outstanding
  <2> QED
    BY <1>d, <1>f, <2>2, <2>3 DEF Inv, CountExact
<1>9. ReadyWhenQueued'
  BY <1>a, <1>c, <1>f, <1>e, <1>d, ReadyKept, TaskSet DEF Inv, At, ReadyWhenQueued
<1>10. NeededOnly'
  BY <1>a, <1>c, <1>f, <1>e, <1>d, TaskFacts, TaskSet DEF Inv, At, NeededOnly
<1>11. FailedWithCause'
  BY <1>a, <1>c, <1>f, <1>e, <1>d, TaskFacts, TaskSet DEF Inv, At, FailedWithCause
<1>12. TargetsDiscovered'
  BY <1>a, <1>c, <1>f, <1>e, <1>d, TaskFacts, TaskSet DEF Inv, At, TargetsDiscovered
<1>13. InputsDiscovered'
  BY <1>a, <1>c, <1>f, <1>e, <1>d, TaskFacts, TaskSet DEF Inv, At, InputsDiscovered
<1>14. ArtifactsPursued'
  BY <1>a, <1>c, <1>f, <1>e, <1>d, TaskFacts, TaskSet DEF Inv, At, ArtifactsPursued
<1>15. ReadyPursued'
  BY <1>a, <1>c, <1>f, <1>e, <1>d, TaskFacts, TaskSet DEF Inv, At, ReadyPursued
<1> QED
  BY <1>1, <1>2, <1>3, <1>4, <1>5, <1>6, <1>7, <1>8, <1>9, <1>10, <1>11, <1>12, <1>13, <1>14, <1>15 DEF Inv

-----------------------------------------------------------------------------
(* Every step of a task preserves the invariant. *)
LEMMA TaskStepNext ==
  ASSUME Inv, NEW t \in Tasks, TaskStep(t)
  PROVE  Inv'
<1> DEFINE n == st[t].cur
<1>1. CASE TraverseNext(t)
  <2>1. CASE st[t].todo = {} /\ Goto(t, "done")
    BY <1>1, <2>1, TraverseEndsNext DEF TraverseNext
  <2>2. CASE \E x \in st[t].todo :
               st' = [st EXCEPT ![t].pc = IF x \in Arts THEN "queue_visit" ELSE "abort",
                                ![t].cur = x, ![t].todo = @ \ {x}]
    BY <1>1, <2>2, TraverseTargetNext DEF TraverseNext
  <2> QED
    BY <1>1, <2>1, <2>2 DEF TraverseNext
<1>2. CASE QueueVisit(t)
  <2>1. At(t, "queue_visit") /\ UNCHANGED <<index, queued, required, unavailable, available, failed, shutdown>>
    BY <1>2 DEF QueueVisit
  <2>2. TypeOK
    BY DEF Inv
  <2>3. CASE failed \/ n \in discovered
    <3>1. /\ UNCHANGED <<index, nodeVars, poolVars>>
          /\ Becomes(t, AfterVisit(t), st[t].i, st[t].cur, st[t].todo)
      BY <1>2, <2>2, <2>3, GotoEffect DEF QueueVisit, nodeVars, poolVars
    <3>2. CASE t = Main /\ n \in problem.targets \cap Arts
      <4>1. AfterVisit(t) = "traverse" /\ n \in Nodes
        BY <2>2, <3>2, TaskFacts, TaskSet, GraphFacts DEF AfterVisit, Main
      <4> QED
        BY <2>1, <2>3, <3>1, <3>2, <4>1, SkipTargetNext
    <3>3. ASSUME NEW x \in Arts, t = Visit(x), graph.builder[x] \in Acts, n = graph.builder[x]
          PROVE  Inv'
      <4>1. AfterVisit(t) = "done" /\ n \in Nodes
        BY <2>2, <3>3, TaskFacts, TaskSet, GraphFacts DEF AfterVisit
      <4> QED
        BY <2>1, <2>3, <3>1, <3>3, <4>1, SkipBuilderNext
    <3>4. ASSUME NEW a \in Acts, t = Visit(a), NEW k \in DOMAIN graph.ins[a], n = graph.ins[a][k]
          PROVE  Inv'
      <4>1. n \in Arts
        BY <2>2, <3>4, GraphFacts
      <4>2. AfterVisit(t) = "deps" /\ n \in Nodes
        BY <3>4, <4>1, TaskFacts, TaskSet DEF AfterVisit
      <4> QED
        BY <2>1, <2>3, <3>1, <3>4, <4>1, <4>2, SkipInputNext
    <3> QED
      BY <2>1, <3>2, <3>3, <3>4, Kinds
  <2>4. CASE ~failed /\ n \notin discovered
    <3>1. QueueTask(t, AfterVisit(t), Visit(n)) /\ discovered' = discovered \cup {n}
      BY <1>2, <2>4 DEF QueueVisit
    <3>2. ASSUME n \in Nodes
          PROVE  /\ again' = again /\ Queues(t, AfterVisit(t), Visit(n))
      <4>1. Visit(n) \in Tasks /\ At(Visit(n), "none")
        BY <2>4, <3>2, TaskSet DEF Inv, QueuedOnce
      <4>2. Visit(n) # t
        BY <2>1, <4>1 DEF At
      <4> QED
        BY <2>2, <3>1, <4>1, <4>2, QueueEffect
    <3>3. CASE t = Main /\ n \in problem.targets \cap Arts
      <4>1. AfterVisit(t) = "traverse" /\ n \in Nodes
        BY <2>2, <3>3, TaskFacts, TaskSet, GraphFacts DEF AfterVisit, Main
      <4> QED
        BY <2>1, <2>4, <3>1, <3>2, <3>3, <4>1, QueueTargetNext
    <3>4. ASSUME NEW x \in Arts, t = Visit(x), graph.builder[x] \in Acts, n = graph.builder[x]
          PROVE  Inv'
      <4>1. AfterVisit(t) = "done" /\ n \in Nodes
        BY <2>2, <3>4, TaskFacts, TaskSet, GraphFacts DEF AfterVisit
      <4> QED
        BY <2>1, <2>4, <3>1, <3>2, <3>4, <4>1, QueueBuilderNext
    <3>5. ASSUME NEW a \in Acts, t = Visit(a), NEW k \in DOMAIN graph.ins[a], n = graph.ins[a][k]
          PROVE  Inv'
      <4>1. n \in Arts
        BY <2>2, <3>5, GraphFacts
      <4>2. AfterVisit(t) = "deps" /\ n \in Nodes
        BY <3>5, <4>1, TaskFacts, TaskSet DEF AfterVisit
      <4> QED
        BY <2>1, <2>4, <3>1, <3>2, <3>5, <4>1, <4>2, QueueInputNext
    <3> QED
      BY <2>1, <3>3, <3>4, <3>5, Kinds
  <2> QED
    BY <2>3, <2>4
<1>3. CASE QueueProcessing(t)
  <2>1. At(t, "queue_process") /\ UNCHANGED <<index, discovered, required, unavailable, available, failed, shutdown>>
    BY <1>3 DEF QueueProcessing
  <2>2. TypeOK
    BY DEF Inv
  <2>3. CASE failed \/ n \notin required \/ n \in queued
    <3>1. /\ UNCHANGED <<index, nodeVars, poolVars>>
          /\ Becomes(t, AfterProcessing(t), st[t].i, st[t].cur, st[t].todo)
      BY <1>3, <2>2, <2>3, GotoEffect DEF QueueProcessing, nodeVars, poolVars
    <3>2. ASSUME NEW x \in Arts, t = Visit(x), graph.builder[x] \notin Acts, n = x
          PROVE  Inv'
      <4>1. AfterProcessing(t) = "done" /\ x \in Nodes /\ x \in Makers
        BY <3>2, TaskFacts, TaskSet DEF AfterProcessing, Makers
      <4> QED
        BY <2>1, <2>3, <3>1, <3>2, <4>1, PassLeafNext
    <3>3. ASSUME NEW a \in Acts, t = Visit(a), n = a
          PROVE  Inv'
      <4>1. AfterProcessing(t) = "done" /\ a \in Nodes /\ a \in Makers
        BY <3>3, TaskFacts, TaskSet DEF AfterProcessing, Makers
      <4> QED
        BY <2>1, <2>3, <3>1, <3>3, <4>1, PassActionNext
    <3>4. ASSUME NEW m \in Makers, t = Process(m), n \in Acts
          PROVE  Inv'
      <4>1. AfterProcessing(t) = "parents" /\ m \in Nodes /\ n \in Nodes /\ n \in Makers
        BY <3>4, TaskFacts, TaskSet DEF AfterProcessing, Makers
      <4> QED
        BY <2>1, <2>3, <3>1, <3>4, <4>1, PassParentNext
    <3> QED
      BY <2>1, <3>2, <3>3, <3>4, Kinds
  <2>4. CASE ~failed /\ n \in required /\ n \notin queued
    <3>1. QueueTask(t, AfterProcessing(t), Process(n)) /\ queued' = queued \cup {n}
      BY <1>3, <2>4 DEF QueueProcessing
    <3>2. ASSUME n \in Nodes
          PROVE  /\ again' = again /\ Queues(t, AfterProcessing(t), Process(n))
      <4>1. Process(n) \in Tasks /\ At(Process(n), "none")
        BY <2>4, <3>2, TaskSet DEF Inv, QueuedOnce
      <4>2. Process(n) # t
        BY <2>1, <4>1 DEF At
      <4> QED
        BY <2>2, <3>1, <4>1, <4>2, QueueEffect
    <3>3. ASSUME NEW x \in Arts, t = Visit(x), graph.builder[x] \notin Acts, n = x
          PROVE  Inv'
      <4>1. AfterProcessing(t) = "done" /\ x \in Nodes /\ x \in Makers
        BY <3>3, TaskFacts, TaskSet DEF AfterProcessing, Makers
      <4> QED
        BY <2>1, <2>4, <3>1, <3>2, <3>3, <4>1, ProcessLeafNext
    <3>4. ASSUME NEW a \in Acts, t = Visit(a), n = a
          PROVE  Inv'
      <4>1. AfterProcessing(t) = "done" /\ a \in Nodes /\ a \in Makers
        BY <3>4, TaskFacts, TaskSet DEF AfterProcessing, Makers
      <4> QED
        BY <2>1, <2>4, <3>1, <3>2, <3>4, <4>1, ProcessActionNext
    <3>5. ASSUME NEW m \in Makers, t = Process(m), n \in Acts
          PROVE  Inv'
      <4>1. AfterProcessing(t) = "parents" /\ m \in Nodes /\ n \in Nodes /\ n \in Makers
        BY <3>5, TaskFacts, TaskSet DEF AfterProcessing, Makers
      <4> QED
        BY <2>1, <2>4, <3>1, <3>2, <3>5, <4>1, ProcessParentNext
    <3> QED
      BY <2>1, <3>3, <3>4, <3>5, Kinds
  <2> QED
    BY <2>3, <2>4
<1>4. CASE MarkRequired(t)
  <2>1. t.op = "visit"
    BY <1>4 DEF MarkRequired, Starts
  <2>2. PICK x \in Nodes : t = Visit(x)
    BY <2>1, TaskSet, TaskFacts
  <2> QED
    BY <1>4, <2>2, TaskSet, MarkRequiredArtNext, MarkRequiredActNext
<1>5. CASE VisitArtifact(t)
  <2>1. PICK x \in Arts : t = Visit(x)
    BY <1>5, Kinds DEF VisitArtifact
  <2>2. t.node = x /\ At(t, "test") /\ UNCHANGED <<index, nodeVars, poolVars>>
    BY <1>5, <2>1, TaskFacts DEF VisitArtifact
  <2>3. CASE x \in available
    BY <1>5, <2>1, <2>2, <2>3, VisitBuiltNext DEF VisitArtifact
  <2>4. CASE x \notin available
    <3>1. st' = [st EXCEPT ![t].pc  = IF graph.builder[x] \in Acts THEN "queue_visit" ELSE "queue_process",
                           ![t].cur = IF graph.builder[x] \in Acts THEN graph.builder[x] ELSE x]
      BY <1>5, <2>2, <2>4 DEF VisitArtifact
    <3> QED
      BY <2>1, <2>2, <2>4, <3>1, VisitMissingNext
  <2> QED
    BY <2>3, <2>4
<1>6. CASE VisitDependency(t)
  <2>1. PICK a \in Acts : t = Visit(a)
    BY <1>6, Kinds DEF VisitDependency
  <2>2. t.node = a /\ At(t, "deps") /\ UNCHANGED <<index, nodeVars, poolVars>>
    BY <1>6, <2>1, TaskFacts DEF VisitDependency
  <2> DEFINE k == st[t].i
             x == graph.ins[a][k]
  <2>3. graph.ins[a] \in Seq(Arts) /\ k \in Nat \ {0} /\ k <= Len(graph.ins[a])
    BY <1>6, <2>2, GraphFacts DEF Inv, TypeOK, VisitDependency
  <2>4. k \in DOMAIN graph.ins[a] /\ x \in Arts
    BY <2>3
  <2>5. k + 1 \in Nat \ {0} /\ \A q \in DOMAIN graph.ins[a] : q < k + 1 => q < k \/ q = k
    BY <2>3
  <2>6. Becomes(t, IF x \in available THEN "deps" ELSE "queue_visit", k + 1, x, st[t].todo)
    BY <1>6, <2>2 DEF VisitDependency, Becomes, Inv, TypeOK
  <2> HIDE DEF x
  <2>7. CASE x \in available
    BY <2>1, <2>2, <2>4, <2>5, <2>6, <2>7, DependencyThereNext DEF x
  <2>8. CASE x \notin available
    BY <2>1, <2>2, <2>4, <2>5, <2>6, <2>8, DependencyMissingNext DEF x
  <2> QED
    BY <2>7, <2>8
<1>7. CASE VisitReady(t)
  <2>1. PICK a \in Acts : t = Visit(a)
    BY <1>7, Kinds DEF VisitReady
  <2>2. /\ t.node = a /\ At(t, "deps") /\ st[t].i > Len(graph.ins[a])
        /\ UNCHANGED <<index, nodeVars, poolVars>>
    BY <1>7, <2>1, TaskFacts DEF VisitReady
  <2>3. CASE unavailable[a] = 0
    BY <1>7, <2>1, <2>2, <2>3, VisitReadyNext DEF VisitReady
  <2>4. CASE unavailable[a] # 0
    BY <1>7, <2>1, <2>2, <2>4, VisitWaitsNext DEF VisitReady
  <2> QED
    BY <2>3, <2>4
<1>8. CASE RunProcess(t)
  <2>1. t.op = "process"
    BY <1>8 DEF RunProcess, Starts
  <2>2. PICK x \in Nodes : t = Process(x)
    BY <2>1, TaskSet, TaskFacts
  <2> QED
    BY <1>8, <2>2, ProcessesNext
<1>9. CASE MakeAvailable(t)
  <2>1. PICK m \in Makers : t = Process(m)
    BY <1>9, Kinds DEF MakeAvailable
  <2>2. t.node = m
    BY <2>1, TaskFacts
  <2> DEFINE i == st[t].i
             x == Outputs(m)[i]
  <2>3. /\ At(t, "parents") /\ st[t].todo = {} /\ UNCHANGED <<index, discovered, queued, required, unavailable, poolVars>>
        /\ i <= Len(Outputs(m)) /\ available' = available \cup {x}
        /\ st' = [st EXCEPT ![t].i = @ + 1, ![t].todo = Consumers(x)]
    BY <1>9, <2>2 DEF MakeAvailable
  <2>4. Outputs(m) \in Seq(Arts) /\ i \in Nat \ {0}
    BY OutputFacts DEF Inv, TypeOK
  <2>5. i \in DOMAIN Outputs(m) /\ x \in Arts
    BY <2>3, <2>4
  <2>6. i + 1 \in Nat \ {0} /\ (i + 1) - 1 = i /\ \A q \in Nat : q < i + 1 <=> q < i \/ q = i
    BY <2>4
  <2>7. Becomes(t, "parents", i + 1, st[t].cur, Consumers(x))
    BY <2>3 DEF Becomes, Inv, TypeOK, At
  <2> HIDE DEF x
  <2> QED
    BY <2>1, <2>3, <2>5, <2>6, <2>7, OutputAvailableNext DEF x
<1>10. CASE NotifyParent(t)
  <2>1. PICK m \in Makers : t = Process(m)
    BY <1>10, Kinds DEF NotifyParent
  <2>2. PICK e \in st[t].todo :
          /\ unavailable' = [unavailable EXCEPT ![e[1]] = @ - 1]
          /\ st' = [st EXCEPT ![t].todo = @ \ {e}, ![t].cur = e[1],
                              ![t].pc = IF unavailable[e[1]] = 1 THEN "queue_process" ELSE "parents"]
    BY <1>10 DEF NotifyParent
  <2>3. PICK a \in Acts : \E k \in DOMAIN graph.ins[a] :
           /\ e = <<a, k>> /\ k \in Outstanding(a) /\ graph.ins[a][k] \in available
           /\ Maker(graph.ins[a][k]) = Process(m)
           /\ unavailable[a] \in Nat /\ unavailable[a] - 1 \in Nat
           /\ Cardinality(Outstanding(a) \ {k}) = unavailable[a] - 1
           /\ unavailable[a] = 1 => Ready(a)
    BY <2>1, NotificationFacts
  <2>4. PICK k \in DOMAIN graph.ins[a] :
           /\ e = <<a, k>> /\ k \in Outstanding(a) /\ graph.ins[a][k] \in available
           /\ Maker(graph.ins[a][k]) = Process(m)
           /\ unavailable[a] \in Nat /\ unavailable[a] - 1 \in Nat
           /\ Cardinality(Outstanding(a) \ {k}) = unavailable[a] - 1
           /\ unavailable[a] = 1 => Ready(a)
    BY <2>3
  <2>5. e[1] = a
    BY <2>4
  <2>6. /\ unavailable' = [unavailable EXCEPT ![a] = @ - 1]
        /\ st' = [st EXCEPT ![t].todo = @ \ {e}, ![t].cur = a,
                            ![t].pc = IF unavailable[a] = 1 THEN "queue_process" ELSE "parents"]
    BY <2>2, <2>5
  <2> DEFINE C == unavailable[a] = 1
  <2>7. Becomes(t, IF C THEN "queue_process" ELSE "parents", st[t].i, a, st[t].todo \ {e})
    BY <2>6 DEF Becomes, Inv, TypeOK
  <2>8. At(t, "parents") /\ UNCHANGED <<index, discovered, queued, required, available, poolVars>>
    BY <1>10 DEF NotifyParent
  <2>9. C \in BOOLEAN /\ (C <=> unavailable[a] = 1) /\ (C => Ready(a))
    BY <2>4
  <2> HIDE DEF C
  <2> QED
    BY <2>1, <2>4, <2>6, <2>7, <2>8, <2>9, NotifiedNext
<1>11. CASE NotifiedAll(t)
  <2>1. PICK m \in Makers : t = Process(m)
    BY <1>11, Kinds DEF NotifiedAll
  <2> QED
    BY <1>11, <2>1, TaskSet, NotifiedAllNext
<1>12. CASE Abort(t)
  BY <1>12, AbortNext
<1>13. CASE AbortShutdown(t)
  BY <1>13, AbortShutdownNext
<1> QED
  BY <1>1, <1>2, <1>3, <1>4, <1>5, <1>6, <1>7, <1>8, <1>9, <1>10, <1>11, <1>12, <1>13 DEF TaskStep

(* A step that changes nothing preserves the invariant. *)
LEMMA StutterNext ==
  ASSUME Inv, UNCHANGED vars
  PROVE  Inv'
<1>1. UNCHANGED <<index, discovered, queued, required, unavailable, available, failed, shutdown, st, again>>
  BY DEF vars
<1>2. /\ UNCHANGED <<problem, graph, Arts, Acts, Nodes, Tasks, Edges, Makers, Needed, Cause>>
      /\ \A n : Outputs(n)' = Outputs(n) /\ Maker(n)' = Maker(n)
  BY <1>1, StaticFacts
<1> USE <1>1, <1>2 DEF Inv, At
<1>3. TypeOK'
  BY DEF TypeOK
<1>4. QueuedOnce'
  BY DEF QueuedOnce
<1>5. MainTask'
  BY DEF MainTask
<1>6. ArtifactVisit'
  BY DEF ArtifactVisit
<1>7. ActionVisit'
  BY DEF ActionVisit
<1>8. Processing'
  BY DEF Processing
<1>9. AvailableInOrder'
  BY DEF AvailableInOrder
<1>10. CountExact'
  BY DEF CountExact, Outstanding
<1>11. ReadyWhenQueued'
  BY DEF ReadyWhenQueued, Ready
<1>12. NeededOnly'
  BY DEF NeededOnly
<1>13. FailedWithCause'
  BY DEF FailedWithCause
<1>14. TargetsDiscovered'
  BY DEF TargetsDiscovered
<1>15. InputsDiscovered'
  BY DEF InputsDiscovered
<1>16. ArtifactsPursued'
  BY DEF ArtifactsPursued
<1>17. ReadyPursued'
  BY DEF ReadyPursued
<1> QED
  BY <1>3, <1>4, <1>5, <1>6, <1>7, <1>8, <1>9, <1>10, <1>11, <1>12, <1>13, <1>14, <1>15, <1>16, <1>17

(* The initial states satisfy the invariant. *)
LEMMA InitInv ==
  ASSUME Init
  PROVE  Inv
<1> USE DEF At
<1>a. /\ index \in DOMAIN Problems /\ discovered = {} /\ queued = {} /\ required = {}
      /\ available = {}
      /\ failed = FALSE /\ shutdown = FALSE /\ again = {}
      /\ unavailable = [a \in Acts |-> Len(graph.ins[a])]
      /\ DOMAIN st = Tasks
  BY DEF Init, UnavailableDeps
<1>b. \A t \in Tasks : /\ DOMAIN st[t] = {"pc", "i", "cur", "todo"}
                       /\ st[t].pc = (IF t = Main THEN "traverse" ELSE "none") /\ st[t].i = 1 /\ st[t].cur = "none"
                       /\ st[t].todo = (IF t = Main THEN problem.targets ELSE {})
  BY DEF Init
<1>c. \A a \in Acts : graph.ins[a] \in Seq(Arts)
  BY <1>a, WellFormedGraph
<1>1. TypeOK
  <2>1. unavailable \in [Acts -> Nat]
    BY <1>a, <1>c
  <2>2. \A t \in Tasks : /\ st[t].pc \in PCs /\ st[t].i \in Nat \ {0}
                         /\ st[t].cur \in Nodes \cup problem.targets \cup {"none"}
    BY <1>b DEF PCs
  <2>3. \A t \in Tasks : st[t].todo \subseteq (IF t = Main THEN problem.targets ELSE Edges)
    BY <1>b
  <2> QED
    BY <1>a, <1>b, <2>1, <2>2, <2>3 DEF TypeOK
<1>8. CountExact
  <2>1. ASSUME NEW a \in Acts
        PROVE  unavailable[a] = Cardinality(Outstanding(a))
    <3>1. Outstanding(a) = 1 .. Len(graph.ins[a])
      BY <1>a, <1>c DEF Outstanding
    <3>2. Len(graph.ins[a]) \in Nat
      BY <1>c
    <3>3. Cardinality(1 .. Len(graph.ins[a])) = Len(graph.ins[a])
      BY <3>2, FS_Interval
    <3> QED
      BY <1>a, <3>1, <3>3
  <2> QED
    BY <2>1 DEF CountExact
<1>7. AvailableInOrder
  <2>1. ASSUME NEW n \in Makers, NEW k \in DOMAIN Outputs(n)
        PROVE  ~(k < st[Process(n)].i)
    <3>1. Outputs(n) \in Seq(Arts)
      BY <1>1, OutputFacts
    <3>2. k \in Nat \ {0} /\ st[Process(n)].i = 1
      BY <1>b, <3>1, TaskSet
    <3> QED
      BY <3>2
  <2> QED
    BY <1>a, <2>1 DEF AvailableInOrder
<1>2. QueuedOnce
  BY <1>a, <1>b, TaskFacts, TaskSet DEF QueuedOnce
<1>3. MainTask
  BY <1>a, <1>b, TaskFacts, TaskSet DEF MainTask
<1>4. ArtifactVisit
  BY <1>a, <1>b, TaskFacts, TaskSet DEF ArtifactVisit
<1>5. ActionVisit
  BY <1>a, <1>b, TaskFacts, TaskSet DEF ActionVisit
<1>6. Processing
  BY <1>a, <1>b, TaskFacts, TaskSet DEF Processing
<1>9. ReadyWhenQueued
  BY <1>a, <1>b, TaskFacts, TaskSet DEF ReadyWhenQueued, Ready
<1>10. NeededOnly
  BY <1>a, <1>b, TaskFacts, TaskSet DEF NeededOnly
<1>11. FailedWithCause
  BY <1>a, <1>b, TaskFacts, TaskSet DEF FailedWithCause
<1>12. TargetsDiscovered
  BY <1>a, <1>b, TaskFacts, TaskSet DEF TargetsDiscovered
<1>13. InputsDiscovered
  BY <1>a, <1>b, TaskFacts, TaskSet DEF InputsDiscovered
<1>14. ArtifactsPursued
  BY <1>a, <1>b, TaskFacts, TaskSet DEF ArtifactsPursued
<1>15. ReadyPursued
  BY <1>a, <1>b, TaskFacts, TaskSet DEF ReadyPursued
<1> QED
  BY <1>1, <1>2, <1>3, <1>4, <1>5, <1>6, <1>7, <1>8, <1>9, <1>10, <1>11, <1>12, <1>13, <1>14, <1>15 DEF Inv

-----------------------------------------------------------------------------
(* The number of tasks, the counts of missing inputs and everything else  *)
(* stay within their types; in particular no count goes below zero.       *)
THEOREM InvariantHolds == Spec => []Inv
<1>1. Init => Inv
  BY InitInv
<1>2. Inv /\ [Next]_vars => Inv'
  <2> SUFFICES ASSUME Inv, [Next]_vars
               PROVE  Inv'
    OBVIOUS
  <2>1. CASE \E t \in Tasks : TaskStep(t)
    BY <2>1, TaskStepNext
  <2>2. CASE UNCHANGED vars
    BY <2>2, StutterNext
  <2> QED
    BY <2>1, <2>2 DEF Next, Terminated
<1> QED
  BY <1>1, <1>2, PTL DEF Spec

(* TypeOK: no count of missing inputs goes below zero, and each task works *)
(* on a node of the graph.                                                 *)
THEOREM TypeCorrect == Spec => []TypeOK
<1>1. Inv => TypeOK
  BY DEF Inv
<1> QED
  BY <1>1, InvariantHolds, PTL

(* unavailable_deps_: whatever visits and notifications overlap, the count *)
(* of an action is that of its input paths whose notification is missing.  *)
THEOREM CountsAreExact == Spec => []CountExact
<1>1. Inv => CountExact
  BY DEF Inv
<1> QED
  BY <1>1, InvariantHolds, PTL

(* NotifyAvailable, QueueProcessing: no action is handed to the executor   *)
(* before all its inputs are available, whichever task queued it.          *)
THEOREM ActionsHaveInputs == Spec => []InputsBeforeAction
<1>1. Inv => InputsBeforeAction
  <2> SUFFICES ASSUME Inv, NEW a \in Acts, Processed(a)
               PROVE  Ready(a)
    BY DEF InputsBeforeAction, Ready
  <2>1. a \in queued
    BY TaskSet DEF Inv, QueuedOnce, Processed
  <2> QED
    BY <2>1 DEF Inv, ReadyWhenQueued
<1> QED
  BY <1>1, InvariantHolds, PTL

(* GetAndMarkDiscovered, is_required_: only what the targets are made from *)
(* is visited or processed, and each node once.                            *)
THEOREM NothingUnneeded == Spec => []OnlyNeeded
<1>1. Inv => OnlyNeeded
  BY DEF Inv, OnlyNeeded, QueuedOnce, NeededOnly, Processed
<1> QED
  BY <1>1, InvariantHolds, PTL

(* What holds of a traversal that has come to rest without a failure. *)
LEMMA AtRest ==
  ASSUME Inv, Quiescent, ~failed
  PROVE  /\ problem.targets \cap Arts \subseteq discovered
         /\ \A x \in Arts \cap discovered :
              x \in available \/ x \in queued \/ (graph.builder[x] \in Acts /\ graph.builder[x] \in discovered)
         /\ \A a \in Acts \cap discovered : \A k \in DOMAIN graph.ins[a] :
              graph.ins[a][k] \in available \cup discovered
         /\ \A n \in queued : n \in Makers /\ \A k \in DOMAIN Outputs(n) : Outputs(n)[k] \in available
         /\ \A a \in Acts \cap discovered : Ready(a) => a \in queued
<1>1. \A t \in Tasks : st[t].pc \in {"none", "done"}
  BY DEF Inv, Quiescent, FailedWithCause, At
<1>2. problem.targets \cap Arts \subseteq discovered
  <2>1. At(Main, "done")
    BY <1>1, TaskSet DEF Inv, MainTask, At
  <2> QED
    BY <2>1 DEF Inv, TargetsDiscovered, At
<1>3. \A n \in Nodes : /\ n \in discovered => At(Visit(n), "done") /\ n \in required
                       /\ n \in queued => At(Process(n), "done")
  BY <1>1, TaskSet DEF Inv, QueuedOnce, At
<1>4. ASSUME NEW x \in Arts, x \in discovered
      PROVE  x \in available \/ x \in queued \/ (graph.builder[x] \in Acts /\ graph.builder[x] \in discovered)
  BY <1>3, <1>4, TaskSet DEF Inv, ArtifactsPursued
<1>5. ASSUME NEW a \in Acts, a \in discovered, NEW k \in DOMAIN graph.ins[a]
      PROVE  graph.ins[a][k] \in available \cup discovered
  <2>1. At(Visit(a), "done")
    BY <1>3, <1>5, TaskSet
  <2>2. st[Visit(a)].i > Len(graph.ins[a]) /\ st[Visit(a)].i \in Nat
    BY <2>1, TaskSet DEF Inv, TypeOK, ActionVisit, At
  <2>3. graph.ins[a] \in Seq(Arts)
    BY GraphFacts DEF Inv
  <2>4. k < st[Visit(a)].i
    BY <2>2, <2>3
  <2> QED
    BY <2>1, <2>4 DEF Inv, InputsDiscovered, At
<1>6. ASSUME NEW n \in queued
      PROVE  n \in Makers /\ \A k \in DOMAIN Outputs(n) : Outputs(n)[k] \in available
  <2>1. n \in Nodes
    BY DEF Inv, TypeOK
  <2>2. At(Process(n), "done")
    BY <1>3, <2>1
  <2>3. n \in Makers /\ st[Process(n)].i > Len(Outputs(n)) /\ st[Process(n)].i \in Nat
    BY <2>1, <2>2, TaskSet DEF Inv, TypeOK, Processing, At
  <2>4. Outputs(n) \in Seq(Arts)
    BY <2>3, OutputFacts DEF Inv
  <2>5. \A k \in DOMAIN Outputs(n) : k < st[Process(n)].i
    BY <2>3, <2>4
  <2> QED
    BY <2>3, <2>5 DEF Inv, AvailableInOrder
<1>7. ASSUME NEW a \in Acts, a \in discovered, Ready(a)
      PROVE  a \in queued
  <2>1. \A n \in Nodes : st[Process(n)].todo = {}
    BY <1>1, TaskSet DEF Inv, Processing
  <2>2. \A x \in Arts : \E n \in Nodes : Maker(x) = Process(n)
    BY TaskSet DEF Maker
  <2>3. \A k \in DOMAIN graph.ins[a] : graph.ins[a][k] \in Arts
    BY GraphFacts DEF Inv
  <2>4. Outstanding(a) = {}
    BY <1>7, <2>1, <2>2, <2>3 DEF Outstanding, Ready
  <2>5. unavailable[a] = 0
    BY <2>4, FS_EmptySet DEF Inv, CountExact
  <2>6. a \in required /\ At(Visit(a), "done")
    BY <1>3, <1>7, TaskSet
  <2> QED
    BY <1>1, <2>5, <2>6 DEF Inv, ReadyPursued, At
<1> QED
  BY <1>2, <1>4, <1>5, <1>6, <1>7

(* Then everything discovered is there: otherwise take, among the missing *)
(* artifacts and unqueued actions, one that is made from none of them.     *)
LEMMA AllMade ==
  ASSUME Inv, Quiescent, ~failed
  PROVE  Needed \cap Arts \subseteq available
<1> DEFINE B == {x \in Arts : x \in discovered /\ x \notin available}
                 \cup {a \in Acts : a \in discovered /\ a \notin queued}
           S == available \cup {a \in Acts : a \in queued}
<1>0. TypeOK
  BY DEF Inv
<1>1. \A n, m : m \in Below(graph, {n}) <=>
        (IF n \in Acts THEN \E i \in DOMAIN graph.ins[n] : m = graph.ins[n][i] ELSE m = graph.builder[n] /\ m \in Acts)
  BY DEF Below, Acts
<1>2. ASSUME NEW n \in Arts, n \in discovered, n \notin available, Below(graph, {n}) \cap B = {}
      PROVE  FALSE
  <2>1. n \notin Acts
    BY <1>0, GraphFacts
  <2>2. CASE n \in queued
    <3>1. n \in Makers /\ \A k \in DOMAIN Outputs(n) : Outputs(n)[k] \in available
      BY <2>2, AtRest
    <3>2. Outputs(n) = <<n>>
      BY DEF Outputs
    <3>3. 1 \in DOMAIN <<n>> /\ <<n>>[1] = n
      OBVIOUS
    <3> QED
      BY <1>2, <3>1, <3>2, <3>3
  <2>3. CASE graph.builder[n] \in Acts /\ graph.builder[n] \in discovered
    <3> DEFINE b == graph.builder[n]
    <3>1. b \in queued
      BY <1>1, <1>2, <2>1, <2>3
    <3>2. \A k \in DOMAIN Outputs(b) : Outputs(b)[k] \in available
      BY <3>1, AtRest
    <3>3. \E i \in DOMAIN graph.outs[b] : graph.outs[b][i] = n
      BY <1>0, <2>3, GraphFacts
    <3>4. Outputs(b) = graph.outs[b]
      BY <1>0, <2>3, GraphFacts DEF Outputs
    <3> QED
      BY <1>2, <3>2, <3>3, <3>4
  <2> QED
    BY <1>2, <2>2, <2>3, AtRest
<1>3. ASSUME NEW n \in Acts, n \in discovered, n \notin queued, Below(graph, {n}) \cap B = {}
      PROVE  FALSE
  <2>1. ASSUME NEW k \in DOMAIN graph.ins[n]
        PROVE  graph.ins[n][k] \in available
    <3>1. graph.ins[n][k] \in Arts
      BY <1>0, GraphFacts
    <3>2. graph.ins[n][k] \notin B
      BY <1>1, <1>3
    <3>3. graph.ins[n][k] \in available \cup discovered
      BY <1>3, AtRest
    <3> QED
      BY <3>1, <3>2, <3>3
  <2> QED
    BY <1>3, <2>1, AtRest DEF Ready
<1>4. B = {}
  <2>1. B \in SUBSET (Arts \cup Acts)
    OBVIOUS
  <2>2. ASSUME B # {}
        PROVE  \E n \in B : Below(graph, {n}) \cap B = {}
    <3>1. WellFormed(graph)
      BY <1>0, GraphFacts
    <3> HIDE DEF B
    <3> QED
      BY <2>1, <2>2, <3>1 DEF WellFormed, Arts, Acts
  <2> QED
    BY <1>2, <1>3, <2>2
<1>5. ASSUME NEW x \in Arts, x \in available, graph.builder[x] \in Acts
      PROVE  graph.builder[x] \in queued
  <2> DEFINE b == graph.builder[x]
  <2>1. b \in Makers /\ b \in Nodes
    BY <1>5, TaskSet DEF Makers
  <2>2. PICK k \in DOMAIN Outputs(b) : Outputs(b)[k] = x
    BY <1>0, <1>5, GraphFacts DEF Outputs
  <2>3. Outputs(b) \in Seq(Arts)
    BY <1>0, <2>1, OutputFacts
  <2>4. k \in Nat \ {0}
    BY <2>3
  <2>5. k < st[Process(b)].i
    BY <1>5, <2>1, <2>2 DEF Inv, AvailableInOrder
  <2>6. st[Process(b)].i # 1
    BY <2>4, <2>5
  <2>7. ~At(Process(b), "none")
    BY <2>1, <2>6 DEF Inv, Processing, At
  <2> QED
    BY <2>1, <2>7 DEF Inv, QueuedOnce
<1>6. S \in SUBSET Nodes
  BY <1>0, TaskSet DEF TypeOK
<1>7. Below(graph, S) \subseteq S
  <2>1. \A n \in S : Below(graph, {n}) \subseteq S
    <3>1. ASSUME NEW n \in available, NEW y \in Below(graph, {n})
          PROVE  y \in S
      <4>1. n \in Arts /\ n \notin Acts
        BY <1>0, GraphFacts DEF TypeOK
      <4> QED
        BY <1>1, <1>5, <3>1, <4>1
    <3>2. ASSUME NEW n \in Acts, n \in queued, NEW y \in Below(graph, {n})
          PROVE  y \in S
      <4>1. \A k \in DOMAIN graph.ins[n] : graph.ins[n][k] \in available
        BY <3>2 DEF Inv, ReadyWhenQueued, Ready
      <4> QED
        BY <1>1, <3>2, <4>1
    <3> QED
      BY <3>1, <3>2
  <2>2. \A y \in Below(graph, S) : \E n \in S : y \in Below(graph, {n})
    BY DEF Below
  <2> QED
    BY <2>1, <2>2
<1>8. problem.targets \cap Arts \subseteq S
  BY <1>4, AtRest
<1>9. Needed \subseteq S
  <2> HIDE DEF S
  <2> QED
    BY <1>0, <1>6, <1>7, <1>8, NeededFacts
<1> QED
  BY <1>0, <1>9, GraphFacts

(* Traverse: when the task system is done, the flag tells whether all that *)
(* is needed was made, and the caller may rely on either answer.           *)
THEOREM FlagTellsOutcome == Spec => []Outcome
<1>1. Inv => Outcome
  <2>1. ASSUME Inv, failed
        PROVE  Needed \cap problem.bad # {} \/ ~(problem.targets \subseteq Arts)
    BY <2>1 DEF Inv, FailedWithCause, Cause
  <2> QED
    BY <2>1, AllMade DEF Outcome
<1> QED
  BY <1>1, InvariantHolds, PTL
=============================================================================
