----------------------------- MODULE Traverser ------------------------------
(***************************************************************************)
(* Traverser of src/buildtool/execution_engine/traverser: visits the       *)
(* dependency graph from the target artifacts down and processes every     *)
(* needed node once its dependencies are available, with all visits and    *)
(* all processing in tasks of a task system.  The nodes' traversal states  *)
(* are atomics; every access to one is a step.                             *)
(*                                                                         *)
(* The task system is used through what TaskPool promises: a queued task   *)
(* is run once, unless the system is shut down before it was started.      *)
(* Executor::Process is reduced to its result: false for the nodes in bad. *)
(***************************************************************************)
EXTENDS Integers, Sequences, FiniteSets, SequencesExt

(* DependencyGraph of src/buildtool/execution_engine/dag: the bipartite    *)
(* graph of actions and artifacts, built from action descriptions.         *)
(*                                                                         *)
(* A description is a record of its id, the artifacts it builds (outs), a  *)
(* sequence of the artifacts it reads (ins, one element per input path, so *)
(* that an artifact staged at two paths occurs twice), and whether it can  *)
(* be run: it is a tree or tree-overlay action or has a command.           *)
EmptyGraph == [arts |-> {}, acts |-> {}, builder |-> <<>>, ins |-> <<>>, outs |-> <<>>,
               ok |-> TRUE]

NoBuilder == "no builder"

(* AddArtifact: the node of a known artifact is kept. *)
AddArtifacts(g, S) ==
  [g EXCEPT !.arts = @ \cup S,
            !.builder = [x \in g.arts \cup S |-> IF x \in g.arts THEN g.builder[x] ELSE NoBuilder]]

(* AddAction: nodes for outputs, action and inputs, then LinkNodePointers, *)
(* which fails if an output already has a builder, be it this action that  *)
(* names the output twice.  The first failure ends Add.                    *)
AddAction(g, d) ==
  LET h == AddArtifacts(g, ToSet(d.outs) \cup ToSet(d.ins))
  IN IF ~g.ok THEN g
     ELSE IF ~d.runnable \/ d.outs = <<>> \/ ~IsInjective(d.outs)
             \/ \E x \in ToSet(d.outs) : h.builder[x] # NoBuilder
            THEN [h EXCEPT !.ok = FALSE]
            ELSE [h EXCEPT !.acts = @ \cup {d.id},
                           !.builder = [x \in h.arts |-> IF x \in ToSet(d.outs) THEN d.id ELSE @[x]],
                           !.ins  = [a \in g.acts \cup {d.id} |-> IF a = d.id THEN d.ins ELSE @[a]],
                           !.outs = [a \in g.acts \cup {d.id} |-> IF a = d.id THEN d.outs ELSE @[a]]]

(* Add *)
Add(ds) == FoldLeft(AddAction, EmptyGraph, ds)

-----------------------------------------------------------------------------

CONSTANTS Problems,  \* sequence of [graph, targets, bad]: what to build, what will fail
          Jobs       \* threads of the task system

(* The nodes that the nodes of S are made from. *)
Below(g, S) ==
  UNION {IF n \in g.acts THEN {g.ins[n][i] : i \in DOMAIN g.ins[n]} ELSE {g.builder[n]} \cap g.acts : n \in S}

(* What Add makes of action descriptions that a program can write down: an *)
(* action is identified by its inputs, so the graph is acyclic, artifacts  *)
(* and actions have different names, and an artifact has the one builder   *)
(* that lists it among its outputs.                                        *)
WellFormed(g) ==
  /\ IsFiniteSet(g.arts) /\ IsFiniteSet(g.acts)
  /\ g.arts \cap g.acts = {} /\ NoBuilder \notin g.acts
  /\ g.builder \in [g.arts -> g.acts \cup {NoBuilder}]
  /\ g.ins \in [g.acts -> Seq(g.arts)] /\ g.outs \in [g.acts -> Seq(g.arts)]
  /\ \A a \in g.acts :
       /\ \A i, j \in DOMAIN g.outs[a] : g.outs[a][i] = g.outs[a][j] => i = j
       /\ \A x \in g.arts : g.builder[x] = a <=> \E i \in DOMAIN g.outs[a] : g.outs[a][i] = x
  /\ \A S \in SUBSET (g.arts \cup g.acts) : S # {} => \E n \in S : Below(g, {n}) \cap S = {}

ASSUME ProblemAssumption ==
  \A k \in DOMAIN Problems :
    WellFormed(Problems[k].graph) /\ "none" \notin Problems[k].graph.arts \cup Problems[k].graph.acts
ASSUME JobsAssumption == Jobs \in Nat \ {0}

VARIABLES
  index,      \* which problem is at hand, never changed
  discovered, \* has_been_discovered_
  queued,     \* is_queued_to_be_processed_
  required,   \* is_required_
  unavailable,\* unavailable_deps_ of each action
  available,  \* the artifacts with is_available_
  failed,     \* *failed_, shared with the caller
  shutdown,   \* the task system was shut down
  st,         \* the tasks and how far each has come
  again       \* tasks queued more than once

vars == <<index, discovered, queued, required, unavailable, available, failed,
          shutdown, st, again>>

problem == Problems[index]
graph   == problem.graph
Arts    == graph.arts
Acts    == graph.acts
Nodes   == Arts \cup Acts

Visit(n)   == [op |-> "visit", node |-> n]
Process(n) == [op |-> "process", node |-> n]
Main       == [op |-> "main", node |-> "none"]
Tasks      == {Visit(n) : n \in Nodes} \cup {Process(n) : n \in Nodes} \cup {Main}

(* Parents() of an artifact, one edge for each path it is staged at. *)
Edges == UNION {{a} \X DOMAIN graph.ins[a] : a \in Acts}
Consumers(x) == {e \in Edges : graph.ins[e[1]][e[2]] = x}

PCs == {"none", "queued", "traverse", "test", "deps", "queue_visit", "queue_process", "parents",
        "abort", "shutdown", "done"}

TypeOK ==
  /\ index \in DOMAIN Problems
  /\ discovered \subseteq Nodes /\ queued \subseteq Nodes /\ required \subseteq Nodes
  /\ unavailable \in [Acts -> Nat]   \* never below zero
  /\ available \subseteq Arts
  /\ failed \in BOOLEAN /\ shutdown \in BOOLEAN
  /\ DOMAIN st = Tasks
  /\ \A t \in Tasks :
       /\ DOMAIN st[t] = {"pc", "i", "cur", "todo"}
       /\ st[t].pc \in PCs /\ st[t].i \in Nat \ {0}
       /\ st[t].cur \in Nodes \cup problem.targets \cup {"none"}
       /\ st[t].todo \subseteq (IF t = Main THEN problem.targets ELSE Edges)
  /\ again \subseteq Tasks

(* NotifyDoneLinking: every input path of the action counts. *)
UnavailableDeps(a) == Len(graph.ins[a])

Init ==
  /\ index \in DOMAIN Problems
  /\ discovered = {} /\ queued = {} /\ required = {} /\ available = {}
  /\ unavailable = [a \in Acts |-> UnavailableDeps(a)]
  /\ failed = FALSE /\ shutdown = FALSE
  /\ st = [t \in Tasks |-> IF t = Main
             THEN [pc |-> "traverse", i |-> 1, cur |-> "none", todo |-> problem.targets]
             ELSE [pc |-> "none", i |-> 1, cur |-> "none", todo |-> {}]]
  /\ again = {}

-----------------------------------------------------------------------------
At(t, l) == st[t].pc = l
Goto(t, l) == st' = [st EXCEPT ![t].pc = l]
nodeVars == <<discovered, queued, required, unavailable, available>>
poolVars == <<failed, shutdown, again>>

(* TaskSystem::QueueTask, by task t, which goes on to l *)
QueueTask(t, l, u) ==
  /\ st' = [st EXCEPT ![t].pc = l, ![u].pc = IF At(u, "none") THEN "queued" ELSE @]
  /\ again' = IF At(u, "none") THEN again ELSE again \cup {u}

(* A worker that is free starts a task, unless the system was shut down. *)
Running == {t \in Tasks \ {Main} : ~At(t, "none") /\ ~At(t, "queued") /\ ~At(t, "done")}
Starts(t, op) ==
  At(t, "queued") /\ t.op = op /\ ~shutdown /\ Cardinality(Running) < Jobs

(* Traverse: the targets, in any order; one that the graph does not have   *)
(* aborts the traversal.                                                   *)
TraverseNext(t) ==
  /\ At(t, "traverse")
  /\ \/ st[t].todo = {} /\ Goto(t, "done")
     \/ \E x \in st[t].todo :
          st' = [st EXCEPT ![t].pc = IF x \in Arts THEN "queue_visit" ELSE "abort",
                           ![t].cur = x, ![t].todo = @ \ {x}]
  /\ UNCHANGED <<index, nodeVars, poolVars>>

(* Where a task goes on after QueueVisit and after QueueProcessing. *)
AfterVisit(t) ==
  CASE t.op = "main" -> "traverse" [] t.node \in Acts -> "deps" [] OTHER -> "done"
AfterProcessing(t) == IF t.op = "process" THEN "parents" ELSE "done"

(* QueueVisit: GetAndMarkDiscovered lets one caller queue the visit. *)
QueueVisit(t) ==
  LET n == st[t].cur
  IN /\ At(t, "queue_visit")
     /\ IF failed \/ n \in discovered
          THEN Goto(t, AfterVisit(t)) /\ UNCHANGED <<discovered, again>>
          ELSE QueueTask(t, AfterVisit(t), Visit(n)) /\ discovered' = discovered \cup {n}
     /\ UNCHANGED <<index, queued, required, unavailable, available, failed, shutdown>>

(* Mutant of QueueProcessing: nodes that are not required are processed.   *)
QueueUnrequired(t) ==
  LET n == st[t].cur
  IN /\ At(t, "queue_process")
     /\ IF failed \/ n \in queued
          THEN Goto(t, AfterProcessing(t)) /\ UNCHANGED <<queued, again>>
          ELSE QueueTask(t, AfterProcessing(t), Process(n)) /\ queued' = queued \cup {n}
     /\ UNCHANGED <<index, discovered, required, unavailable, available, failed, shutdown>>

(* QueueProcessing: only required nodes, and GetAndMarkQueuedToBeProcessed  *)
(* lets one caller queue the task.                                          *)
QueueProcessing(t) ==
  LET n == st[t].cur
  IN /\ At(t, "queue_process")
     /\ IF failed \/ n \notin required \/ n \in queued
          THEN Goto(t, AfterProcessing(t)) /\ UNCHANGED <<queued, again>>
          ELSE QueueTask(t, AfterProcessing(t), Process(n)) /\ queued' = queued \cup {n}
     /\ UNCHANGED <<index, discovered, required, unavailable, available, failed, shutdown>>

-----------------------------------------------------------------------------
(* Visit begins by marking the node as required. *)
MarkRequired(t) ==
  /\ Starts(t, "visit")
  /\ required' = required \cup {t.node}
  /\ Goto(t, IF t.node \in Arts THEN "test" ELSE "deps")
  /\ UNCHANGED <<index, discovered, queued, unavailable, available, poolVars>>

(* Visit of an artifact: its builder is visited, or it is processed itself, *)
(* unless it was built meanwhile as another output of its builder.          *)
VisitArtifact(t) ==
  LET b == graph.builder[t.node]
  IN /\ At(t, "test")
     /\ IF t.node \in available THEN Goto(t, "done")
        ELSE st' = [st EXCEPT ![t].pc  = IF b \in Acts THEN "queue_visit" ELSE "queue_process",
                              ![t].cur = IF b \in Acts THEN b ELSE t.node]
     /\ UNCHANGED <<index, nodeVars, poolVars>>

(* Mutant of VisitDependency: the loop does not advance past an available  *)
(* dependency.                                                             *)
VisitSameDependency(t) ==
  LET x == graph.ins[t.node][st[t].i]
  IN /\ At(t, "deps") /\ st[t].i <= Len(graph.ins[t.node])
     /\ st' = [st EXCEPT ![t].pc = IF x \in available THEN "deps" ELSE "queue_visit",
                         ![t].cur = x, ![t].i = IF x \in available THEN @ ELSE @ + 1]
     /\ UNCHANGED <<index, nodeVars, poolVars>>

(* Visit of an action: the dependencies that are not available are visited. *)
VisitDependency(t) ==
  LET x == graph.ins[t.node][st[t].i]
  IN /\ At(t, "deps") /\ st[t].i <= Len(graph.ins[t.node])
     /\ st' = [st EXCEPT ![t].pc = IF x \in available THEN "deps" ELSE "queue_visit",
                         ![t].cur = x, ![t].i = @ + 1]
     /\ UNCHANGED <<index, nodeVars, poolVars>>

(* IsReady: all notifications came before the visit. *)
VisitReady(t) ==
  /\ At(t, "deps") /\ st[t].i > Len(graph.ins[t.node])
  /\ IF unavailable[t.node] = 0
       THEN st' = [st EXCEPT ![t].pc = "queue_process", ![t].cur = t.node]
       ELSE Goto(t, "done")
  /\ UNCHANGED <<index, nodeVars, poolVars>>

-----------------------------------------------------------------------------
(* The processing task: Executor::Process, then NotifyAvailable or Abort.  *)
RunProcess(t) ==
  /\ Starts(t, "process")
  /\ Goto(t, IF t.node \in problem.bad THEN "abort" ELSE "parents")
  /\ UNCHANGED <<index, nodeVars, poolVars>>

Outputs(n) == IF n \in Arts THEN <<n>> ELSE graph.outs[n]

(* NotifyAvailable: the next output becomes available. *)
MakeAvailable(t) ==
  LET x == Outputs(t.node)[st[t].i]
  IN /\ At(t, "parents") /\ st[t].todo = {} /\ st[t].i <= Len(Outputs(t.node))
     /\ available' = available \cup {x}
     /\ st' = [st EXCEPT ![t].i = @ + 1, ![t].todo = Consumers(x)]
     /\ UNCHANGED <<index, discovered, queued, required, unavailable, poolVars>>

(* Mutant of NotifyParent: ready when one dependency is still missing.     *)
NotifyParentEarly(t) ==
  /\ At(t, "parents")
  /\ \E e \in st[t].todo :
       /\ unavailable' = [unavailable EXCEPT ![e[1]] = @ - 1]
       /\ st' = [st EXCEPT ![t].todo = @ \ {e}, ![t].cur = e[1],
                           ![t].pc = IF unavailable[e[1]] <= 2 THEN "queue_process" ELSE "parents"]
  /\ UNCHANGED <<index, discovered, queued, required, available, poolVars>>

(* NotifyAvailableDepAndCheckReady on the next consumer of the output: the *)
(* one who takes the count from 1 to 0 queues the action.                  *)
NotifyParent(t) ==
  /\ At(t, "parents")
  /\ \E e \in st[t].todo :
       /\ unavailable' = [unavailable EXCEPT ![e[1]] = @ - 1]
       /\ st' = [st EXCEPT ![t].todo = @ \ {e}, ![t].cur = e[1],
                           ![t].pc = IF unavailable[e[1]] = 1 THEN "queue_process" ELSE "parents"]
  /\ UNCHANGED <<index, discovered, queued, required, available, poolVars>>

NotifiedAll(t) ==
  /\ At(t, "parents") /\ st[t].todo = {} /\ st[t].i > Len(Outputs(t.node))
  /\ Goto(t, "done")
  /\ UNCHANGED <<index, nodeVars, poolVars>>

(* Mutant of Abort: the flag shared with the caller is not set.            *)
AbortQuietly(t) ==
  /\ At(t, "abort")
  /\ Goto(t, "shutdown")
  /\ UNCHANGED <<index, nodeVars, poolVars>>

Abort(t) ==
  /\ At(t, "abort")
  /\ failed' = TRUE
  /\ Goto(t, "shutdown")
  /\ UNCHANGED <<index, nodeVars, shutdown, again>>

AbortShutdown(t) ==
  /\ At(t, "shutdown")
  /\ shutdown' = TRUE
  /\ Goto(t, "done")
  /\ UNCHANGED <<index, nodeVars, failed, again>>

TaskStep(t) ==
  \/ TraverseNext(t) \/ QueueVisit(t) \/ QueueProcessing(t)
  \/ MarkRequired(t) \/ VisitArtifact(t) \/ VisitDependency(t) \/ VisitReady(t)
  \/ RunProcess(t) \/ MakeAvailable(t) \/ NotifyParent(t) \/ NotifiedAll(t)
  \/ Abort(t) \/ AbortShutdown(t)

(* The destructor of the task system has returned. *)
Quiescent  == \A t \in Tasks : At(t, "none") \/ At(t, "done") \/ (At(t, "queued") /\ shutdown)
Terminated == Quiescent /\ UNCHANGED vars

Next == (\E t \in Tasks : TaskStep(t)) \/ Terminated

Spec == Init /\ [][Next]_vars /\ WF_vars(\E t \in Tasks : TaskStep(t))

-----------------------------------------------------------------------------
Processed(n) == ~At(Process(n), "none") /\ ~At(Process(n), "queued")

(* The nodes needed for the targets: the least set that has the targets and *)
(* whatever its nodes are made from.                                        *)
NeededOf ==
  [k \in DOMAIN Problems |->
     LET g == Problems[k].graph
     IN {n \in g.arts \cup g.acts :
           \A S \in SUBSET (g.arts \cup g.acts) :
             Problems[k].targets \cap g.arts \subseteq S /\ Below(g, S) \subseteq S => n \in S}]
Needed == NeededOf[index]

(* An action is handed to the executor only when every input of it is      *)
(* available, although visits and notifications race.                      *)
InputsBeforeAction ==
  \A a \in Acts : Processed(a) =>
    \A i \in DOMAIN graph.ins[a] : graph.ins[a][i] \in available

(* Only nodes the targets depend on are processed ("avoiding executing     *)
(* actions that are not strictly needed"), and none is visited or          *)
(* processed twice, however many paths lead to it.                         *)
OnlyNeeded == again = {} /\ {n \in Nodes : Processed(n)} \subseteq Needed

(* When the task system is done: the flag is set if and only if a needed   *)
(* node cannot be processed or a target does not exist, and if it is not   *)
(* set, every needed artifact is available.                                *)
Outcome ==
  Quiescent =>
    /\ failed => (Needed \cap problem.bad # {} \/ ~(problem.targets \subseteq Arts))
    /\ ~failed => Needed \cap Arts \subseteq available

(* The traversal of every graph comes to an end. *)
ComesToRest == <>Quiescent
=============================================================================
