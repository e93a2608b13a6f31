# Specifications of the build tool's core

This directory holds TLA+ models of `jst`, checked with TLC and, where that is
said, proved with TLAPS.  They are read beside the code they model; paths
below are relative to the repository (which is `src/` in `PROJECT.json`).
`PROJECT.json` maps every definition to the lines it stands for, lists the
runs, the hazards each property is for and, for each checked property, a
mutant of the code that violates it.

To repeat everything: `tlc -config <cfg> <module>` for the runs of the table
below, and `tlapm` for the eight modules of proofs, `TaskSystemProofs`,
`AsyncMapProofs`, `TraverserProofs`, `CollectionProofs`, `StorageProofs`,
`RemoteProofs`, `RemoteFailureProofs` and `RootMapsProofs`.

## The system

A build sets up its repositories, analyses targets into a graph of actions,
traverses the graph, runs or looks up each action, here or at a remote
endpoint, and keeps files, action results and analysis results in a local
build root that is garbage collected in generations.

| component (under `src/buildtool` unless noted) | state | operations | interacts with | what must be right |
|---|---|---|---|---|
| task system `multithreading/task_system`, `notification_queue` | one queue per worker, workload counter, shutdown flag | `QueueTask`, `Run`, `Shutdown`, `Finish`, destructor | everything concurrent runs on it | no task lost or run twice, `Finish` returns exactly when idle, the destructor ends |
| asynchronous map `multithreading/async_map*` | node per key, waiting and failure tasks, recorded requests | `ConsumeAfterKeysReady`, setter, subcaller, logger, `DetectCycle` | analysis, set-up of repositories, export of targets | values made once, consumers called once, cycles found |
| dependency graph, traverser `execution_engine/dag`, `traverser` | links, per-node flags and counters | `Add`, `Traverse`, `Visit`, `NotifyAvailable`, `Abort` | task system, executor | actions once, after their inputs, only if needed; failure reported |
| executor, rebuilder `execution_engine/executor` | none of its own | `Process` | execution API, statistics, task tracker | uploads before execution, outputs checked |
| CAS, large objects `storage/local_cas`, `large_object_cas` | files, executables, trees, entries of split objects, per generation | lookup, store, synchronise, split, splice, uplink | caches, executor, servers | a tree's entries and an object's parts are there |
| action cache, target-level cache `storage/local_ac`, `target_cache` | key to value, per generation | read, store, uplink | CAS, export targets | what an entry names is there |
| uplinker `storage/uplinker` | the generations | search and promotion | CAS and caches | what is used is in the youngest generation |
| garbage collector, compactifier `storage/garbage_collector`, `compactifier` | lock file, generations, remove-me directories | trigger, compactify, rotate, drop all | builds through the lock file | keeps what was referenced; safe to kill |
| repository garbage collector `storage/repository_garbage_collector` | repository generations | rotate, drop | `just-mr` | as above |
| file storage, file locking `file_system/file_storage`, `src/utils/cpp/file_locking` | files in a directory; one lock per file, one mutex per process | atomic add, acquire | all storage | atomic, first or last wins; nobody waits for ever |
| local and remote execution `execution_api/local`, `remote` | execution directories; channels, limits | `Execute`, upload, retrieve | executor, CAS, servers | retries without harm, parts before wholes |
| execution service `execution_api/execution_service` | operation cache | execute, wait, CAS and byte-stream calls | storage, local execution | trees checked before they are stored; waits end |
| serve service, computed roots `serve_api`, `computed_roots` | git repositories, repository configuration | import, analyse, build, evaluate roots | asynchronous map, git, target cache | locks, caches that are still valid |
| analysis `build_engine` | result map, maps of files, rules, targets | evaluate, analyse, export | asynchronous map, target-level cache | conflicts found, export targets cached soundly |
| functional language `jstlang` | a program | read, check, inline, unroll, translate | expressions | the translation means what the program does |
| `just-mr` `src/other_tools` | workspace roots, id files, git caches | set-up and fetch maps | asynchronous map, git, serve, network | what is recorded is there; no needless network |
| progress, statistics, logging, authentication, cryptography, utilities | counters, task tracker | | | |

The hard behaviours are the hand-over of tasks and wake-ups between threads;
nodes that become ready, fail or wait for each other at the same time; visits
and notifications of the same graph node from several tasks; promotion and
compactification in many file-system steps that run concurrently, and any of
which may be the last one of a killed process; calls to servers that are lost,
repeated, or answered from a state that was collected since; shortcuts (id
files, cached analysis results) that outlive what they stand for; and two
evaluators of one language that have to agree.

## Modules

Arrows point to the module that extends.  `MC...` modules give the constants
their values for TLC.

| modules | model | how |
|---|---|---|
| `TaskSystem` | `task_system.*`, `notification_queue.hpp` | one step per access to a mutex, an atomic or a condition variable; `pc` of the owner and of each worker, and of the call each of them is in |
| `TaskPool` | what a task system promises (abstract) | a task is new, pending, running, finished or dropped |
| `AsyncMap` → `AsyncMapCycle` | `async_map*.hpp`; `DetectCycle` | a task of the map is identified by what it does (create, chain, consume, fail); a step is one access to a node's mutex or flag; cycle detection is a recursive operator over the recorded requests, taking one of the orders an unordered container may have |
| `Traverser` | `dag.*`, `traverser.hpp` | `Add` is a fold over the descriptions; one step per access to an atomic of a node; the pool is the set of its pending and running tasks, at most `Jobs` of which run |
| `Storage` | `storage/*`, with the operations that local execution, the execution service and the target-cache writer perform on it | see below |
| `FileLock` → `GarbageCollector` → `RepositoryGarbageCollector` → `Collection` | lock files, both collectors, composed | roles (collector of the build root, of the repositories, user) played by threads of several processes; a step is one system call, which may fail |
| `RemoteTransfer` → `RemoteExecution` | CAS client and service, retrieval between CASes; execution client, execution service, operation cache | see below |
| `SourceTree` → `RootTasks` → `CommitGitMap`, `ContentGitMap` → `DistfileGitMaps`, `TreeGitMaps` → `RootMaps` | the stores of `just-mr`, serve's source-tree service, and the maps that set up and fetch roots | a task walks through the places where a root may be found; a call may fail, a process be killed and run again |
| `Expression` → `Evaluator` | `build_engine/expression` | values, and the evaluator of expressions with its errors |
| `JstAst` → `JstBuiltins` → `JstInline`, `JstParser` → `Language` | `jstlang` | lexer and parser, static types, built-in functions, inlining and unrolling, translation to expressions |
| `Rules` → `BuiltIns` → `Analysis` → `Build` | artifacts, rules, analysis, execution and the target cache around builds | analysis and execution are operators; builds, edits, evictions, crashes and serve failures are steps |

`AsyncMap` and `Traverser` use the pool by its promise (`TaskPool`) and not by
its implementation: that the implementation keeps it is the run
`task_system` and the theorem `RefinesTaskPool`.

### Storage

`cas[g]` is the set of files of generation `g`: `<<"f", d>>`, `<<"x", d>>`
and `<<"t", d>>` are the digest `d` in `casf`, `casx` and `cast`, and
`<<"lf", d>>`, `<<"lt", d>>` the entries of a split object in `cas-large-f`
and `cas-large-t`.  `cache[g]` maps a key to its value.  The action cache and
the target-level cache differ only in what an entry refers to, so both are
this map: `Outputs` are the artifacts an entry is promoted with, `Unlinked`
what the result names besides, `Implied` the export targets it implies.

A build thread serves one request at a time.  The stack of C++ calls is two
stacks here: `goals` for what a request does in turn (store a tree's entries,
then the tree; look for a blob, then for it with the other x-bit), `stack` for
the recursion of `LocalUplinkXxx` while one generation is searched.  Each step
adds at most one file, so another thread or the end of the process
may come between any two.  `EndBuild` is both the regular end and a kill;
`EndCollection` likewise.

A file is added in one step (`AtomicAddFromFile`, `AtomicAddFromBytes`);
whether its content is right is not modelled, as contents are addressed by
their hash.  Native mode (git trees) is modelled, compatible mode is not.

A failing write fails the request (`UplinkFails`, `WriteFails`), with two
exceptions: the code ignores the result of promoting the parts of a large
object and of writing its entry.  `IgnoredWritesFail` says whether these may
fail.  If they may, compactification can lose an object (finding 2), and with
it fall `TreeInvariant`, `CacheInvariant` and `NothingReferencedLost`; the run
`storage` checks these three for failures that are noticed, so what they
show is that nothing else breaks them.  `LargeInvariant` and
`UplinkKeepsFreshEntry` hold either way; the proofs show it.

### Collection

Directories of generations, remove-me directories under process ids, the two
lock files, and the mutex around `flock` (left out for a process with one
thread, `Alone`).  `Casts` says which thread plays which role.  A collector
never shares its process: `main.cpp:942` and `just_mr/main.cpp:662` start it
and nothing else, which is the assumption `CastAssumption`.

### Remote transfer and execution

The server's CAS is a set of objects with ages, collected by generations; each
call of a client is one step of the server, and may be lost before or after it
has taken effect.  A client uploads what is missing in portions (halved when a
batch is refused), executes and waits with retries, and retrieves the outputs:
`stack` holds its open calls of `ParallelRetrieveToCas`; a batch of reads that
is refused lowers the limit of all clients, as one of writes does.  Two
executions of one action share an operation, as its name is the action's hash.
Left out: retrieval in splits, to paths and to file descriptors; compatible
mode; outputs that cannot be collected after the command.

### Root maps

`subdir` is `.`; all mirrors of a resource are one fetch; distribution
files with the right name and the wrong content, partial distribution files,
plain `"file"` roots, precomputed roots, compatible mode and sharing of keys
of `content_cas_map` are left out; the contents of a distdir are fetched one
after the other.  Contents of files do not change between runs.

### Build

Analysis of a target is an operator: what is concurrent in it is `AsyncMap`.
Serve answers in one step; sources are edited between builds only; commands
are deterministic.  What the documentation calls an intensional conflict
(`doc/concepts/target-cache.md`, 191-216) is excluded as there.

### Language

Programs are put together from operators, built-in functions, bindings,
conditionals, loops and calls; the reading is checked in three styles of
writing (short, long, bare).  `MeaningPreserved` compares values: if both the
program and its translation have one, they are equal; errors on one side only
are excused.  So are the programs known to change their meaning
(`KnownToDiffer`), each by a condition on its text, which the run fulfils and
without which the property fails:

| condition | what changes |
|---|---|
| `CapturesNames` | the variable of a loop, or a parameter, has the name of a variable that is read inside of it, or of an inner one; calls are inlined and loops unrolled without renaming |
| `JoinsEmptyStrings` | a static `join` drops the separator after leading empty strings (`builtin_functions.cpp:268`) |
| `DefaultsForNull` | a static `get` with a default returns a field that is not a literal, although it turns out `null` |
| `KeysAsWritten` | static `keys` keeps the order in which the map was written |
| `SubdirAsWritten` | static `from_subdir` does not normalise its directory |
| `EncodesComputedNames` | a map with computed names encodes to `null` where names are looked at as data |

That the static type is the type of the value is likewise not claimed of
`zip_map` and `foldl`, nor where it is unknown (`TypeUnknown`).  Left out:
fractions, positions (except for the token behind a node), references to
targets.

## Runs

| run | small instance | shows |
|---|---|---|
| `task_system` | 2 workers, 2 tasks of which one shuts down, 1 attempt to push without blocking | no lost wake-up; `TaskSystem` implements `TaskPool` with its fairness; the destructor ends |
| `async_map` | 3 keys, 2 requests, 5 graphs: a diamond, a repeated failing dependency, a cycle beside a failing leaf, a self-dependency, a triangle | at most one answer, an answer for everybody without a cycle, stuck means a reported cycle, a reported cycle is real, the map comes to rest |
| `traverser` | 6 problems over two graphs, 2 jobs | inputs first, only what is needed, right verdict, comes to rest |
| `storage` | 2 threads (symmetric), 2 generations; one of them with a tree with one executable that can both be split and an export target that implies another, or both racing for one action with two results | trees, large objects and cache entries complete, what was referenced is kept, fresh entries win |
| `storage_compaction` | 1 thread, one tree; writes whose result is ignored may fail | finding 2 |
| `storage_symlinks` | one thread, a result with a symlink | finding 1 |
| `collection` | 4 threads in 3 processes in 4 casts, 2 generations, 5 process counters, 1 failing system call or kill | only the oldest generation is dropped, nothing moves under a user, nobody waits in a cycle, what was dropped is removed |
| `remote` | 3 threads in 6 casts, 2 generations, batches of up to 3 and 4, one object larger than the service takes in a batch, 2 attempts, 2 collections, 3 failures, threshold 1 | the service's trees are complete, failures have a cause, what runs is listed, what was retrieved is complete, jobs end |
| `remote_trees` | as `remote` | finding 3 |
| `setup` | 2 tasks in 19 casts over all kinds of roots, 2 generations, 1 failure or kill, 2 collections | id files are backed, roots are there, absent ones at serve; network last; failures have a cause |
| `language` | nesting up to 2, up to 6 nodes, numerals up to 9; a loop's variable may have the name of an inner one, of a call's parameter or of the configuration | read as written, meaning preserved but for `KnownToDiffer`, fields preserved |
| `build` | 10 targets in 5 repositories, 2 versions, 3 builds, 2 failures | entries backed and sound, the outcome of a fresh build, reported variables suffice, taint kept |

Why the bounds are enough.  Two workers give every race over one queue and one
counter between two popping workers, a pushing one and the owner; a third adds
only repetitions.  With `NumberOfAttempts = 1` the blocking push is reached
after two refusals instead of ten.  Three keys give a shared dependency, a
chain and a cycle with something beside it; two requests are needed for races
over the creation of a node.  Two generations are what the tool uses by
default, and they make the distance between "last used in this generation" and
"dropped" as short as it gets.  One tree with one executable entry
exercises x-bit synchronisation, splitting of trees and of blobs, and deep
promotion, as the recursion passes through the same code at every depth.  Races
for a cache entry need two threads and two results, and no tree: `MCStorage`
gives each behaviour one of the two loads.
Casts choose the pairs of roles that meet in one piece of state, instead of
all of them at once.  A single failure suffices where the code has no retry;
where it has (`remote`), there are enough of them to exhaust it.  Two versions
and three builds let an entry be written, outlive an edit, and be met again
after the edit is taken back.  The proofs need none of these bounds.

`NothingReferencedLost` looks at `Watched` nodes only (a cache entry, and with
it a tree, and a blob), which keeps the history small.  It promises a node to a
thread that turns to it after the node was referenced (`promised`), unless the
request saw an I/O error: one that was already searching when another thread
made the first reference may still miss it, which the code tolerates.
Deadlock is checked where the modules say with a step of
their own where the system may rest; in `build`, `language`, `remote`,
`remote_trees` and `setup` behaviours end when their budgets are used up, so
it is not.

### Fairness

- `TaskSystem`: a worker that polls with `try_lock` may meet a locked mutex
  every time it looks, and a mutex may be given to the others whenever it is
  free, so weak fairness would let one worker starve; the operating system
  schedules threads and hands out mutexes without starving one, hence strong
  fairness of each worker's steps.  Tasks end (`FinishTask`).  For the owner weak
  fairness is enough.
- `AsyncMap`, `Traverser`: some task takes a step if any can
  (weak fairness of the disjunction): the pool runs what is queued, and that
  is `ImplementsTaskPool`.
- `Collection`: some collector of the build root goes on, or some thread gets
  the lock it waits for.  Nothing else: users may come and go for ever, and
  collectors that overlap may take over each other's left-overs again and
  again, which `DroppedIsRemoved` therefore excludes.
- `RemoteExecution`: each client and each handler of the service goes on.
- `Storage`, `RootMaps`, `Build` and `Language` are about safety and have no
  fairness: builds may starve the collector, as `doc/concepts/garbage.md` says.

## Proofs

Each module of proofs holds for every value of the constants that satisfies
the assumptions of the module it is about.  An inductive invariant was first
checked by TLC on the instance of the run.  Theorems marked * state a
property of a run.

| module | theorem | what holds in every behaviour |
|---|---|---|
| `TaskSystemProofs` | `TypeCorrect` | types; with them, indices of queues are valid |
| | `NoLostWakeup` * | `WakeupPending`: who sleeps although there is something to do has a notification coming |
| | `ZeroMeansIdle` * | `ZeroIsIdle`: when the counter is zero, no task is queued, taken or running, and it never underflows |
| | `OwnerNeverSleepsIdle` | the owner sleeps in `Finish` only while there is such a task |
| | `RefinesTaskPool` | every step is a step of `TaskPool` or stutters: the safety half of `ImplementsTaskPool` |
| `AsyncMapProofs` | `InvariantHolds`, `TypeCorrect` | the inductive invariant, types |
| | `ConsumersGetValues` | a consumer runs when all its values are set; no node is both ready and failed |
| | `NothingTwice` * | `AnsweredOnce` |
| | `EveryRequestAnswered` * | `AnsweredWhenQuiescent`: at rest, a request that does not reach a cycle has its answer, and the right one |
| `TraverserProofs` | `InvariantHolds`, `TypeCorrect` | the inductive invariant, types: no count below zero |
| | `CountsAreExact` | `unavailable_deps_` is the number of input paths whose notification is outstanding |
| | `ActionsHaveInputs` * | `InputsBeforeAction` |
| | `NothingUnneeded` * | `OnlyNeeded` |
| | `FlagTellsOutcome` * | `Outcome` |
| `CollectionProofs` | `InvariantHolds`, `TypeCorrect` | the inductive invariant, types |
| | `YoungestSurvive` * | `OnlyOldestDropped` |
| | `UsersUndisturbed` * | `StableWhileUsed` |
| | `NoDeadlock` * | `NoWaitCycle` |
| `StorageProofs` | `StorageSafe` | the inductive invariant `StorageInv` |
| | `LargeEntriesComplete` * | `LargeInvariant` |
| | `TreesComplete` *, `CacheEntriesComplete` * | `TreeInvariant`, `CacheInvariant`, if no ignored write fails |
| | `CompactificationLosses` | compactification loses an object only right after splitting it, when the write of its entry failed unnoticed |
| | `FreshEntriesKept` * | `UplinkKeepsFreshEntry` |
| | `ReferencedKept` * | `NothingReferencedLost`, if no ignored write fails and values are small |
| `RemoteProofs` | `InvariantHolds` | the inductive invariant |
| | `ServerTreesKept` * | `ServerTreesComplete` |
| | `OperationsListed` * | `RunningIsListed` |
| | `RetrievalComplete` * | `SyncedIsComplete` |
| `RemoteFailureProofs` | `FailuresCaused` * | `FailureHasCause` of `RemoteExecution` |
| `RootMapsProofs` | `InvariantHolds`, `TypeCorrect` | the inductive invariant, types |
| | `IdsBacked` * | `IdsAreBacked` |
| | `RootsAvailable` * | `PresentRootsAvailable` |
| | `RootsServed` * | `AbsentRootsServed` |
| | `NetworkLast` * | `NetworkIsLast` |
| | `FailuresCaused` * | `FailureHasCause` |

### Task system

Assumed: at least one thread (as in the code, whose default is the number of
processors, and one if that is unknown), finitely many tasks, a natural number of attempts.
`PoolInvariant` says where a task can be: created, in a queue, in a call of
`push` or `pop`, with a worker.  `WakeupPending` needs that a sleeper has been
notified, or that whoever will notify it stands between its change of the
queue and its `notify_one`, or before the mutex the sleeper has given up; for
that, which thread holds a mutex at which label is part of the invariant.  The
refinement maps the queues and the workers' program counters to the state of
each task; a step of `TaskPool` happens where a task is pushed, taken, begun,
ended or dropped, and every other step stutters.

### Asynchronous map

Assumed: `p \in [deps : [Consumers -> Seq(Keys)], failing : SUBSET Keys]` for
each problem, and that a consumer is a key or a request.  `Reach` and
`Acyclic` are least sets, not recursive.  `Inv` says
where each kind of task can be (`TaskShape`) and that none is queued twice
(`CreatorOnce`); that a consumer waits for its keys one after the other
(`ChainInOrder`); that only the next continuation of a consumer awaits a node,
and only one that may still get a value, likewise for failure functions
(`AwaitingLive`, `OnFailLive`); that the creators of keys asked for are queued
(`DepsQueued`) and whoever waits for a node has its failure function
registered (`FailureRegistered`); where failures and values come from
(`FailureQueued`, `FailureCaused`, `ValueFromConsumer`); and that nobody is
forgotten: a consumer that started is on its way, awaits a node that can still
answer, or has its answer (`Somewhere`).  Every action has the
effect of one of a few lemmas on changes of nodes and tasks (`...Next`).  At
rest, a key that is neither ready nor failed waits for another such key;
among the keys an acyclic request reaches, a set of these would have a last
element, which waits for nothing.

### Traverser

Assumed of a problem: a graph that `Add` accepts.  That it is acyclic follows
in the code from an action's identity, a hash that takes in its inputs, and is
part of `ProblemAssumption`.  The heart of `Inv` is `CountExact`: the
count of an action's missing inputs is the number of its input paths that are
not available, or whose notification is queued or running.  From it,
`ReadyWhenQueued` (a queued action has no missing input) and, with
`TargetsDiscovered`, `InputsDiscovered`, `ArtifactsPursued` and
`ReadyPursued`, that nothing needed is forgotten when the pool is empty, which
is what `Outcome` says.

### Collection

Assumed: collectors are alone in their process and the two lock files differ
(`CastAssumption`), at least one generation.  `Inv` is `TypeOK`,
`LocksInv` (which lock a thread holds at each label in each role; locks
exclude; the mutex has the owner that stands in `flock`) and `DirsInv`
(generations are ordered by age; while a collector drops all of them, it has
left none behind that is older than the one it is at).  `NoDeadlock`: a
set of threads each waiting for another of them has nobody who waits for
a mutex whose owner is in the set, as the owner waits for a file in a process
with several threads, hence as a user; and users take the repositories' lock
before the build root's, both shared, which only collectors oppose, who
hold one lock file at a time.

### Storage

Assumed: how the constants fit together (`StorageAssumption`); and that a part
of a split object can not be split again (`ChunkAssumption`), which follows
from the chunker's maximum size.

Writes whose result the code ignores may fail in `StorageInv`.  A thing that is
needed is therefore *vouched for* (`Vouched`): it can be had, or it is an
object that was split and such a write may fail.  `TreeInv` and `CacheInv` are
`TreeInvariant` and `CacheInvariant` with `Vouched` in place of `Has`, and the
same if no ignored write fails (`Strong`), which `TreesComplete`,
`CacheEntriesComplete` and `ReferencedKept` assume.  `StorageSafe`,
`LargeEntriesComplete`, `FreshEntriesKept` and `CompactificationLosses` do
not; the last says all that is left of `CompactificationKeepsObjects`, which
finding 2 refutes: nothing is lost but an object of `written` whose entry is
missing (`Unrecorded`).

None of the three invariants is inductive: a tree is stored
because its entries *were found*, one after the other, some steps ago.
`StorageInv` therefore also says what a thread's stacks vouch for:

- a frame of `stack` whose node came from generation `at[p]` is *justified*:
  each thing its node needs is vouched for in the youngest generation or is still in the
  frame's `todo`; if the frame splices, the parts are there or its large
  object is still due;
- the goals of `goals` carry the same promise: what a create, add or write
  goal needs is stored, or is in its `todo`, or is being pursued by the goal
  above it;
- a thread that holds no lock has no goals (so nothing it vouched for can go
  away under it), and the collector is only active when nobody holds the lock;
- for the collector (`CollectorOK`): an object whose file it is about to remove
  because it was split (`written`) has its entry, or the write of that failed
  unnoticed (`Recorded`), and it has all its parts, none of which can be
  removed by another splitting task, because parts are not splittable.

Nothing is ever removed from the youngest generation while a build holds the
lock, so promises survive the steps of others: that is a monotonicity lemma
about each promise.  Compactification replaces a file by an entry,
which `Has` cannot tell apart; rotation moves generations as a whole,
and each is complete by itself.

`ReferencedKept` needs a second invariant, `RetentionInv`, on top of it:

- `Promises`: what was referenced since the last rotation can be had from
  generation 0 (`Offers`), what was referenced before it from generation 1;
- `Sought`: a thread in search of a promised node that met no I/O error
  has a generation still to ask, or at work now, that offers it;
- `Served`: whatever the calls on a thread's stack still have to promote, the
  generation they promote from offers.

The last one is why a promotion that has begun can not fail half-way: by
`TreeInvariant`, `LargeInvariant` and `CacheInvariant` a generation that offers
a node offers all that the node refers to, so `LocalUplinkXxx` returns
false for want of the node it was asked for and of nothing else (`CallServed`).
The renames go from the oldest generation to the youngest, so what was
referenced stays in generation 0 until the last one moves it to generation 1,
and a kill in between leaves it in generation 0.

It assumes besides `~ IgnoredWritesFail`, and that no value of a cache entry is so large that the chunker
cuts it (`SmallValues`).  Such a value is lost: a single generation does
not splice when an entry is read (see the findings).

### Remote transfer and execution

Assumed (`CasAssumption`, `ExecutionAssumption`): objects, trees and limits
that fit together; finitely many actions; `Threshold >= 1`, as `threshold_` is
a power of two; the service begins with a CAS that has the entries of its
trees and with at most `2 * Threshold + 1` finished operations.

`Inv` has a part for each hazard:

- `AgesInv`: a tree is never in a younger generation than one of its entries.
  The service promotes entries with, and before, their tree, whether it is
  stored or looked for; so a collection never takes an entry before its tree.
- `RunningOngoing`: while an execution runs its operation is ongoing, or
  another execution of that action has finished since; only finished
  operations are pruned.  `OperationsBounded` counts them: `SetBounded`, a
  lemma on cardinalities, bounds what a step can add.
- `SyncInv`: what each open call of `ParallelRetrieveToCas` has established.
  A call has taken what is present, or has been taken over by a call above it
  on the stack (`Above`), or has still to pursue it (`Pursued`); when it
  returns, all below its objects is local.  Retrievals of other threads only
  add to the local CAS.

`FailureHasCause` has an invariant of its own, `CauseInv`, which holds
together with `Inv`.  Assumed in addition: finitely many objects (a batch has
a size); leaves and messages of an action are files, and all files of its tree
of inputs are among its leaves (`executor.hpp` uploads the inputs before it
has the tree made; inputs that are trees themselves are left out).  A job may fail for what happened to it long
before, so `CauseInv` says what a client can rely on:

- `Had(t)`: the objects whose age, with the collections since `t` began,
  shows them kept as long as the build root was not collected too often.  What
  is stored or found is in there, and nobody else's step takes anything out.
- `Transferred`: what is being uploaded has all its entries in `Had(t)`,
  so the service does not refuse it; nothing is left out of the batches unless
  it was refused or lost (`Blamed`, `Tired`): what a batch leaves over is
  uploaded one by one, and only a failure there fails the transfer.
- `Reached`, `Nested`: what is there at each label of a job, and at each open
  call of the upload of a tree, whose levels are sent bottom up, in containers
  cut at the size of a message.
- `Retrieved`, `Handled`: the root that is retrieved, and what an execution
  needs, were made sure of; every attempt but the last was lost.
- `Known(op) \subseteq Involved`: operations are of actions somebody executes,
  which bounds them; so one is dropped only if there are more than twice the
  threshold.

The sums in this (of the sizes of a batch) are folds over sets; that they are
what their recursion says is proved by induction on the least counterexample
(`SumsExist`, `SizesAdd`).

The proof corrected the property.  It had allowed a failure from one lost call
only where a large blob is uploaded: with a service that accepts no batch of
the least size (`ServerMax < MinBatch`), all blobs are streamed and one lost
call may be enough (`Fragile`).  And a waiting client may fail though no call
was lost, if its operation was finished and pruned before it asked; that takes
more operations than twice the threshold (`Crowded`), and a cast of `remote`
shows it.

### Root maps

Assumed (`ContentAssumption`): what is below an object comes with all below it,
as packs and imports do; a commit has its tree; archives and distribution
files are blobs, and a distdir consists of them.  And of each cast
(`SetupAssumption`): only archives and paths have their symlinks resolved, a
checkout has the trees of the paths in it, and the stores are such as earlier
runs leave: commits come with their trees, id files with the tree they name, and
trees in the local CAS with their entries.

The stores keep the last three (`CommitsComplete`, `IdsAreBacked`,
`CasClosed`), so `IdsAreBacked` needs nothing else of them; but that the tree
is there when its id is written is known from the label a task or a call is
at.  `Inv` therefore has a part for each thing a label stands for:

- `TaskAt`: what the task is about there, for which kinds of roots it comes
  there, and which trees and files it has at hand;
- `ServeAt`, `AskedAt`: the same of a call of the serve endpoint, and that it
  is the call its task waits for;
- `RepliedAt`: an `OK` names the tree that was promised, which the endpoint has
  and, if asked to, has uploaded; an error has a cause;
- `Began`, `SearchAt`: what was nearest when the run began still is there, and
  a task that has gone past a place had nothing to find in it;
- `AskingAt`, `NotFoundAt`: the same across a call, before and after an
  endpoint says it found nothing.

A step of a task only adds to the stores (`ClientGrows`, `ServeGrows`), and
evictions and collections at the endpoint end the calm in which a miss has to
be explained (`StoresGrow`).  So what is said about all other tasks is kept by
one lemma (`ThreadKept`), and each step needs only be looked at for the task
that takes it.  The generations of the client rotate between runs, when no
task has anything at hand.

The proof corrected one property: the network may be used for what the
serve endpoint has after it crashed over another task's archive
(`source_tree.cpp`, 775-795).  `NetworkIsLast` excepts that now, as
`FailureHasCause` did, and a cast shows the case.

### What is only model-checked, and why

- Liveness: `DestructorEnds`, the liveness half of `ImplementsTaskPool`,
  `ComesToRest`, `DroppedIsRemoved`, `JobEnds`: out of the prover's reach.
- `StuckIsDiagnosed`, `ReportedCycleIsReal`, the runs `language` and `build`:
  their modules are recursive, as the code is.

## Findings

Each is a run that TLC refutes with a trace; `PROJECT.json` quotes the lines.

1. `storage_symlinks`: promoting an action-cache entry leaves the contents of
   `output_symlinks` and of stdout and stderr behind in the older generation
   (`local_ac.tpp:80`), against the first invariant of
   `doc/concepts/garbage.md:18`.
2. `storage_compaction`: when an object is split and writing its entry fails,
   the result is dropped (`large_object_cas.tpp:180`), and the compactifier
   removes the object all the same (`compactifier.cpp:303`), against
   `doc/concepts/garbage.md:188`.
3. `remote_trees`: a tree that cannot be read yields no entries and no error
   (`tree_reader.hpp:76`), and is then stored in the local CAS without them
   (`bazel_api.cpp:420`), against `doc/concepts/garbage.md:20`.

### Observed while modelling, without a run

Storage: a cache value of at least the compactification threshold is split,
and a single generation never splices when it reads it (`local_ac.tpp:186`
against `garbage.md:47`).  If the parts of a large tree entry cannot be promoted the
tree is promoted without it (`local_cas.tpp:63`, `garbage.md:20`).  The search
for the entry of a split object stops at the youngest generation
(`large_object_cas.tpp:262` against `garbage.md:154`).

Collection: `flock` prefers no writers, so a collector may wait for ever.  The
repository collector never removes what killed collectors left under other
process ids.  `garbage.md:84` says directories are removed without a lock; the
code holds the shared lock.

Remote: a failed execution leaves its operation ongoing, so that
`WaitExecution` polls for ever; a restart of the service forgets all
operations.  `ReadOrdered` skips missing blobs, so `bazel_response.cpp` near
line 290 may take one tree for another (compatible mode).

Executor: outputs produced at a dispatch endpoint are reported although
retrieving them failed (`executor.hpp`, 288-294).

Serve and set-up: requests to serve that resolve symlinks at the same time
share one map, and one may see another's unfinished value
(`source_tree.hpp:157`); after a collection that map keeps stale values until
a restart (against `resolve_symlinks_map.hpp:34`); `ServeArchiveTree` reads
the error of a value (`source_tree.cpp`, 775-795).  The branch for known
repositories (`source_tree.cpp`, 756-774) is never reached; an archive's
sync is never asked for.  Commit ids of older generations are not consulted
(`commit_git_map.cpp:671`), nor are distdirs.  An absent commit root found in
an older generation only is set up as present (`commit_git_map.cpp`, 640-665;
`doc/concepts/service-target-cache.md`, 317).  Present roots given by a path fail if serve
cannot be asked, although only absent ones need it; absent foreign files are
set up although serve lacks them (`service-target-cache.md`, 327-330).  A
second consumer of a failing shared `GitOpKey` gets no answer of its own.

Computed roots: `inquire_serve.cpp` reads the repository configuration without
the lock that writers of other roots take (`evaluate.cpp`, near 248).

Analysis: a generic rule whose `deps` fail to evaluate is dereferenced all the
same; a tree rule drops one of two artifacts with equal normal paths; nodes of
known artifacts are shared by id without the repository.

Functional language, compiler against evaluator: the disagreements of
`KnownToDiffer` and `TypeUnknown` above; the check that an `env` name is not
shadowed is not made for arguments; a static `range` rounds the fraction in a
string, which the evaluator cuts off (fractions are not modelled).  A map in a
quasi-quoted list is an error (`evaluator.cpp`, 603-617).  Reader: `f(a)(b)`
drops the first arguments, trailing tokens are ignored, the last token of a
file is never looked at, an operator glued to a unary one is rejected, as is
a comment after an operator.

## Not modelled, and the plan

In order:

1. `FileStorage`: staging, hard links, first and last wins; shown to implement
   the one-step addition of `Storage`.
2. `Executor`: upload of missing inputs, output checks, the rebuilder;
   composed with `Traverser` and a CAS that may lose objects between
   lookup and use.
3. Computed roots with their reader-writer lock and the task tracker; the
   progress reporter and `AtomicValue` beside them.
4. Pure algorithms against reference definitions: symlink resolution,
   minimisation of automata, the chunker's boundaries (`ChunkAssumption`
   would then be checked against it), linked map.

Left out for good: command lines, logging, authentication, cryptography and
the reading of configuration, which keep no protocol state; compatible-mode
trees, whose promotion walks Bazel directories as `LocalUplinkGitTree` walks
git trees; the contents of files; and timing.
