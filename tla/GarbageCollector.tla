-------------------------- MODULE GarbageCollector --------------------------
(***************************************************************************)
(* GarbageCollector::TriggerGarbageCollection of                           *)
(* src/buildtool/storage/garbage_collector.cpp at the level of directories *)
(* of the local build root: generations, their ephemeral directory, and    *)
(* the "remove-me" directories named after the collecting thread and a     *)
(* counter.  What Compactify does inside the youngest generation is the    *)
(* subject of Storage.                                                     *)
(*                                                                         *)
(* A directory is the set of what it holds: a generation, known by the     *)
(* order in which generations were begun, or ephemeral data.               *)
(***************************************************************************)
EXTENDS FileLock

CONSTANTS N,               \* num_generations
          MaxGenerations,  \* bound: generations begun by builds
          Counters,        \* values of remove_me_counter
          Ephemeral,       \* the ephemeral directory of the youngest generation
          GcLock,          \* CacheRoot() / "gc.lock"
          MaxTrouble       \* bound: failing system calls and kills

ASSUME CollectionAssumption ==
  /\ N \in Nat \ {0} /\ MaxGenerations \in Nat /\ Counters \subseteq Nat
  /\ Ephemeral \notin Nat /\ GcLock \in Files /\ MaxTrouble \in Nat

VARIABLES
  gen,      \* gen[i]: what is in GenerationCacheRoot(i)
  junk,     \* junk[<<t, k>>]: what is in remove-me<t>-<k>
  born,     \* generations begun so far
  pc,       \* where each thread is
  opt,      \* what each collector was asked for
  todo,     \* directories left over in the loop a thread is in
  mine,     \* to_remove
  count,    \* remove_me_counter
  at,       \* i of the loop over generations
  ok,       \* whether RemoveDirs was successful so far
  trouble   \* what went wrong so far

dirVars == <<gen, junk, born>>
gcVars  == <<opt, todo, mine, count, at, ok>>

Options == {"rotate", "no_rotation", "all"}
Ids     == 1 .. MaxGenerations
Items   == Ids \cup {Ephemeral}
Gens    == 0 .. N - 1
Junk    == Threads \X Counters

DirTypeOK ==
  /\ gen \in [Gens -> SUBSET Items]
  /\ junk \in [Junk -> SUBSET Items]
  /\ born \in 0 .. MaxGenerations

GcTypeOK ==
  /\ opt \in [Threads -> Options]
  /\ todo \in [Threads -> SUBSET Junk] /\ mine \in [Threads -> SUBSET Junk]
  /\ count \in [Threads -> Nat] /\ at \in [Threads -> 0 .. N]
  /\ ok \in [Threads -> BOOLEAN] /\ trouble \in 0 .. MaxTrouble

GcInit ==
  /\ gen = [i \in Gens |-> {}] /\ junk = [n \in Junk |-> {}]
  /\ born = 0
  /\ opt = [t \in Threads |-> "rotate"]
  /\ todo = [t \in Threads |-> {}] /\ mine = [t \in Threads |-> {}]
  /\ count = [t \in Threads |-> 0] /\ at = [t \in Threads |-> 0]
  /\ ok = [t \in Threads |-> TRUE] /\ trouble = 0

-----------------------------------------------------------------------------
Goto(t, l) == pc' = [pc EXCEPT ![t] = l]
Trouble == trouble < MaxTrouble /\ trouble' = trouble + 1

Forget(t) ==
  /\ opt' = [opt EXCEPT ![t] = "rotate"]
  /\ todo' = [todo EXCEPT ![t] = {}] /\ mine' = [mine EXCEPT ![t] = {}]
  /\ count' = [count EXCEPT ![t] = 0] /\ at' = [at EXCEPT ![t] = 0]
  /\ ok' = [ok EXCEPT ![t] = TRUE]

(* TriggerGarbageCollection returns. *)
Return(t) == Goto(t, "idle") /\ Release(t) /\ Forget(t)

(* remove_me_prefix with the next number *)
Name(t) == <<t, count[t]>>
Fresh(t) == Name(t) \in Junk /\ junk[Name(t)] = {}

(* Directories are dealt with in the order of their numbers. *)
First(names) == CHOOSE n \in names : \A m \in names : n[2] <= m[2]

(* LockFile::Acquire on gc.lock at pc label l *)
GcEnter(t, l) ==
  pc[t] = l /\ EnterAcquire(t) /\ UNCHANGED <<pc, dirVars, gcVars, trouble>>

GcAcquireFails(t, l) ==
  /\ pc[t] = l /\ AcquireFails(t) /\ Goto(t, "idle") /\ Forget(t) /\ Trouble
  /\ UNCHANGED dirVars

(* The call; no_rotation and gc_all together are refused at once. *)
Begin(t) ==
  /\ pc[t] = "idle"
  /\ \E o \in Options : opt' = [opt EXCEPT ![t] = o]
  /\ Goto(t, "clean_lock")
  /\ UNCHANGED <<lockVars, dirVars, todo, mine, count, at, ok, trouble>>

(* With a shared lock: all directories with the own prefix *)
CleanAcquired(t) ==
  /\ pc[t] = "clean_lock" /\ Acquired(t, GcLock, "shared") /\ Goto(t, "clean")
  /\ todo' = [todo EXCEPT ![t] = {n \in Junk : n[1] = t /\ junk[n] # {}}]
  /\ UNCHANGED <<dirVars, opt, mine, count, at, ok, trouble>>

(* RemoveDirs, at pc label l.  A removal that is interrupted leaves        *)
(* something under the same name.                                          *)
RemoveOne(t, l) ==
  /\ pc[t] = l /\ todo[t] # {}
  /\ junk' = [junk EXCEPT ![First(todo[t])] = {}]
  /\ todo' = [todo EXCEPT ![t] = @ \ {First(todo[t])}]
  /\ UNCHANGED <<lockVars, gen, born, pc, opt, mine, count, at, ok, trouble>>

(* The others are tried nevertheless. *)
RemoveFails(t, l) ==
  /\ pc[t] = l /\ Trouble
  /\ todo[t] # {} /\ todo' = [todo EXCEPT ![t] = @ \ {First(todo[t])}]
  /\ ok' = [ok EXCEPT ![t] = FALSE]
  /\ UNCHANGED <<lockVars, dirVars, pc, opt, mine, count, at>>

Cleaned(t) ==
  /\ pc[t] = "clean" /\ todo[t] = {}
  /\ \/ ok[t] /\ Release(t) /\ Goto(t, "rename_lock") /\ UNCHANGED gcVars
     \/ ~ok[t] /\ Return(t)
  /\ UNCHANGED <<dirVars, trouble>>

(* Mutant of RenameAcquired: only the own left-overs are taken over.       *)
RenameAcquiredOwn(t) ==
  /\ pc[t] = "rename_lock" /\ Acquired(t, GcLock, "exclusive") /\ Goto(t, "left_over")
  /\ todo' = [todo EXCEPT ![t] = {n \in Junk : n[1] = t /\ junk[n] # {}}]
  /\ UNCHANGED <<dirVars, opt, mine, count, at, ok, trouble>>

(* Mutant of RenameAcquired: renames with a shared lock only.              *)
RenameAcquiredShared(t) ==
  /\ pc[t] = "rename_lock" /\ Acquired(t, GcLock, "shared") /\ Goto(t, "left_over")
  /\ todo' = [todo EXCEPT ![t] = {n \in Junk : junk[n] # {}}]
  /\ UNCHANGED <<dirVars, opt, mine, count, at, ok, trouble>>

(* The exclusive lock; all "remove-me" directories are left-overs. *)
RenameAcquired(t) ==
  /\ pc[t] = "rename_lock" /\ Acquired(t, GcLock, "exclusive") /\ Goto(t, "left_over")
  /\ todo' = [todo EXCEPT ![t] = {n \in Junk : junk[n] # {}}]
  /\ UNCHANGED <<dirVars, opt, mine, count, at, ok, trouble>>

(* A left-over is renamed under the own prefix, or stays if that fails. *)
TakeOver(t) ==
  /\ pc[t] = "left_over" /\ todo[t] # {} /\ Name(t) \in Junk
  /\ LET n == First(todo[t]) IN
       /\ todo' = [todo EXCEPT ![t] = @ \ {n}]
       /\ count' = [count EXCEPT ![t] = @ + 1]
       /\ \/ /\ n = Name(t) \/ Fresh(t)
             /\ junk' = [junk EXCEPT ![n] = {}, ![Name(t)] = junk[n]]
             /\ mine' = [mine EXCEPT ![t] = @ \cup {Name(t)}]
             /\ UNCHANGED trouble
          \/ Trouble /\ UNCHANGED <<junk, mine>>
  /\ UNCHANGED <<lockVars, gen, born, pc, opt, at, ok>>

(* The loops over the generations begin with i = num_generations. *)
LoopStart == N

(* Ephemeral data is moved out; it is no problem if that fails. *)
MoveEphemeral(t) ==
  /\ pc[t] = "left_over" /\ todo[t] = {}
  /\ IF Ephemeral \in gen[0]
       THEN /\ Name(t) \in Junk
            /\ count' = [count EXCEPT ![t] = @ + 1]
            /\ \/ /\ Fresh(t)
                  /\ gen' = [gen EXCEPT ![0] = @ \ {Ephemeral}]
                  /\ junk' = [junk EXCEPT ![Name(t)] = {Ephemeral}]
                  /\ mine' = [mine EXCEPT ![t] = @ \cup {Name(t)}]
                  /\ UNCHANGED trouble
               \/ Trouble /\ UNCHANGED <<gen, junk, mine>>
       ELSE UNCHANGED <<gen, junk, mine, count, trouble>>
  /\ Goto(t, IF opt[t] = "all" THEN "generations" ELSE "compactify")
  /\ at' = [at EXCEPT ![t] = LoopStart]
  /\ UNCHANGED <<lockVars, born, opt, todo, ok>>

Compactified(t) ==
  /\ pc[t] = "compactify"
  /\ Goto(t, IF opt[t] = "rotate" THEN "generations" ELSE "renamed")
  /\ UNCHANGED <<lockVars, dirVars, gcVars, trouble>>

CompactifyFails(t) ==
  /\ pc[t] = "compactify" /\ Return(t) /\ Trouble /\ UNCHANGED dirVars

(* Mutant of DropGeneration: from the youngest generation.                 *)
DropGenerationFirst(t) ==
  LET i == N - at[t] + 1
  IN /\ pc[t] = "generations" /\ opt[t] = "all" /\ at[t] > 0 /\ Fresh(t)
     /\ mine' = [mine EXCEPT ![t] = @ \cup {Name(t)}]
     /\ count' = [count EXCEPT ![t] = @ + 1]
     /\ junk' = [junk EXCEPT ![Name(t)] = gen[i - 1]]
     /\ gen' = [gen EXCEPT ![i - 1] = {}]
     /\ at' = [at EXCEPT ![t] = @ - 1]
     /\ UNCHANGED <<lockVars, born, pc, opt, todo, ok, trouble>>

(* gc_all: one generation after the other, from the oldest *)
DropGeneration(t) ==
  LET i == at[t]
  IN /\ pc[t] = "generations" /\ opt[t] = "all" /\ i > 0 /\ Fresh(t)
     /\ mine' = [mine EXCEPT ![t] = @ \cup {Name(t)}]
     /\ count' = [count EXCEPT ![t] = @ + 1]
     /\ junk' = [junk EXCEPT ![Name(t)] = gen[i - 1]]
     /\ gen' = [gen EXCEPT ![i - 1] = {}]
     /\ at' = [at EXCEPT ![t] = i - 1]
     /\ UNCHANGED <<lockVars, born, pc, opt, todo, ok, trouble>>

(* Rotation: the oldest generation gets a name that nobody looks for... *)
RotateOldest(t) ==
  /\ pc[t] = "generations" /\ opt[t] = "rotate" /\ at[t] = N /\ Fresh(t)
  /\ mine' = [mine EXCEPT ![t] = @ \cup {Name(t)}]
  /\ count' = [count EXCEPT ![t] = @ + 1]
  /\ junk' = [junk EXCEPT ![Name(t)] = gen[N - 1]]
  /\ gen' = [gen EXCEPT ![N - 1] = {}]
  /\ at' = [at EXCEPT ![t] = N - 1]
  /\ UNCHANGED <<lockVars, born, pc, opt, todo, ok, trouble>>

(* ... and the others move by one, into the gap left by the one before. *)
RotateYounger(t) ==
  LET i == at[t]
  IN /\ pc[t] = "generations" /\ opt[t] = "rotate" /\ 0 < i /\ i < N
     /\ gen[i - 1] = {} \/ gen[i] = {}
     /\ gen' = [gen EXCEPT ![i - 1] = {}, ![i] = IF gen[i - 1] = {} THEN @ ELSE gen[i - 1]]
     /\ at' = [at EXCEPT ![t] = i - 1]
     /\ UNCHANGED <<lockVars, junk, born, pc, opt, todo, mine, count, ok, trouble>>

RenameFails(t) ==
  /\ pc[t] = "generations" /\ at[t] > 0 /\ gen[at[t] - 1] # {} /\ Return(t) /\ Trouble
  /\ UNCHANGED dirVars

(* The exclusive lock is given back. *)
Renamed(t) ==
  /\ pc[t] = "renamed" \/ (pc[t] = "generations" /\ at[t] = 0)
  /\ Release(t) /\ Goto(t, "remove_lock")
  /\ UNCHANGED <<dirVars, gcVars, trouble>>

(* What is not there (any more) is skipped. *)
RemoveAcquired(t) ==
  /\ pc[t] = "remove_lock" /\ Acquired(t, GcLock, "shared") /\ Goto(t, "remove")
  /\ todo' = [todo EXCEPT ![t] = {n \in mine[t] : junk[n] # {}}]
  /\ UNCHANGED <<dirVars, opt, mine, count, at, ok, trouble>>

Removed(t) ==
  /\ pc[t] = "remove" /\ todo[t] = {} /\ Return(t) /\ UNCHANGED <<dirVars, trouble>>

GcLockLabels == {"clean_lock", "rename_lock", "remove_lock"}

(* What a collector does if nothing goes wrong, but for getting the locks *)
GcStep(t) ==
  \/ \E l \in GcLockLabels : GcEnter(t, l)
  \/ \E l \in {"clean", "remove"} : RemoveOne(t, l)
  \/ Cleaned(t) \/ TakeOver(t) \/ MoveEphemeral(t) \/ Compactified(t)
  \/ DropGeneration(t) \/ RotateOldest(t) \/ RotateYounger(t) \/ Renamed(t) \/ Removed(t)

GcAcquired(t) == CleanAcquired(t) \/ RenameAcquired(t) \/ RemoveAcquired(t)

GcFails(t) ==
  \/ \E l \in GcLockLabels : GcAcquireFails(t, l)
  \/ \E l \in {"clean", "remove"} : RemoveFails(t, l)
  \/ CompactifyFails(t) \/ RenameFails(t)
=============================================================================
