----------------------------- MODULE Collection -----------------------------
(***************************************************************************)
(* Collections of the build root and of the repositories beside the        *)
(* processes that use both: builds hold the lock of the build root, what   *)
(* reads repositories (just-mr, the threads of the serve service) holds    *)
(* the repositories' lock, then that of the build root, until it is done.  *)
(* Any process may be killed at any time, and process ids are used again.  *)
(***************************************************************************)
EXTENDS RepositoryGarbageCollector

CONSTANT Casts      \* sequence of [role, asked, generations]: who does what,
                    \* options of collectors, bound on what builds begin

(* Collectors are commands of their own (just gc, just-mr gc-repo) and have *)
(* one thread.                                                             *)
Collectors == {"gc", "gc-repo"}
ASSUME CastAssumption ==
  /\ GcLock # RepoLock
  /\ \A i \in DOMAIN Casts :
       /\ Casts[i].role \in [Threads -> {"build", "serve", "none"} \cup Collectors]
       /\ Casts[i].asked \subseteq Options
       /\ Casts[i].generations \in 0 .. MaxGenerations
       /\ \A t \in Threads : Casts[i].role[t] \in Collectors => Alone(t)

VARIABLE cast       \* which roles the threads play, never changed

vars  == <<lockVars, gcState, repoVars, pc, trouble, cast>>
Role(t) == Casts[cast].role[t]
Played(r) == {t \in Threads : Role(t) = r}
Users   == Played("build") \cup Played("serve")

Labels ==
  GcLockLabels \cup RepoLockLabels \cup
  {"idle", "clean", "left_over", "compactify", "generations", "renamed", "remove",
   "repo_clean", "repo_rename", "repo_generations", "repo_remove",
   "use_repo_lock", "use_lock", "using"}

TypeOK ==
  /\ LockTypeOK /\ DirTypeOK /\ GcTypeOK /\ RepoTypeOK
  /\ pc \in [Threads -> Labels] /\ cast \in DOMAIN Casts

Init ==
  /\ LockInit /\ GcInit /\ RepoInit
  /\ pc = [t \in Threads |-> "idle"] /\ cast \in DOMAIN Casts

-----------------------------------------------------------------------------
(* A build, or a request that needs repositories *)
UseBegin(t) ==
  /\ pc[t] = "idle"
  /\ \/ Role(t) = "build" /\ Goto(t, "use_lock")
     \/ Role(t) = "serve" /\ Goto(t, "use_repo_lock")
  /\ UNCHANGED <<lockVars, gcState, repoVars, trouble, cast>>

UseEnter(t) ==
  /\ pc[t] \in {"use_lock", "use_repo_lock"} /\ EnterAcquire(t)
  /\ UNCHANGED <<gcState, repoVars, pc, trouble, cast>>

(* Mutant of UseAcquiredRepo: an exclusive lock.                           *)
UseAcquiredRepoExclusive(t) ==
  /\ pc[t] = "use_repo_lock" /\ Acquired(t, RepoLock, "exclusive") /\ Goto(t, "use_lock")
  /\ UNCHANGED <<gcState, repoVars, trouble, cast>>

UseAcquiredRepo(t) ==
  /\ pc[t] = "use_repo_lock" /\ Acquired(t, RepoLock, "shared") /\ Goto(t, "use_lock")
  /\ UNCHANGED <<gcState, repoVars, trouble, cast>>

UseAcquired(t) ==
  /\ pc[t] = "use_lock" /\ Acquired(t, GcLock, "shared") /\ Goto(t, "using")
  /\ UNCHANGED <<gcState, repoVars, trouble, cast>>

UseAcquireFails(t) ==
  /\ pc[t] \in {"use_lock", "use_repo_lock"} /\ HasMutex(t) /\ Goto(t, "idle") /\ Trouble
  /\ mutex' = [mutex EXCEPT ![Process[t]] = Nobody]
  /\ held' = [held EXCEPT ![t] = [f \in Files |-> "none"]]
  /\ UNCHANGED <<gcState, repoVars, cast>>

(* Objects are added to the youngest generation, if need be to a new one, *)
(* and ephemeral directories are made there.                              *)
Use(t) ==
  /\ pc[t] = "using"
  /\ \/ /\ gen[0] = {} /\ born < Casts[cast].generations
        /\ gen' = [gen EXCEPT ![0] = {born + 1}] /\ born' = born + 1
        /\ UNCHANGED <<repo, repo_born>>
     \/ /\ gen[0] # {} /\ Ephemeral \notin gen[0]
        /\ \A n \in Junk : Ephemeral \notin junk[n]    \* bound: one at a time
        /\ gen' = [gen EXCEPT ![0] = @ \cup {Ephemeral}]
        /\ UNCHANGED <<born, repo, repo_born>>
     \/ /\ Role(t) = "serve" /\ repo[0] = {} /\ repo_born < Casts[cast].generations
        /\ repo' = [repo EXCEPT ![0] = {repo_born + 1}] /\ repo_born' = repo_born + 1
        /\ UNCHANGED <<gen, born>>
  /\ UNCHANGED <<lockVars, junk, gcVars, repo_junk, drop_only, pc, trouble, cast>>

UseEnd(t) ==
  /\ pc[t] = "using" /\ Goto(t, "idle") /\ Release(t)
  /\ UNCHANGED <<gcState, repoVars, trouble, cast>>

(* The process ends; the next one may have the same id. *)
Kill(p) ==
  LET gone(t, old, new) == IF Process[t] = p THEN new ELSE old
  IN /\ \E t \in Threads : Process[t] = p /\ pc[t] # "idle"
     /\ ReleaseProcess(p) /\ Trouble
     /\ pc'    = [t \in Threads |-> gone(t, pc[t], "idle")]
     /\ opt'   = [t \in Threads |-> gone(t, opt[t], "rotate")]
     /\ todo'  = [t \in Threads |-> gone(t, todo[t], {})]
     /\ mine'  = [t \in Threads |-> gone(t, mine[t], {})]
     /\ count' = [t \in Threads |-> gone(t, count[t], 0)]
     /\ at'    = [t \in Threads |-> gone(t, at[t], 0)]
     /\ ok'    = [t \in Threads |-> gone(t, ok[t], TRUE)]
     /\ UNCHANGED <<dirVars, repoVars, cast>>

Collect(t) ==
  /\ (Begin(t) /\ opt'[t] \in Casts[cast].asked) \/ GcStep(t)
  /\ UNCHANGED <<repoVars, cast>>

Fails(t) ==
  \/ t \in Played("gc") /\ GcFails(t) /\ UNCHANGED <<repoVars, cast>>
  \/ t \in Played("gc-repo") /\ RepoErrors(t) /\ UNCHANGED cast
  \/ t \in Users /\ UseAcquireFails(t)

(* What a thread does on its own, and how it gets a lock *)
Step(t) ==
  \/ t \in Played("gc") /\ Collect(t)
  \/ t \in Played("gc-repo") /\ RepoStep(t) /\ UNCHANGED cast
  \/ t \in Users /\ (UseEnd(t) \/ UseEnter(t))
Acquires(t) ==
  \/ t \in Played("gc") /\ GcAcquired(t) /\ UNCHANGED <<repoVars, cast>>
  \/ t \in Played("gc-repo") /\ RepoAcquires(t) /\ UNCHANGED cast
  \/ t \in Users /\ (UseAcquiredRepo(t) \/ UseAcquired(t))

Next ==
  \/ \E t \in Threads : Step(t) \/ Acquires(t) \/ Fails(t)
  \/ \E t \in Users : UseBegin(t) \/ Use(t)
  \/ \E p \in Processes : Kill(p)

(* As long as one collector can go on, or a collection be started, that     *)
(* happens now and then; builds need not be scheduled, nor must anything    *)
(* fail.                                                                    *)
Fairness == WF_vars(\E t \in Played("gc") : Step(t) \/ Acquires(t))

Spec == Init /\ [][Next]_vars /\ Fairness

-----------------------------------------------------------------------------
(* An interrupted collection leaves the youngest generations available: an *)
(* older one is never kept while a younger one is dropped.                 *)
OnlyOldestDropped ==
  [][/\ \A i, j \in Gens : \A x \in gen[i] \cap Ids, y \in gen[j] \cap Ids :
          (y < x /\ \E k \in Gens : y \in gen'[k]) => \E k \in Gens : x \in gen'[k]
     /\ \A i, j \in Gens : \A x \in repo[i], y \in repo[j] :
          (y < x /\ \E k \in Gens : y \in repo'[k]) => \E k \in Gens : x \in repo'[k]]_vars

(* While somebody uses the build root, or the repositories, nothing is     *)
(* moved away from where the user has found it.                            *)
StableWhileUsed ==
  [][\A t \in Users :
       /\ held[t][GcLock] = "shared" => \A i \in Gens : gen[i] \subseteq gen'[i]
       /\ held[t][RepoLock] = "shared" => \A i \in Gens : repo[i] \subseteq repo'[i]]_vars

(* Nobody waits for himself through the locks others hold, the mutex of    *)
(* the process that Acquire holds while it waits included.                 *)
WaitsFor(t, f, mode, u) ==
  \/ mutex[Process[t]] = u /\ u # t
  \/ HasMutex(t) /\ held[u][f] = "exclusive"
  \/ HasMutex(t) /\ held[u][f] = "shared" /\ mode = "exclusive"
Waits(t, u) ==
  \/ pc[t] \in {"clean_lock", "remove_lock", "use_lock"} /\ WaitsFor(t, GcLock, "shared", u)
  \/ pc[t] = "rename_lock" /\ WaitsFor(t, GcLock, "exclusive", u)
  \/ pc[t] \in {"repo_clean_lock", "repo_remove_lock", "use_repo_lock"} /\ WaitsFor(t, RepoLock, "shared", u)
  \/ pc[t] = "repo_rename_lock" /\ WaitsFor(t, RepoLock, "exclusive", u)
NoWaitCycle ==
  \A S \in (SUBSET Threads) \ {{}} : \E t \in S : \A u \in S : ~Waits(t, u)

(* What was dropped from the build root is removed in the end, also after  *)
(* kills and failures of earlier collectors, provided that in the end      *)
(* collectors come one after the other and leave room for no one else.     *)
(* (Those that overlap forever may take over from each other, again and    *)
(* again, what each was about to remove.)                                  *)
DroppedIsRemoved ==
  <>[](\A t, u \in Threads : pc[t] # "idle" /\ pc[u] # "idle" => t = u /\ Role(t) = "gc") =>
    (\E n \in Junk : junk[n] # {}) ~> (\A n \in Junk : junk[n] = {})
=============================================================================
