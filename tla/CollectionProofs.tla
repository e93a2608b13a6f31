-------------------------- MODULE CollectionProofs --------------------------
(***************************************************************************)
(* Proofs about collections beside the users of the build root and of the  *)
(* repositories (Collection), for any number of processes, threads and     *)
(* generations, whatever fails and whoever is killed.                      *)
(*                                                                         *)
(* The inductive invariant Inv says which locks a thread holds at each     *)
(* place of its program, and what the directories are like while somebody  *)
(* drops generations.  Each action has a lemma for the types and one for   *)
(* the locks; those that touch the directories have one for these, too.    *)
(***************************************************************************)
EXTENDS Collection, WellFoundedInduction, TLAPS

GcLabels   == GcLockLabels \cup {"clean", "left_over", "compactify", "generations", "renamed", "remove"}
RepoLabels == RepoLockLabels \cup {"repo_clean", "repo_rename", "repo_generations", "repo_remove"}

(* What a thread with role r may be doing *)
Allowed(r, l) ==
  \/ l = "idle"
  \/ r = "gc" /\ l \in GcLabels
  \/ r = "gc-repo" /\ l \in RepoLabels
  \/ r \in {"build", "serve"} /\ l \in {"use_lock", "using"}
  \/ r = "serve" /\ l = "use_repo_lock"

(* How a thread at label l holds the lock of the build root, and one with  *)
(* role r that of the repositories                                         *)
GcMode(l) ==
  IF l \in {"left_over", "compactify", "generations", "renamed"} THEN "exclusive"
  ELSE IF l \in {"clean", "remove", "using"} THEN "shared" ELSE "none"
RepoMode(r, l) ==
  IF l \in {"repo_rename", "repo_generations"} THEN "exclusive"
  ELSE IF l \in {"repo_clean", "repo_remove"} \/ (r = "serve" /\ l \in {"use_lock", "using"})
    THEN "shared" ELSE "none"

LocksHeld ==
  \A t \in Threads : /\ Allowed(Role(t), pc[t])
                     /\ held[t][GcLock] = GcMode(pc[t])
                     /\ held[t][RepoLock] = RepoMode(Role(t), pc[t])

(* The mutex of a process is owned by a thread of that process. *)
MutexOwned == \A p \in Processes : mutex[p] # Nobody => Process[mutex[p]] = p

(* Younger generations are in younger directories. *)
Ordered(g, b) ==
  /\ \A i, j \in Gens : i < j => \A x \in g[i] \cap Ids, y \in g[j] \cap Ids : y < x
  /\ \A i \in Gens : \A x \in g[i] \cap Ids : x <= b

(* Who drops all generations has left none behind that is older than the   *)
(* one he is at.                                                           *)
NoOlder(t) ==
  pc[t] = "generations" /\ opt[t] = "all" => \A j \in Gens : j >= at[t] => gen[j] = {}
NoOlderRepo(t) ==
  pc[t] = "repo_generations" /\ drop_only[t] =>
    at[t] < N /\ \A j \in Gens : j > at[t] => repo[j] = {}

LocksInv == LocksHeld /\ MutualExclusion /\ MutexOwned
DirsInv  == /\ Ordered(gen, born) /\ Ordered(repo, repo_born)
            /\ \A t \in Threads : NoOlder(t) /\ NoOlderRepo(t)
Inv == TypeOK /\ LocksInv /\ DirsInv

-----------------------------------------------------------------------------
(* There is a directory with the least number among some. *)
LEMMA FirstIsOne ==
  ASSUME NEW names \in SUBSET Junk, names # {}
  PROVE  First(names) \in names
<1> DEFINE T == {n[2] : n \in names}
           R == OpToRel(<, Nat)
<1>1. Counters \subseteq Nat
  BY CollectionAssumption
<1>2. T \subseteq Nat /\ T # {}
  BY <1>1 DEF Junk
<1>3. IsWellFoundedOn(R, Nat)
  BY NatLessThanWellFounded
<1>4. \A a, b \in Nat : <<a, b>> \in R <=> a < b
  BY DEF OpToRel
<1> HIDE DEF R, T
<1>5. PICK m \in T : \A k \in T : ~(<<k, m>> \in R)
  BY <1>2, <1>3, WFMin
<1>6. PICK n \in names : n[2] = m
  BY DEF T
<1>7. \A k \in names : n[2] <= k[2]
  <2> TAKE k \in names
  <2>1. k[2] \in T
    BY DEF T
  <2>2. ~(<<k[2], m>> \in R) /\ k[2] \in Nat /\ m \in Nat
    BY <2>1, <1>5, <1>2
  <2>3. ~(k[2] < m)
    BY <2>2, <1>4
  <2> QED BY <2>2, <2>3, <1>6
<1>8. \E x \in names : \A k \in names : x[2] <= k[2]
  BY <1>7
<1> QED BY <1>8 DEF First

(* Generations remain ordered when something is taken from them... *)
LEMMA OrderedBelow ==
  ASSUME NEW g, NEW h, NEW b, Ordered(g, b), \A i \in Gens : h[i] \subseteq g[i]
  PROVE  Ordered(h, b)
<1>1. \A i, j \in Gens : i < j => \A x \in h[i] \cap Ids, y \in h[j] \cap Ids : y < x
  <2> TAKE i, j \in Gens
  <2> HAVE i < j
  <2> TAKE x \in h[i] \cap Ids, y \in h[j] \cap Ids
  <2>1. x \in g[i] \cap Ids /\ y \in g[j] \cap Ids
    OBVIOUS
  <2> QED BY <2>1 DEF Ordered
<1>2. \A i \in Gens : \A x \in h[i] \cap Ids : x <= b
  BY DEF Ordered
<1> QED BY <1>1, <1>2 DEF Ordered

(* ... when one moves to the gap left by the next older one... *)
Shifted(g, h, i) ==
  /\ \A k \in Gens \ {i - 1, i} : h[k] = g[k]
  /\ h[i - 1] = {}
  /\ \/ g[i - 1] = {} /\ h[i] = g[i]
     \/ g[i] = {} /\ h[i] = g[i - 1]

LEMMA GenBounds == N \in Nat /\ N >= 1 /\ Gens = 0 .. N - 1 /\ Gens \subseteq Int /\ 0 \in Gens
BY CollectionAssumption DEF Gens

LEMMA OrderedShifted ==
  ASSUME NEW g, NEW h, NEW b, NEW i \in Int, 0 < i, i < N, Ordered(g, b), Shifted(g, h, i)
  PROVE  Ordered(h, b)
<1>1. i \in Gens /\ i - 1 \in Gens /\ Gens \subseteq Int
  BY GenBounds
<1>2. CASE g[i - 1] = {} /\ h[i] = g[i]
  <2>1. \A k \in Gens : h[k] \subseteq g[k]
    BY <1>2, <1>1 DEF Shifted
  <2> QED BY <2>1, OrderedBelow
<1>3. CASE g[i] = {} /\ h[i] = g[i - 1]
  <2>1. \A k, j \in Gens : k < j => \A x \in h[k] \cap Ids, y \in h[j] \cap Ids : y < x
    <3> TAKE k, j \in Gens
    <3> HAVE k < j
    <3> TAKE x \in h[k] \cap Ids, y \in h[j] \cap Ids
    <3> DEFINE at1(n) == IF n = i THEN i - 1 ELSE n
    <3>1. k # i - 1 /\ j # i - 1
      BY DEF Shifted
    <3>2. h[k] = g[at1(k)] /\ h[j] = g[at1(j)]
      BY <3>1, <1>3 DEF Shifted
    <3>3. at1(k) < at1(j) /\ at1(k) \in Gens /\ at1(j) \in Gens
      BY <3>1, <1>1
    <3> HIDE DEF at1
    <3> QED BY <3>2, <3>3 DEF Ordered
  <2>2. \A k \in Gens : \A x \in h[k] \cap Ids : x <= b
    <3> TAKE k \in Gens
    <3> TAKE x \in h[k] \cap Ids
    <3>1. h[k] = {} \/ h[k] = g[k] \/ h[k] = g[i - 1]
      BY <1>3, <1>1 DEF Shifted
    <3> QED BY <3>1, <1>1 DEF Ordered
  <2> QED BY <2>1, <2>2 DEF Ordered
<1> QED BY <1>2, <1>3 DEF Shifted

(* ... and when a new one is begun. *)
LEMMA OrderedBegun ==
  ASSUME NEW g, NEW h, NEW b \in Int, Ordered(g, b), g[0] = {}, h[0] = {b + 1},
         \A k \in Gens \ {0} : h[k] = g[k]
  PROVE  Ordered(h, b + 1)
<1>1. Gens \subseteq Int /\ 0 \in Gens /\ \A k \in Gens : k >= 0
  BY GenBounds
<1>2. \A k \in Gens : \A x \in h[k] \cap Ids : x <= b + 1
  <2> TAKE k \in Gens
  <2> TAKE x \in h[k] \cap Ids
  <2>1. CASE k = 0
    BY <2>1
  <2>2. CASE k # 0
    <3>1. x \in g[k] \cap Ids
      BY <2>2
    <3>2. x <= b
      BY <3>1 DEF Ordered
    <3> QED BY <3>2 DEF Ids
  <2> QED BY <2>1, <2>2
<1>3. \A k, j \in Gens : k < j => \A x \in h[k] \cap Ids, y \in h[j] \cap Ids : y < x
  <2> TAKE k, j \in Gens
  <2> HAVE k < j
  <2> TAKE x \in h[k] \cap Ids, y \in h[j] \cap Ids
  <2>1. j # 0
    BY <1>1
  <2>2. y \in g[j] \cap Ids
    BY <2>1
  <2>3. y <= b /\ y \in Int
    BY <2>2 DEF Ordered, Ids
  <2>4. CASE k = 0
    BY <2>3, <2>4
  <2>5. CASE k # 0
    <3>1. x \in g[k] \cap Ids
      BY <2>5
    <3> QED BY <3>1, <2>2 DEF Ordered
  <2> QED BY <2>4, <2>5
<1> QED BY <1>2, <1>3 DEF Ordered

(* What a step may drop: not a generation while an older one is kept. *)
KeepsYounger(g, h) ==
  \A i, j \in Gens : \A x \in g[i] \cap Ids, y \in g[j] \cap Ids :
    (y < x /\ \E k \in Gens : y \in h[k]) => \E k \in Gens : x \in h[k]

LEMMA NothingDropped ==
  ASSUME NEW g, NEW h,
         \A i \in Gens : \A x \in g[i] \cap Ids : \E k \in Gens : x \in h[k]
  PROVE  KeepsYounger(g, h)
BY DEF KeepsYounger

LEMMA ShiftDropsNothing ==
  ASSUME NEW g, NEW h, NEW i \in Int, 0 < i, i < N, Shifted(g, h, i)
  PROVE  KeepsYounger(g, h)
<1>1. i \in Gens /\ i - 1 \in Gens
  BY GenBounds
<1>2. \A k \in Gens : \A x \in g[k] \cap Ids : \E m \in Gens : x \in h[m]
  <2> TAKE k \in Gens
  <2> TAKE x \in g[k] \cap Ids
  <2>1. CASE k \notin {i - 1, i}
    BY <2>1 DEF Shifted
  <2>2. CASE k \in {i - 1, i}
    <3>1. x \in h[i]
      BY <2>2 DEF Shifted
    <3> QED BY <3>1, <1>1
  <2> QED BY <2>1, <2>2
<1> QED BY <1>2, NothingDropped

(* The oldest that is there is dropped. *)
LEMMA OldestDropped ==
  ASSUME NEW g, NEW h, NEW b, NEW m \in Gens, Ordered(g, b),
         \A j \in Gens : j > m => g[j] = {},
         \A k \in Gens \ {m} : h[k] = g[k], h[m] = {}
  PROVE  KeepsYounger(g, h)
<1> SUFFICES ASSUME NEW i \in Gens, NEW j \in Gens, NEW x \in g[i] \cap Ids, NEW y \in g[j] \cap Ids,
                    y < x, NEW k \in Gens, y \in h[k]
             PROVE  \E n \in Gens : x \in h[n]
  BY DEF KeepsYounger
<1>1. k # m /\ y \in g[k] \cap Ids
  OBVIOUS
<1>2. Gens \subseteq Int /\ Ids \subseteq Int
  BY GenBounds DEF Ids
<1>3. CASE i = m
  <2>1. k < m
    BY <1>1, <1>2
  <2>2. x \in g[m] \cap Ids
    BY <1>3
  <2>3. x < y
    BY <2>1, <2>2, <1>1 DEF Ordered
  <2>4. x \in Int /\ y \in Int
    BY <1>2
  <2> QED BY <2>3, <2>4
<1>4. CASE i # m
  BY <1>4
<1> QED BY <1>3, <1>4

-----------------------------------------------------------------------------
(* What a step of thread t may do with locks and its place in the program *)
LockStep(t, l) ==
  /\ pc' = [pc EXCEPT ![t] = l] /\ cast' = cast
  /\ held' \in [Threads -> [Files -> Modes]]
  /\ \A u \in Threads \ {t} : held'[u] = held[u]
  /\ \A f \in Files : held'[t][f] = held[t][f] \/ held'[t][f] = "none" \/ Free(f, held'[t][f])
  /\ held'[t][GcLock] = GcMode(l) /\ held'[t][RepoLock] = RepoMode(Role(t), l)
  /\ mutex' \in [Processes -> Threads \cup {Nobody}]
  /\ \A p \in Processes : mutex'[p] = mutex[p] \/ mutex'[p] = Nobody \/ (mutex'[p] = t /\ p = Process[t])

LEMMA LockStepKeeps ==
  ASSUME TypeOK, LocksInv, NEW t \in Threads, NEW l, LockStep(t, l), Allowed(Role(t), l)
  PROVE  LocksInv' /\ LockTypeOK'
<1>1. Role(t)' = Role(t) /\ \A u \in Threads : Role(u)' = Role(u)
  BY DEF LockStep, Role
<1>2. pc'[t] = l /\ \A u \in Threads \ {t} : pc'[u] = pc[u]
  BY DEF TypeOK, LockStep
<1>3. LocksHeld'
  <2> SUFFICES ASSUME NEW u \in Threads
               PROVE  /\ Allowed(Role(u)', pc'[u])
                      /\ held'[u][GcLock] = GcMode(pc'[u])
                      /\ held'[u][RepoLock] = RepoMode(Role(u)', pc'[u])
    BY DEF LocksHeld
  <2>1. CASE u = t
    BY <2>1, <1>1, <1>2 DEF LockStep
  <2>2. CASE u # t
    BY <2>2, <1>1, <1>2 DEF LockStep, LocksInv, LocksHeld
  <2> QED BY <2>1, <2>2
<1>4. MutualExclusion'
  <2> SUFFICES ASSUME NEW a \in Threads, NEW u \in Threads, NEW f \in Files, a # u,
                      held'[a][f] = "exclusive"
               PROVE  held'[u][f] = "none"
    BY DEF MutualExclusion
  <2>1. \A v \in Threads, w \in Threads : v # w /\ held[v][f] = "exclusive" => held[w][f] = "none"
    BY DEF LocksInv, MutualExclusion
  <2>2. CASE a = t
    <3>1. held'[u][f] = held[u][f]
      BY <2>2 DEF LockStep
    <3>2. held[a][f] = "exclusive" \/ Free(f, "exclusive")
      BY <2>2 DEF LockStep
    <3> QED BY <3>1, <3>2, <2>1 DEF Free
  <2>3. CASE u = t
    <3>1. held[a][f] = "exclusive"
      BY <2>3 DEF LockStep
    <3>2. held[u][f] = "none"
      BY <3>1, <2>1
    <3>3. ~Free(f, held'[u][f]) \/ held'[u][f] = "none"
      BY <3>1 DEF Free
    <3> QED BY <3>2, <3>3, <2>3 DEF LockStep
  <2>4. CASE a # t /\ u # t
    BY <2>4, <2>1 DEF LockStep
  <2> QED BY <2>2, <2>3, <2>4
<1>5. MutexOwned'
  BY DEF LockStep, LocksInv, MutexOwned
<1>6. LockTypeOK'
  BY DEF LockStep, LockTypeOK
<1> QED BY <1>3, <1>4, <1>5, <1>6 DEF LocksInv

(* The kinds of steps there are: a step without a lock... *)
LEMMA LocksSame ==
  ASSUME TypeOK, LocksInv, UNCHANGED <<mutex, held, pc, cast>>
  PROVE  LocksInv' /\ LockTypeOK'
<1>1. UNCHANGED LocksHeld
  BY DEF LocksHeld, Role
<1>2. UNCHANGED MutualExclusion
  BY DEF MutualExclusion
<1>3. UNCHANGED MutexOwned
  BY DEF MutexOwned
<1>4. UNCHANGED LockTypeOK
  BY DEF LockTypeOK
<1> QED BY <1>1, <1>2, <1>3, <1>4 DEF LocksInv, TypeOK

(* ... to another place with the same locks, *)
LEMMA LocksMove ==
  ASSUME TypeOK, LocksInv, NEW t \in Threads, NEW l, UNCHANGED <<mutex, held, cast>>,
         pc' = [pc EXCEPT ![t] = l], Allowed(Role(t), l),
         GcMode(l) = GcMode(pc[t]), RepoMode(Role(t), l) = RepoMode(Role(t), pc[t])
  PROVE  LocksInv' /\ LockTypeOK'
<1>1. LockStep(t, l)
  BY DEF LockStep, TypeOK, LockTypeOK, LocksInv, LocksHeld
<1> QED BY <1>1, LockStepKeeps

(* ... which gets the mutex, *)
LEMMA LocksEnter ==
  ASSUME TypeOK, LocksInv, NEW t \in Threads, EnterAcquire(t), UNCHANGED <<pc, cast>>
  PROVE  LocksInv' /\ LockTypeOK'
<1>1. Process[t] \in Processes
  BY DEF Processes
<1>2. pc' = [pc EXCEPT ![t] = pc[t]]
  BY DEF TypeOK
<1>3. \A p \in Processes : mutex'[p] = mutex[p] \/ (mutex'[p] = t /\ p = Process[t])
  BY <1>1 DEF TypeOK, LockTypeOK, EnterAcquire
<1>4. mutex' \in [Processes -> Threads \cup {Nobody}]
  BY <1>1 DEF TypeOK, LockTypeOK, EnterAcquire
<1>5. LockStep(t, pc[t])
  BY <1>2, <1>3, <1>4 DEF LockStep, TypeOK, LockTypeOK, LocksInv, LocksHeld, EnterAcquire
<1>6. Allowed(Role(t), pc[t])
  BY DEF LocksInv, LocksHeld
<1> QED BY <1>5, <1>6, LockStepKeeps

(* ... which gets lock f, *)
LEMMA LocksAcquire ==
  ASSUME TypeOK, LocksInv, NEW t \in Threads, NEW l, NEW f \in {GcLock, RepoLock},
         NEW mode \in {"shared", "exclusive"},
         Acquired(t, f, mode), Goto(t, l), UNCHANGED cast, Allowed(Role(t), l),
         GcMode(l) = (IF f = GcLock THEN mode ELSE GcMode(pc[t])),
         RepoMode(Role(t), l) = (IF f = RepoLock THEN mode ELSE RepoMode(Role(t), pc[t]))
  PROVE  LocksInv' /\ LockTypeOK'
<1>1. f \in Files /\ GcLock \in Files /\ RepoLock \in Files /\ GcLock # RepoLock
  BY CollectionAssumption, RepoAssumption, CastAssumption
<1>2. /\ held' \in [Threads -> [Files -> Modes]]
      /\ \A u \in Threads \ {t} : held'[u] = held[u]
      /\ held'[t][f] = mode /\ \A g \in Files \ {f} : held'[t][g] = held[t][g]
  BY <1>1 DEF TypeOK, LockTypeOK, Acquired, Modes
<1>3. /\ mutex' \in [Processes -> Threads \cup {Nobody}]
      /\ \A p \in Processes : mutex'[p] = mutex[p] \/ mutex'[p] = Nobody
  BY DEF TypeOK, LockTypeOK, Acquired, Processes
<1>4. \A g \in Files : held'[t][g] = held[t][g] \/ held'[t][g] = "none" \/ Free(g, held'[t][g])
  BY <1>2 DEF Acquired
<1>5. held[t][GcLock] = GcMode(pc[t]) /\ held[t][RepoLock] = RepoMode(Role(t), pc[t])
  BY DEF LocksInv, LocksHeld
<1>6. held'[t][GcLock] = GcMode(l)
  BY <1>1, <1>2, <1>5
<1>7. held'[t][RepoLock] = RepoMode(Role(t), l)
  BY <1>1, <1>2, <1>5
<1>8. LockStep(t, l)
  BY <1>2, <1>3, <1>4, <1>6, <1>7 DEF LockStep, Goto
<1> QED BY <1>8, LockStepKeeps

(* ... which fails to get one, *)
LEMMA LocksFail ==
  ASSUME TypeOK, LocksInv, NEW t \in Threads, AcquireFails(t), Goto(t, "idle"), UNCHANGED cast,
         GcMode(pc[t]) = "none", RepoMode(Role(t), pc[t]) = "none"
  PROVE  LocksInv' /\ LockTypeOK'
<1>1. /\ mutex' \in [Processes -> Threads \cup {Nobody}]
      /\ \A p \in Processes : mutex'[p] = mutex[p] \/ mutex'[p] = Nobody
  BY DEF TypeOK, LockTypeOK, AcquireFails, Processes
<1>2. GcMode("idle") = "none" /\ RepoMode(Role(t), "idle") = "none" /\ Allowed(Role(t), "idle")
  BY DEF GcMode, RepoMode, Allowed
<1>3. LockStep(t, "idle")
  BY <1>1, <1>2 DEF LockStep, TypeOK, LockTypeOK, LocksInv, LocksHeld, AcquireFails, Goto
<1> QED BY <1>2, <1>3, LockStepKeeps

(* ... which gives back all locks. *)
LEMMA LocksRelease ==
  ASSUME TypeOK, LocksInv, NEW t \in Threads, NEW l, UNCHANGED cast, Goto(t, l),
         Allowed(Role(t), l),
         held' = [held EXCEPT ![t] = [f \in Files |-> "none"]],
         mutex' = mutex \/ mutex' = [mutex EXCEPT ![Process[t]] = Nobody],
         GcMode(l) = "none", RepoMode(Role(t), l) = "none"
  PROVE  LocksInv' /\ LockTypeOK'
<1>1. /\ mutex' \in [Processes -> Threads \cup {Nobody}]
      /\ \A p \in Processes : mutex'[p] = mutex[p] \/ mutex'[p] = Nobody
  BY DEF TypeOK, LockTypeOK, Processes
<1>2. /\ held' \in [Threads -> [Files -> Modes]]
      /\ \A u \in Threads \ {t} : held'[u] = held[u]
      /\ \A g \in Files : held'[t][g] = "none"
  BY DEF TypeOK, LockTypeOK, Modes
<1>3. LockStep(t, l)
  BY <1>1, <1>2, CollectionAssumption, RepoAssumption DEF LockStep, Goto
<1> QED BY <1>3, LockStepKeeps

-----------------------------------------------------------------------------
(* Steps of a collector of the build root: types and locks *)
LEMMA GcEnterKeeps ==
  ASSUME TypeOK, LocksInv, NEW t \in Threads, Role(t) = "gc", NEW l \in GcLockLabels, GcEnter(t, l),
         UNCHANGED <<repoVars, cast>>
  PROVE  TypeOK' /\ LocksInv'
<1>1. LocksInv' /\ LockTypeOK'
  BY LocksEnter DEF GcEnter
<1>2. DirTypeOK'
  BY DEF TypeOK, DirTypeOK, dirVars, GcEnter, gcState
<1>3. GcTypeOK'
  BY DEF TypeOK, GcTypeOK, GcEnter, Forget, Trouble, gcVars, gcState, Options
<1>4. RepoTypeOK' /\ pc' \in [Threads -> Labels] /\ cast' \in DOMAIN Casts
  BY DEF TypeOK, RepoTypeOK, repoVars, Labels, GcLockLabels, RepoLockLabels, GcEnter, Goto
<1> QED BY <1>1, <1>2, <1>3, <1>4 DEF TypeOK

(* gc.lock cannot be had: the collector gives up. *)
LEMMA GcAcquireFailsKeeps ==
  ASSUME TypeOK, LocksInv, NEW t \in Threads, Role(t) = "gc", NEW l \in GcLockLabels,
         GcAcquireFails(t, l), UNCHANGED <<repoVars, cast>>
  PROVE  TypeOK' /\ LocksInv'
<1>1. LocksInv' /\ LockTypeOK'
  <2>1. GcMode(pc[t]) = "none" /\ RepoMode(Role(t), pc[t]) = "none"
    BY DEF GcAcquireFails, GcMode, RepoMode, Allowed, GcLabels, RepoLabels, GcLockLabels, RepoLockLabels
  <2> QED BY <2>1, LocksFail DEF GcAcquireFails
<1>2. DirTypeOK'
  BY DEF TypeOK, DirTypeOK, dirVars, GcAcquireFails, gcState
<1>3. GcTypeOK'
  BY CollectionAssumption DEF TypeOK, GcTypeOK, GcAcquireFails, Forget, Trouble, gcVars, gcState, Options
<1>4. RepoTypeOK' /\ pc' \in [Threads -> Labels] /\ cast' \in DOMAIN Casts
  BY DEF TypeOK, RepoTypeOK, repoVars, Labels, GcLockLabels, RepoLockLabels, GcAcquireFails, Goto
<1> QED BY <1>1, <1>2, <1>3, <1>4 DEF TypeOK

(* The call *)
LEMMA BeginKeeps ==
  ASSUME TypeOK, LocksInv, NEW t \in Threads, Role(t) = "gc", Begin(t), UNCHANGED <<repoVars, cast>>
  PROVE  TypeOK' /\ LocksInv'
<1>1. LocksInv' /\ LockTypeOK'
  <2>1. Allowed(Role(t), "clean_lock") /\ GcMode("clean_lock") = GcMode(pc[t]) /\ RepoMode(Role(t), "clean_lock") = RepoMode(Role(t), pc[t])
    BY DEF Begin, Collectors, GcMode, RepoMode, Allowed, GcLabels, RepoLabels, GcLockLabels, RepoLockLabels
  <2> QED BY <2>1, LocksMove DEF Begin, lockVars, Goto
<1>2. DirTypeOK'
  BY DEF TypeOK, DirTypeOK, dirVars, Begin, gcState
<1>3. GcTypeOK'
  BY DEF TypeOK, GcTypeOK, Begin, Forget, Trouble, gcVars, gcState, Options
<1>4. RepoTypeOK' /\ pc' \in [Threads -> Labels] /\ cast' \in DOMAIN Casts
  BY DEF TypeOK, RepoTypeOK, repoVars, Labels, GcLockLabels, RepoLockLabels, Begin, Goto
<1> QED BY <1>1, <1>2, <1>3, <1>4 DEF TypeOK

(* Shared, to clean up *)
LEMMA CleanAcquiredKeeps ==
  ASSUME TypeOK, LocksInv, NEW t \in Threads, Role(t) = "gc", CleanAcquired(t),
         UNCHANGED <<repoVars, cast>>
  PROVE  TypeOK' /\ LocksInv'
<1>1. LocksInv' /\ LockTypeOK'
  <2>1. /\ Allowed(Role(t), "clean")
        /\ GcMode("clean") = (IF GcLock = GcLock THEN "shared" ELSE GcMode(pc[t]))
        /\ RepoMode(Role(t), "clean") = (IF GcLock = RepoLock THEN "shared" ELSE RepoMode(Role(t), pc[t]))
    BY CastAssumption DEF CleanAcquired, GcMode, RepoMode, Allowed, GcLabels, RepoLabels, GcLockLabels, RepoLockLabels
  <2> QED BY <2>1, LocksAcquire DEF CleanAcquired
<1>2. DirTypeOK'
  BY DEF TypeOK, DirTypeOK, dirVars, CleanAcquired, gcState
<1>3. GcTypeOK'
  BY DEF TypeOK, GcTypeOK, CleanAcquired, Forget, Trouble, gcVars, gcState, Options
<1>4. RepoTypeOK' /\ pc' \in [Threads -> Labels] /\ cast' \in DOMAIN Casts
  BY DEF TypeOK, RepoTypeOK, repoVars, Labels, GcLockLabels, RepoLockLabels, CleanAcquired, Goto
<1> QED BY <1>1, <1>2, <1>3, <1>4 DEF TypeOK

(* One directory is removed. *)
LEMMA RemoveOneKeeps ==
  ASSUME TypeOK, LocksInv, NEW t \in Threads, Role(t) = "gc", NEW l, RemoveOne(t, l),
         UNCHANGED <<repoVars, cast>>
  PROVE  TypeOK' /\ LocksInv'
<1>1. LocksInv' /\ LockTypeOK'
  BY LocksSame DEF RemoveOne, lockVars
<1>2. DirTypeOK'
  BY DEF TypeOK, DirTypeOK, dirVars, RemoveOne, gcState
<1>3. GcTypeOK'
  BY DEF TypeOK, GcTypeOK, RemoveOne, Forget, Trouble, gcVars, gcState, Options
<1>4. RepoTypeOK' /\ pc' \in [Threads -> Labels] /\ cast' \in DOMAIN Casts
  BY DEF TypeOK, RepoTypeOK, repoVars, Labels, GcLockLabels, RepoLockLabels, RemoveOne, Goto
<1> QED BY <1>1, <1>2, <1>3, <1>4 DEF TypeOK

(* One directory cannot be removed. *)
LEMMA RemoveFailsKeeps ==
  ASSUME TypeOK, LocksInv, NEW t \in Threads, Role(t) = "gc", NEW l, RemoveFails(t, l),
         UNCHANGED <<repoVars, cast>>
  PROVE  TypeOK' /\ LocksInv'
<1>1. LocksInv' /\ LockTypeOK'
  BY LocksSame DEF RemoveFails, lockVars
<1>2. DirTypeOK'
  BY DEF TypeOK, DirTypeOK, dirVars, RemoveFails, gcState
<1>3. GcTypeOK'
  BY CollectionAssumption DEF TypeOK, GcTypeOK, RemoveFails, Forget, Trouble, gcVars, gcState, Options
<1>4. RepoTypeOK' /\ pc' \in [Threads -> Labels] /\ cast' \in DOMAIN Casts
  BY DEF TypeOK, RepoTypeOK, repoVars, Labels, GcLockLabels, RepoLockLabels, RemoveFails, Goto
<1> QED BY <1>1, <1>2, <1>3, <1>4 DEF TypeOK



(* The youngest generation is compactified. *)
LEMMA CompactifiedKeeps ==
  ASSUME TypeOK, LocksInv, NEW t \in Threads, Role(t) = "gc", Compactified(t),
         UNCHANGED <<repoVars, cast>>
  PROVE  TypeOK' /\ LocksInv'
<1>1. LocksInv' /\ LockTypeOK'
  <2>1. Allowed(Role(t), (IF opt[t] = "rotate" THEN "generations" ELSE "renamed")) /\ GcMode((IF opt[t] = "rotate" THEN "generations" ELSE "renamed")) = GcMode(pc[t]) /\ RepoMode(Role(t), (IF opt[t] = "rotate" THEN "generations" ELSE "renamed")) = RepoMode(Role(t), pc[t])
    BY DEF Compactified, Collectors, GcMode, RepoMode, Allowed, GcLabels, RepoLabels, GcLockLabels, RepoLockLabels
  <2> QED BY <2>1, LocksMove DEF Compactified, lockVars, Goto
<1>2. DirTypeOK'
  BY DEF TypeOK, DirTypeOK, dirVars, Compactified, gcState
<1>3. GcTypeOK'
  BY DEF TypeOK, GcTypeOK, Compactified, Forget, Trouble, gcVars, gcState, Options
<1>4. RepoTypeOK' /\ pc' \in [Threads -> Labels] /\ cast' \in DOMAIN Casts
  BY DEF TypeOK, RepoTypeOK, repoVars, Labels, GcLockLabels, RepoLockLabels, Compactified, Goto
<1> QED BY <1>1, <1>2, <1>3, <1>4 DEF TypeOK

(* Exclusive, to rename *)
LEMMA RenameAcquiredKeeps ==
  ASSUME TypeOK, LocksInv, NEW t \in Threads, Role(t) = "gc", RenameAcquired(t),
         UNCHANGED <<repoVars, cast>>
  PROVE  TypeOK' /\ LocksInv'
<1>1. LocksInv' /\ LockTypeOK'
  <2>1. /\ Allowed(Role(t), "left_over")
        /\ GcMode("left_over") = (IF GcLock = GcLock THEN "exclusive" ELSE GcMode(pc[t]))
        /\ RepoMode(Role(t), "left_over") = (IF GcLock = RepoLock THEN "exclusive" ELSE RepoMode(Role(t), pc[t]))
    BY CastAssumption DEF RenameAcquired, GcMode, RepoMode, Allowed, GcLabels, RepoLabels, GcLockLabels, RepoLockLabels
  <2> QED BY <2>1, LocksAcquire DEF RenameAcquired
<1>2. DirTypeOK'
  BY DEF TypeOK, DirTypeOK, dirVars, RenameAcquired, gcState
<1>3. GcTypeOK'
  BY DEF TypeOK, GcTypeOK, RenameAcquired, Forget, Trouble, gcVars, gcState, Options
<1>4. RepoTypeOK' /\ pc' \in [Threads -> Labels] /\ cast' \in DOMAIN Casts
  BY DEF TypeOK, RepoTypeOK, repoVars, Labels, GcLockLabels, RepoLockLabels, RenameAcquired, Goto
<1> QED BY <1>1, <1>2, <1>3, <1>4 DEF TypeOK

(* Shared, to remove *)
LEMMA RemoveAcquiredKeeps ==
  ASSUME TypeOK, LocksInv, NEW t \in Threads, Role(t) = "gc", RemoveAcquired(t),
         UNCHANGED <<repoVars, cast>>
  PROVE  TypeOK' /\ LocksInv'
<1>1. LocksInv' /\ LockTypeOK'
  <2>1. /\ Allowed(Role(t), "remove")
        /\ GcMode("remove") = (IF GcLock = GcLock THEN "shared" ELSE GcMode(pc[t]))
        /\ RepoMode(Role(t), "remove") = (IF GcLock = RepoLock THEN "shared" ELSE RepoMode(Role(t), pc[t]))
    BY CastAssumption DEF RemoveAcquired, GcMode, RepoMode, Allowed, GcLabels, RepoLabels, GcLockLabels, RepoLockLabels
  <2> QED BY <2>1, LocksAcquire DEF RemoveAcquired
<1>2. DirTypeOK'
  BY DEF TypeOK, DirTypeOK, dirVars, RemoveAcquired, gcState
<1>3. GcTypeOK'
  BY DEF TypeOK, GcTypeOK, RemoveAcquired, Forget, Trouble, gcVars, gcState, Options
<1>4. RepoTypeOK' /\ pc' \in [Threads -> Labels] /\ cast' \in DOMAIN Casts
  BY DEF TypeOK, RepoTypeOK, repoVars, Labels, GcLockLabels, RepoLockLabels, RemoveAcquired, Goto
<1> QED BY <1>1, <1>2, <1>3, <1>4 DEF TypeOK

(* The exclusive lock is given back. *)
LEMMA RenamedKeeps ==
  ASSUME TypeOK, LocksInv, NEW t \in Threads, Role(t) = "gc", Renamed(t),
         UNCHANGED <<repoVars, cast>>
  PROVE  TypeOK' /\ LocksInv'
<1>1. LocksInv' /\ LockTypeOK'
  <2>1. Allowed(Role(t), "remove_lock") /\ GcMode("remove_lock") = "none" /\ RepoMode(Role(t), "remove_lock") = "none"
    BY DEF GcMode, RepoMode, Allowed, GcLabels, RepoLabels, GcLockLabels, RepoLockLabels
  <2> QED BY <2>1, LocksRelease DEF Renamed, Release
<1>2. DirTypeOK'
  BY DEF TypeOK, DirTypeOK, dirVars, Renamed, gcState
<1>3. GcTypeOK'
  BY DEF TypeOK, GcTypeOK, Renamed, Forget, Trouble, gcVars, gcState, Options
<1>4. RepoTypeOK' /\ pc' \in [Threads -> Labels] /\ cast' \in DOMAIN Casts
  BY DEF TypeOK, RepoTypeOK, repoVars, Labels, GcLockLabels, RepoLockLabels, Renamed, Goto
<1> QED BY <1>1, <1>2, <1>3, <1>4 DEF TypeOK

(* Compactification fails. *)
LEMMA CompactifyFailsKeeps ==
  ASSUME TypeOK, LocksInv, NEW t \in Threads, Role(t) = "gc", CompactifyFails(t),
         UNCHANGED <<repoVars, cast>>
  PROVE  TypeOK' /\ LocksInv'
<1>1. LocksInv' /\ LockTypeOK'
  <2>1. Allowed(Role(t), "idle") /\ GcMode("idle") = "none" /\ RepoMode(Role(t), "idle") = "none"
    BY DEF GcMode, RepoMode, Allowed, GcLabels, RepoLabels, GcLockLabels, RepoLockLabels
  <2> QED BY <2>1, LocksRelease DEF CompactifyFails, Return, Forget, Release
<1>2. DirTypeOK'
  BY DEF TypeOK, DirTypeOK, dirVars, CompactifyFails, Return, Forget, gcState
<1>3. GcTypeOK'
  BY CollectionAssumption DEF TypeOK, GcTypeOK, CompactifyFails, Return, Forget, Forget, Trouble, gcVars, gcState, Options
<1>4. RepoTypeOK' /\ pc' \in [Threads -> Labels] /\ cast' \in DOMAIN Casts
  BY DEF TypeOK, RepoTypeOK, repoVars, Labels, GcLockLabels, RepoLockLabels, CompactifyFails, Return, Forget, Goto
<1> QED BY <1>1, <1>2, <1>3, <1>4 DEF TypeOK

(* A rename fails. *)
LEMMA RenameFailsKeeps ==
  ASSUME TypeOK, LocksInv, NEW t \in Threads, Role(t) = "gc", RenameFails(t),
         UNCHANGED <<repoVars, cast>>
  PROVE  TypeOK' /\ LocksInv'
<1>1. LocksInv' /\ LockTypeOK'
  <2>1. Allowed(Role(t), "idle") /\ GcMode("idle") = "none" /\ RepoMode(Role(t), "idle") = "none"
    BY DEF GcMode, RepoMode, Allowed, GcLabels, RepoLabels, GcLockLabels, RepoLockLabels
  <2> QED BY <2>1, LocksRelease DEF RenameFails, Return, Forget, Release
<1>2. DirTypeOK'
  BY DEF TypeOK, DirTypeOK, dirVars, RenameFails, Return, Forget, gcState
<1>3. GcTypeOK'
  BY CollectionAssumption DEF TypeOK, GcTypeOK, RenameFails, Return, Forget, Forget, Trouble, gcVars, gcState, Options
<1>4. RepoTypeOK' /\ pc' \in [Threads -> Labels] /\ cast' \in DOMAIN Casts
  BY DEF TypeOK, RepoTypeOK, repoVars, Labels, GcLockLabels, RepoLockLabels, RenameFails, Return, Forget, Goto
<1> QED BY <1>1, <1>2, <1>3, <1>4 DEF TypeOK

(* Everything is removed. *)
LEMMA RemovedKeeps ==
  ASSUME TypeOK, LocksInv, NEW t \in Threads, Role(t) = "gc", Removed(t),
         UNCHANGED <<repoVars, cast>>
  PROVE  TypeOK' /\ LocksInv'
<1>1. LocksInv' /\ LockTypeOK'
  <2>1. Allowed(Role(t), "idle") /\ GcMode("idle") = "none" /\ RepoMode(Role(t), "idle") = "none"
    BY DEF GcMode, RepoMode, Allowed, GcLabels, RepoLabels, GcLockLabels, RepoLockLabels
  <2> QED BY <2>1, LocksRelease DEF Removed, Return, Forget, Release
<1>2. DirTypeOK'
  BY DEF TypeOK, DirTypeOK, dirVars, Removed, Return, Forget, gcState
<1>3. GcTypeOK'
  BY CollectionAssumption DEF TypeOK, GcTypeOK, Removed, Return, Forget, Forget, Trouble, gcVars, gcState, Options
<1>4. RepoTypeOK' /\ pc' \in [Threads -> Labels] /\ cast' \in DOMAIN Casts
  BY DEF TypeOK, RepoTypeOK, repoVars, Labels, GcLockLabels, RepoLockLabels, Removed, Return, Forget, Goto
<1> QED BY <1>1, <1>2, <1>3, <1>4 DEF TypeOK

(* The own left-overs are removed: on to renaming, or an error. *)
LEMMA CleanedKeeps ==
  ASSUME TypeOK, LocksInv, NEW t \in Threads, Role(t) = "gc", Cleaned(t),
         UNCHANGED <<repoVars, cast>>
  PROVE  TypeOK' /\ LocksInv'
<1> DEFINE l == IF ok[t] THEN "rename_lock" ELSE "idle"
<1>0. Goto(t, l) /\ Release(t)
  BY DEF Cleaned, Return
<1>1. LocksInv' /\ LockTypeOK'
  <2>1. Allowed(Role(t), l) /\ GcMode(l) = "none" /\ RepoMode(Role(t), l) = "none"
    BY DEF GcMode, RepoMode, Allowed, GcLabels, RepoLabels, GcLockLabels, RepoLockLabels
  <2> HIDE DEF l
  <2> QED BY <1>0, <2>1, LocksRelease DEF Release
<1>2. DirTypeOK'
  BY DEF TypeOK, DirTypeOK, dirVars, Cleaned
<1>3. GcTypeOK'
  <2>1. CASE ok[t]
    BY <2>1 DEF TypeOK, GcTypeOK, Cleaned, gcVars
  <2>2. CASE ~ok[t]
    <3>1. Forget(t) /\ trouble' = trouble
      BY <2>2 DEF Cleaned, Return
    <3> QED BY <3>1, CollectionAssumption DEF TypeOK, GcTypeOK, Forget, Options
  <2> QED BY <2>1, <2>2
<1>4. RepoTypeOK' /\ pc' \in [Threads -> Labels] /\ cast' \in DOMAIN Casts
  BY <1>0 DEF TypeOK, RepoTypeOK, repoVars, Labels, GcLockLabels, Goto
<1> QED BY <1>1, <1>2, <1>3, <1>4 DEF TypeOK

(* A left-over is taken over. *)
LEMMA TakeOverKeeps ==
  ASSUME TypeOK, LocksInv, NEW t \in Threads, Role(t) = "gc", TakeOver(t),
         UNCHANGED <<repoVars, cast>>
  PROVE  TypeOK' /\ LocksInv'
<1>0. First(todo[t]) \in Junk
  BY FirstIsOne DEF TakeOver, TypeOK, GcTypeOK
<1>1. LocksInv' /\ LockTypeOK'
  BY LocksSame DEF TakeOver, lockVars
<1>2. DirTypeOK'
  BY <1>0 DEF TypeOK, DirTypeOK, dirVars, TakeOver, Name, gcState
<1>3. GcTypeOK'
  BY CollectionAssumption DEF TypeOK, GcTypeOK, Name, Fresh, TakeOver, Forget, Trouble, gcVars, gcState, Options
<1>4. RepoTypeOK' /\ pc' \in [Threads -> Labels] /\ cast' \in DOMAIN Casts
  BY DEF TypeOK, RepoTypeOK, repoVars, Labels, GcLockLabels, RepoLockLabels, TakeOver, Goto
<1> QED BY <1>1, <1>2, <1>3, <1>4 DEF TypeOK

(* Ephemeral data is moved out. *)
LEMMA MoveEphemeralKeeps ==
  ASSUME TypeOK, LocksInv, NEW t \in Threads, Role(t) = "gc", MoveEphemeral(t),
         UNCHANGED <<repoVars, cast>>
  PROVE  TypeOK' /\ LocksInv'
<1>1. LocksInv' /\ LockTypeOK'
  <2>1. Allowed(Role(t), (IF opt[t] = "all" THEN "generations" ELSE "compactify")) /\ GcMode((IF opt[t] = "all" THEN "generations" ELSE "compactify")) = GcMode(pc[t]) /\ RepoMode(Role(t), (IF opt[t] = "all" THEN "generations" ELSE "compactify")) = RepoMode(Role(t), pc[t])
    BY DEF MoveEphemeral, Collectors, GcMode, RepoMode, Allowed, GcLabels, RepoLabels, GcLockLabels, RepoLockLabels
  <2> QED BY <2>1, LocksMove DEF MoveEphemeral, lockVars, Goto
<1>2. DirTypeOK'
  BY GenBounds DEF TypeOK, DirTypeOK, dirVars, MoveEphemeral, Name, Items, gcState
<1>3. GcTypeOK'
  BY CollectionAssumption DEF TypeOK, GcTypeOK, LoopStart, Name, MoveEphemeral, Forget, Trouble, gcVars, gcState, Options
<1>4. RepoTypeOK' /\ pc' \in [Threads -> Labels] /\ cast' \in DOMAIN Casts
  BY DEF TypeOK, RepoTypeOK, repoVars, Labels, GcLockLabels, RepoLockLabels, MoveEphemeral, Goto
<1> QED BY <1>1, <1>2, <1>3, <1>4 DEF TypeOK

(* A generation is dropped. *)
LEMMA DropGenerationKeeps ==
  ASSUME TypeOK, LocksInv, NEW t \in Threads, Role(t) = "gc", DropGeneration(t),
         UNCHANGED <<repoVars, cast>>
  PROVE  TypeOK' /\ LocksInv'
<1>1. LocksInv' /\ LockTypeOK'
  BY LocksSame DEF DropGeneration, lockVars
<1>2. DirTypeOK'
  BY GenBounds DEF TypeOK, DirTypeOK, GcTypeOK, dirVars, Fresh, Name, DropGeneration, gcState
<1>3. GcTypeOK'
  <2>1. Name(t) \in Junk /\ count[t] + 1 \in Nat
    BY DEF DropGeneration, Fresh, TypeOK, GcTypeOK
  <2>2. at[t] \in 1 .. N /\ at[t] - 1 \in 0 .. N
    BY GenBounds DEF DropGeneration, TypeOK, GcTypeOK
  <2>3. at' = [at EXCEPT ![t] = at[t] - 1]
    BY <2>2 DEF DropGeneration, TypeOK, GcTypeOK
  <2> QED BY <2>1, <2>2, <2>3 DEF TypeOK, GcTypeOK, DropGeneration
<1>4. RepoTypeOK' /\ pc' \in [Threads -> Labels] /\ cast' \in DOMAIN Casts
  BY DEF TypeOK, RepoTypeOK, repoVars, Labels, GcLockLabels, RepoLockLabels, DropGeneration, Goto
<1> QED BY <1>1, <1>2, <1>3, <1>4 DEF TypeOK

(* The oldest generation is dropped. *)
LEMMA RotateOldestKeeps ==
  ASSUME TypeOK, LocksInv, NEW t \in Threads, Role(t) = "gc", RotateOldest(t),
         UNCHANGED <<repoVars, cast>>
  PROVE  TypeOK' /\ LocksInv'
<1>1. LocksInv' /\ LockTypeOK'
  BY LocksSame DEF RotateOldest, lockVars
<1>2. DirTypeOK'
  BY GenBounds DEF TypeOK, DirTypeOK, GcTypeOK, dirVars, Fresh, Name, RotateOldest, gcState
<1>3. GcTypeOK'
  <2>1. Name(t) \in Junk /\ count[t] + 1 \in Nat
    BY DEF RotateOldest, Fresh, TypeOK, GcTypeOK
  <2>2. at[t] \in 1 .. N /\ at[t] - 1 \in 0 .. N
    BY GenBounds DEF RotateOldest, TypeOK, GcTypeOK
  <2>3. at' = [at EXCEPT ![t] = at[t] - 1]
    BY <2>2 DEF RotateOldest, TypeOK, GcTypeOK
  <2> QED BY <2>1, <2>2, <2>3 DEF TypeOK, GcTypeOK, RotateOldest
<1>4. RepoTypeOK' /\ pc' \in [Threads -> Labels] /\ cast' \in DOMAIN Casts
  BY DEF TypeOK, RepoTypeOK, repoVars, Labels, GcLockLabels, RepoLockLabels, RotateOldest, Goto
<1> QED BY <1>1, <1>2, <1>3, <1>4 DEF TypeOK

(* A generation gets older. *)
LEMMA RotateYoungerKeeps ==
  ASSUME TypeOK, LocksInv, NEW t \in Threads, Role(t) = "gc", RotateYounger(t),
         UNCHANGED <<repoVars, cast>>
  PROVE  TypeOK' /\ LocksInv'
<1>1. LocksInv' /\ LockTypeOK'
  BY LocksSame DEF RotateYounger, lockVars
<1>2. DirTypeOK'
  BY GenBounds DEF TypeOK, DirTypeOK, GcTypeOK, dirVars, Fresh, Name, RotateYounger, gcState
<1>3. GcTypeOK'
  BY CollectionAssumption, GenBounds DEF TypeOK, GcTypeOK, RotateYounger, Forget, Trouble, gcVars, gcState, Options
<1>4. RepoTypeOK' /\ pc' \in [Threads -> Labels] /\ cast' \in DOMAIN Casts
  BY DEF TypeOK, RepoTypeOK, repoVars, Labels, GcLockLabels, RepoLockLabels, RotateYounger, Goto
<1> QED BY <1>1, <1>2, <1>3, <1>4 DEF TypeOK

(* Steps of a collector of the repositories: types and locks *)
LEMMA RepoEnterKeeps ==
  ASSUME TypeOK, LocksInv, NEW t \in Threads, Role(t) = "gc-repo", NEW l \in RepoLockLabels,
         RepoEnter(t, l), UNCHANGED cast
  PROVE  TypeOK' /\ LocksInv'
<1>1. LocksInv' /\ LockTypeOK'
  BY LocksEnter DEF RepoEnter
<1>2. DirTypeOK'
  BY DEF TypeOK, DirTypeOK, dirVars, RepoEnter, gcState
<1>3. GcTypeOK'
  BY DEF TypeOK, GcTypeOK, RepoEnter, Forget, Trouble, gcVars, gcState, Options
<1>4. RepoTypeOK' /\ pc' \in [Threads -> Labels] /\ cast' \in DOMAIN Casts
  BY DEF TypeOK, RepoTypeOK, repoVars, Labels, GcLockLabels, RepoLockLabels, RepoEnter, Goto
<1> QED BY <1>1, <1>2, <1>3, <1>4 DEF TypeOK

(* The lock cannot be had. *)
LEMMA RepoAcquireFailsKeeps ==
  ASSUME TypeOK, LocksInv, NEW t \in Threads, Role(t) = "gc-repo", NEW l \in RepoLockLabels,
         RepoAcquireFails(t, l), UNCHANGED cast
  PROVE  TypeOK' /\ LocksInv'
<1>1. LocksInv' /\ LockTypeOK'
  <2>1. GcMode(pc[t]) = "none" /\ RepoMode(Role(t), pc[t]) = "none"
    BY DEF RepoAcquireFails, GcMode, RepoMode, Allowed, GcLabels, RepoLabels, GcLockLabels, RepoLockLabels
  <2> QED BY <2>1, LocksFail DEF RepoAcquireFails
<1>2. DirTypeOK'
  BY DEF TypeOK, DirTypeOK, dirVars, RepoAcquireFails, gcState
<1>3. GcTypeOK'
  BY CollectionAssumption DEF TypeOK, GcTypeOK, RepoAcquireFails, Forget, Trouble, gcVars, gcState, Options
<1>4. RepoTypeOK' /\ pc' \in [Threads -> Labels] /\ cast' \in DOMAIN Casts
  BY DEF TypeOK, RepoTypeOK, repoVars, Labels, GcLockLabels, RepoLockLabels, RepoAcquireFails, Goto
<1> QED BY <1>1, <1>2, <1>3, <1>4 DEF TypeOK

(* The call *)
LEMMA RepoBeginKeeps ==
  ASSUME TypeOK, LocksInv, NEW t \in Threads, Role(t) = "gc-repo", RepoBegin(t), UNCHANGED cast
  PROVE  TypeOK' /\ LocksInv'
<1>1. LocksInv' /\ LockTypeOK'
  <2>1. Allowed(Role(t), "repo_clean_lock") /\ GcMode("repo_clean_lock") = GcMode(pc[t]) /\ RepoMode(Role(t), "repo_clean_lock") = RepoMode(Role(t), pc[t])
    BY DEF RepoBegin, Collectors, GcMode, RepoMode, Allowed, GcLabels, RepoLabels, GcLockLabels, RepoLockLabels
  <2> QED BY <2>1, LocksMove DEF RepoBegin, lockVars, Goto
<1>2. DirTypeOK'
  BY DEF TypeOK, DirTypeOK, dirVars, RepoBegin, gcState
<1>3. GcTypeOK'
  BY DEF TypeOK, GcTypeOK, RepoBegin, Forget, Trouble, gcVars, gcState, Options
<1>4. RepoTypeOK' /\ pc' \in [Threads -> Labels] /\ cast' \in DOMAIN Casts
  BY DEF TypeOK, RepoTypeOK, repoVars, Labels, GcLockLabels, RepoLockLabels, RepoBegin, Goto
<1> QED BY <1>1, <1>2, <1>3, <1>4 DEF TypeOK

(* The lock is got, shared. *)
LEMMA RepoCleanAcquiredKeeps ==
  ASSUME TypeOK, LocksInv, NEW t \in Threads, Role(t) = "gc-repo",
         RepoAcquired(t, "repo_clean_lock", "shared", "repo_clean"), UNCHANGED cast
  PROVE  TypeOK' /\ LocksInv'
<1>1. LocksInv' /\ LockTypeOK'
  <2>1. /\ Allowed(Role(t), "repo_clean")
        /\ GcMode("repo_clean") = (IF RepoLock = GcLock THEN "shared" ELSE GcMode(pc[t]))
        /\ RepoMode(Role(t), "repo_clean") = (IF RepoLock = RepoLock THEN "shared" ELSE RepoMode(Role(t), pc[t]))
    BY CastAssumption DEF RepoAcquired, GcMode, RepoMode, Allowed, GcLabels, RepoLabels, GcLockLabels, RepoLockLabels
  <2> QED BY <2>1, LocksAcquire DEF RepoAcquired
<1>2. DirTypeOK'
  BY DEF TypeOK, DirTypeOK, dirVars, RepoAcquired, gcState
<1>3. GcTypeOK'
  BY DEF TypeOK, GcTypeOK, RepoAcquired, Forget, Trouble, gcVars, gcState, Options
<1>4. RepoTypeOK' /\ pc' \in [Threads -> Labels] /\ cast' \in DOMAIN Casts
  BY DEF TypeOK, RepoTypeOK, repoVars, Labels, GcLockLabels, RepoLockLabels, RepoAcquired, Goto
<1> QED BY <1>1, <1>2, <1>3, <1>4 DEF TypeOK

(* The lock is got, exclusive. *)
LEMMA RepoRenameAcquiredKeeps ==
  ASSUME TypeOK, LocksInv, NEW t \in Threads, Role(t) = "gc-repo",
         RepoAcquired(t, "repo_rename_lock", "exclusive", "repo_rename"), UNCHANGED cast
  PROVE  TypeOK' /\ LocksInv'
<1>1. LocksInv' /\ LockTypeOK'
  <2>1. /\ Allowed(Role(t), "repo_rename")
        /\ GcMode("repo_rename") = (IF RepoLock = GcLock THEN "exclusive" ELSE GcMode(pc[t]))
        /\ RepoMode(Role(t), "repo_rename") = (IF RepoLock = RepoLock THEN "exclusive" ELSE RepoMode(Role(t), pc[t]))
    BY CastAssumption DEF RepoAcquired, GcMode, RepoMode, Allowed, GcLabels, RepoLabels, GcLockLabels, RepoLockLabels
  <2> QED BY <2>1, LocksAcquire DEF RepoAcquired
<1>2. DirTypeOK'
  BY DEF TypeOK, DirTypeOK, dirVars, RepoAcquired, gcState
<1>3. GcTypeOK'
  BY DEF TypeOK, GcTypeOK, RepoAcquired, Forget, Trouble, gcVars, gcState, Options
<1>4. RepoTypeOK' /\ pc' \in [Threads -> Labels] /\ cast' \in DOMAIN Casts
  BY DEF TypeOK, RepoTypeOK, repoVars, Labels, GcLockLabels, RepoLockLabels, RepoAcquired, Goto
<1> QED BY <1>1, <1>2, <1>3, <1>4 DEF TypeOK

(* The lock is got, shared. *)
LEMMA RepoRemoveAcquiredKeeps ==
  ASSUME TypeOK, LocksInv, NEW t \in Threads, Role(t) = "gc-repo",
         RepoAcquired(t, "repo_remove_lock", "shared", "repo_remove"), UNCHANGED cast
  PROVE  TypeOK' /\ LocksInv'
<1>1. LocksInv' /\ LockTypeOK'
  <2>1. /\ Allowed(Role(t), "repo_remove")
        /\ GcMode("repo_remove") = (IF RepoLock = GcLock THEN "shared" ELSE GcMode(pc[t]))
        /\ RepoMode(Role(t), "repo_remove") = (IF RepoLock = RepoLock THEN "shared" ELSE RepoMode(Role(t), pc[t]))
    BY CastAssumption DEF RepoAcquired, GcMode, RepoMode, Allowed, GcLabels, RepoLabels, GcLockLabels, RepoLockLabels
  <2> QED BY <2>1, LocksAcquire DEF RepoAcquired
<1>2. DirTypeOK'
  BY DEF TypeOK, DirTypeOK, dirVars, RepoAcquired, gcState
<1>3. GcTypeOK'
  BY DEF TypeOK, GcTypeOK, RepoAcquired, Forget, Trouble, gcVars, gcState, Options
<1>4. RepoTypeOK' /\ pc' \in [Threads -> Labels] /\ cast' \in DOMAIN Casts
  BY DEF TypeOK, RepoTypeOK, repoVars, Labels, GcLockLabels, RepoLockLabels, RepoAcquired, Goto
<1> QED BY <1>1, <1>2, <1>3, <1>4 DEF TypeOK

(* The own directory is removed. *)
LEMMA RepoCleanKeeps ==
  ASSUME TypeOK, LocksInv, NEW t \in Threads, Role(t) = "gc-repo",
         RepoRemove(t, "repo_clean", "repo_rename_lock"), UNCHANGED cast
  PROVE  TypeOK' /\ LocksInv'
<1>1. LocksInv' /\ LockTypeOK'
  <2>1. Allowed(Role(t), "repo_rename_lock") /\ GcMode("repo_rename_lock") = "none" /\ RepoMode(Role(t), "repo_rename_lock") = "none"
    BY DEF RepoRemove, GcMode, RepoMode, Allowed, GcLabels, RepoLabels, GcLockLabels, RepoLockLabels
  <2> QED BY <2>1, LocksRelease DEF RepoRemove, Release
<1>2. DirTypeOK'
  BY DEF TypeOK, DirTypeOK, dirVars, RepoRemove, gcState
<1>3. GcTypeOK'
  BY DEF TypeOK, GcTypeOK, RepoRemove, Forget, Trouble, gcVars, gcState, Options
<1>4. RepoTypeOK' /\ pc' \in [Threads -> Labels] /\ cast' \in DOMAIN Casts
  BY DEF TypeOK, RepoTypeOK, repoVars, Labels, GcLockLabels, RepoLockLabels, RepoRemove, Goto
<1> QED BY <1>1, <1>2, <1>3, <1>4 DEF TypeOK

(* The own directory is removed. *)
LEMMA RepoRemoveKeeps ==
  ASSUME TypeOK, LocksInv, NEW t \in Threads, Role(t) = "gc-repo",
         RepoRemove(t, "repo_remove", "idle"), UNCHANGED cast
  PROVE  TypeOK' /\ LocksInv'
<1>1. LocksInv' /\ LockTypeOK'
  <2>1. Allowed(Role(t), "idle") /\ GcMode("idle") = "none" /\ RepoMode(Role(t), "idle") = "none"
    BY DEF RepoRemove, GcMode, RepoMode, Allowed, GcLabels, RepoLabels, GcLockLabels, RepoLockLabels
  <2> QED BY <2>1, LocksRelease DEF RepoRemove, Release
<1>2. DirTypeOK'
  BY DEF TypeOK, DirTypeOK, dirVars, RepoRemove, gcState
<1>3. GcTypeOK'
  BY DEF TypeOK, GcTypeOK, RepoRemove, Forget, Trouble, gcVars, gcState, Options
<1>4. RepoTypeOK' /\ pc' \in [Threads -> Labels] /\ cast' \in DOMAIN Casts
  BY DEF TypeOK, RepoTypeOK, repoVars, Labels, GcLockLabels, RepoLockLabels, RepoRemove, Goto
<1> QED BY <1>1, <1>2, <1>3, <1>4 DEF TypeOK

(* A removal or rename fails. *)
LEMMA RepoFailsKeeps ==
  ASSUME TypeOK, LocksInv, NEW t \in Threads, Role(t) = "gc-repo", NEW l, RepoFails(t, l),
         UNCHANGED cast
  PROVE  TypeOK' /\ LocksInv'
<1>1. LocksInv' /\ LockTypeOK'
  <2>1. Allowed(Role(t), "idle") /\ GcMode("idle") = "none" /\ RepoMode(Role(t), "idle") = "none"
    BY DEF RepoFails, Return, Forget, GcMode, RepoMode, Allowed, GcLabels, RepoLabels, GcLockLabels, RepoLockLabels
  <2> QED BY <2>1, LocksRelease DEF RepoFails, Return, Forget, Release
<1>2. DirTypeOK'
  BY DEF TypeOK, DirTypeOK, dirVars, RepoFails, Return, Forget, gcState
<1>3. GcTypeOK'
  BY CollectionAssumption DEF TypeOK, GcTypeOK, RepoFails, Return, Forget, Forget, Trouble, gcVars, gcState, Options
<1>4. RepoTypeOK' /\ pc' \in [Threads -> Labels] /\ cast' \in DOMAIN Casts
  BY DEF TypeOK, RepoTypeOK, repoVars, Labels, GcLockLabels, RepoLockLabels, RepoFails, Return, Forget, Goto
<1> QED BY <1>1, <1>2, <1>3, <1>4 DEF TypeOK

(* Renaming begins. *)
LEMMA RepoRenameKeeps ==
  ASSUME TypeOK, LocksInv, NEW t \in Threads, Role(t) = "gc-repo", RepoRename(t), UNCHANGED cast
  PROVE  TypeOK' /\ LocksInv'
<1>1. LocksInv' /\ LockTypeOK'
  <2>1. Allowed(Role(t), "repo_generations") /\ GcMode("repo_generations") = GcMode(pc[t]) /\ RepoMode(Role(t), "repo_generations") = RepoMode(Role(t), pc[t])
    BY DEF RepoRename, Collectors, GcMode, RepoMode, Allowed, GcLabels, RepoLabels, GcLockLabels, RepoLockLabels
  <2> QED BY <2>1, LocksMove DEF RepoRename, lockVars, Goto
<1>2. DirTypeOK'
  BY DEF TypeOK, DirTypeOK, dirVars, RepoRename, gcState
<1>3. GcTypeOK'
  BY GenBounds DEF TypeOK, GcTypeOK, RepoRename, Forget, Trouble, gcVars, gcState, Options
<1>4. RepoTypeOK' /\ pc' \in [Threads -> Labels] /\ cast' \in DOMAIN Casts
  BY DEF TypeOK, RepoTypeOK, repoVars, Labels, GcLockLabels, RepoLockLabels, RepoRename, Goto
<1> QED BY <1>1, <1>2, <1>3, <1>4 DEF TypeOK

(* A generation is dropped. *)
LEMMA RepoDropKeeps ==
  ASSUME TypeOK, LocksInv, NEW t \in Threads, Role(t) = "gc-repo", RepoDrop(t), NoOlderRepo(t),
         UNCHANGED cast
  PROVE  TypeOK' /\ LocksInv'
<1>1. LocksInv' /\ LockTypeOK'
  BY LocksSame DEF RepoDrop, lockVars
<1>2. DirTypeOK'
  BY DEF TypeOK, DirTypeOK, dirVars, RepoDrop, gcState
<1>3. GcTypeOK'
  BY GenBounds DEF TypeOK, GcTypeOK, RepoDrop, Forget, Trouble, gcVars, gcState, Options
<1>4. RepoTypeOK' /\ pc' \in [Threads -> Labels] /\ cast' \in DOMAIN Casts
  <2>1. at[t] \in Gens
    BY GenBounds DEF RepoDrop, NoOlderRepo, TypeOK, GcTypeOK
  <2>2. repo[at[t]] \subseteq Ids /\ repo_junk[t] \subseteq Ids
    BY <2>1 DEF TypeOK, RepoTypeOK
  <2>3. repo' \in [Gens -> SUBSET Ids] /\ repo_junk' \in [Threads -> SUBSET Ids]
    BY <2>2 DEF RepoDrop, TypeOK, RepoTypeOK
  <2> QED BY <2>3 DEF RepoDrop, TypeOK, RepoTypeOK
<1> QED BY <1>1, <1>2, <1>3, <1>4 DEF TypeOK

(* A generation is dropped or gets older. *)
LEMMA RepoRotateKeeps ==
  ASSUME TypeOK, LocksInv, NEW t \in Threads, Role(t) = "gc-repo", RepoRotate(t), UNCHANGED cast
  PROVE  TypeOK' /\ LocksInv'
<1>1. LocksInv' /\ LockTypeOK'
  BY LocksSame DEF RepoRotate, lockVars
<1>2. DirTypeOK'
  BY DEF TypeOK, DirTypeOK, dirVars, RepoRotate, gcState
<1>3. GcTypeOK'
  BY GenBounds DEF TypeOK, GcTypeOK, RepoRotate, Forget, Trouble, gcVars, gcState, Options
<1>4. RepoTypeOK' /\ pc' \in [Threads -> Labels] /\ cast' \in DOMAIN Casts
  <2>1. at[t] \in 1 .. N /\ at[t] - 1 \in Gens
    BY GenBounds DEF RepoRotate, TypeOK, GcTypeOK
  <2>2. repo[at[t] - 1] \subseteq Ids /\ repo[N - 1] \subseteq Ids
    BY <2>1, GenBounds DEF TypeOK, RepoTypeOK
  <2>3. repo' \in [Gens -> SUBSET Ids]
    BY <2>1, <2>2 DEF RepoRotate, TypeOK, RepoTypeOK
  <2>4. repo_junk' \in [Threads -> SUBSET Ids]
    BY <2>2 DEF RepoRotate, TypeOK, RepoTypeOK
  <2> QED BY <2>3, <2>4 DEF RepoRotate, TypeOK, RepoTypeOK
<1> QED BY <1>1, <1>2, <1>3, <1>4 DEF TypeOK

(* The exclusive lock is given back. *)
LEMMA RepoRenamedKeeps ==
  ASSUME TypeOK, LocksInv, NEW t \in Threads, Role(t) = "gc-repo", RepoRenamed(t), UNCHANGED cast
  PROVE  TypeOK' /\ LocksInv'
<1>1. LocksInv' /\ LockTypeOK'
  <2>1. Allowed(Role(t), "repo_remove_lock") /\ GcMode("repo_remove_lock") = "none" /\ RepoMode(Role(t), "repo_remove_lock") = "none"
    BY DEF RepoRenamed, GcMode, RepoMode, Allowed, GcLabels, RepoLabels, GcLockLabels, RepoLockLabels
  <2> QED BY <2>1, LocksRelease DEF RepoRenamed, Release
<1>2. DirTypeOK'
  BY DEF TypeOK, DirTypeOK, dirVars, RepoRenamed, gcState
<1>3. GcTypeOK'
  BY DEF TypeOK, GcTypeOK, RepoRenamed, Forget, Trouble, gcVars, gcState, Options
<1>4. RepoTypeOK' /\ pc' \in [Threads -> Labels] /\ cast' \in DOMAIN Casts
  BY DEF TypeOK, RepoTypeOK, repoVars, Labels, GcLockLabels, RepoLockLabels, RepoRenamed, Goto
<1> QED BY <1>1, <1>2, <1>3, <1>4 DEF TypeOK

(* A rename fails. *)
LEMMA RepoRenameFailsKeeps ==
  ASSUME TypeOK, LocksInv, NEW t \in Threads, Role(t) = "gc-repo", RepoRenameFails(t),
         UNCHANGED cast
  PROVE  TypeOK' /\ LocksInv'
<1>1. LocksInv' /\ LockTypeOK'
  <2>1. Allowed(Role(t), "idle") /\ GcMode("idle") = "none" /\ RepoMode(Role(t), "idle") = "none"
    BY DEF RepoRenameFails, Return, Forget, GcMode, RepoMode, Allowed, GcLabels, RepoLabels, GcLockLabels, RepoLockLabels
  <2> QED BY <2>1, LocksRelease DEF RepoRenameFails, Return, Forget, Release
<1>2. DirTypeOK'
  BY DEF TypeOK, DirTypeOK, dirVars, RepoRenameFails, Return, Forget, gcState
<1>3. GcTypeOK'
  BY CollectionAssumption DEF TypeOK, GcTypeOK, RepoRenameFails, Return, Forget, Forget, Trouble, gcVars, gcState, Options
<1>4. RepoTypeOK' /\ pc' \in [Threads -> Labels] /\ cast' \in DOMAIN Casts
  BY DEF TypeOK, RepoTypeOK, repoVars, Labels, GcLockLabels, RepoLockLabels, RepoRenameFails, Return, Forget, Goto
<1> QED BY <1>1, <1>2, <1>3, <1>4 DEF TypeOK

(* Steps of a user: types and locks *)
LEMMA UseBeginKeeps ==
  ASSUME TypeOK, LocksInv, NEW t \in Threads, t \in Users, UseBegin(t)
  PROVE  TypeOK' /\ LocksInv'
<1>0. Role(t) \in {"build", "serve"}
  BY DEF Users, Played
<1>9. Allowed(Role(t), pc[t])
  BY DEF LocksInv, LocksHeld
<1>1. LocksInv' /\ LockTypeOK'
  <2>1. Allowed(Role(t), (IF Role(t) = "build" THEN "use_lock" ELSE "use_repo_lock")) /\ GcMode((IF Role(t) = "build" THEN "use_lock" ELSE "use_repo_lock")) = GcMode(pc[t]) /\ RepoMode(Role(t), (IF Role(t) = "build" THEN "use_lock" ELSE "use_repo_lock")) = RepoMode(Role(t), pc[t])
    BY <1>0, <1>9 DEF UseBegin, Collectors, GcMode, RepoMode, Allowed, GcLabels, RepoLabels, GcLockLabels, RepoLockLabels
  <2> QED BY <2>1, LocksMove DEF UseBegin, lockVars, Goto
<1>2. DirTypeOK'
  BY DEF TypeOK, DirTypeOK, dirVars, UseBegin, gcState
<1>3. GcTypeOK'
  BY DEF TypeOK, GcTypeOK, UseBegin, Forget, Trouble, gcVars, gcState, Options
<1>4. RepoTypeOK' /\ pc' \in [Threads -> Labels] /\ cast' \in DOMAIN Casts
  BY DEF TypeOK, RepoTypeOK, repoVars, Labels, GcLockLabels, RepoLockLabels, UseBegin, Goto
<1> QED BY <1>1, <1>2, <1>3, <1>4 DEF TypeOK

(* It queues up for a lock. *)
LEMMA UseEnterKeeps ==
  ASSUME TypeOK, LocksInv, NEW t \in Threads, t \in Users, UseEnter(t)
  PROVE  TypeOK' /\ LocksInv'
<1>0. Role(t) \in {"build", "serve"}
  BY DEF Users, Played
<1>9. Allowed(Role(t), pc[t])
  BY DEF LocksInv, LocksHeld
<1>1. LocksInv' /\ LockTypeOK'
  BY LocksEnter DEF UseEnter
<1>2. DirTypeOK'
  BY DEF TypeOK, DirTypeOK, dirVars, UseEnter, gcState
<1>3. GcTypeOK'
  BY DEF TypeOK, GcTypeOK, UseEnter, Forget, Trouble, gcVars, gcState, Options
<1>4. RepoTypeOK' /\ pc' \in [Threads -> Labels] /\ cast' \in DOMAIN Casts
  BY DEF TypeOK, RepoTypeOK, repoVars, Labels, GcLockLabels, RepoLockLabels, UseEnter, Goto
<1> QED BY <1>1, <1>2, <1>3, <1>4 DEF TypeOK

(* It has the lock of the repositories. *)
LEMMA UseAcquiredRepoKeeps ==
  ASSUME TypeOK, LocksInv, NEW t \in Threads, t \in Users, UseAcquiredRepo(t)
  PROVE  TypeOK' /\ LocksInv'
<1>0. Role(t) \in {"build", "serve"}
  BY DEF Users, Played
<1>9. Allowed(Role(t), pc[t])
  BY DEF LocksInv, LocksHeld
<1>1. LocksInv' /\ LockTypeOK'
  <2>1. /\ Allowed(Role(t), "use_lock")
        /\ GcMode("use_lock") = (IF RepoLock = GcLock THEN "shared" ELSE GcMode(pc[t]))
        /\ RepoMode(Role(t), "use_lock") = (IF RepoLock = RepoLock THEN "shared" ELSE RepoMode(Role(t), pc[t]))
    BY CastAssumption, <1>0, <1>9 DEF UseAcquiredRepo, GcMode, RepoMode, Allowed, GcLabels, RepoLabels, GcLockLabels, RepoLockLabels
  <2> QED BY <2>1, LocksAcquire DEF UseAcquiredRepo
<1>2. DirTypeOK'
  BY DEF TypeOK, DirTypeOK, dirVars, UseAcquiredRepo, gcState
<1>3. GcTypeOK'
  BY DEF TypeOK, GcTypeOK, UseAcquiredRepo, Forget, Trouble, gcVars, gcState, Options
<1>4. RepoTypeOK' /\ pc' \in [Threads -> Labels] /\ cast' \in DOMAIN Casts
  BY DEF TypeOK, RepoTypeOK, repoVars, Labels, GcLockLabels, RepoLockLabels, UseAcquiredRepo, Goto
<1> QED BY <1>1, <1>2, <1>3, <1>4 DEF TypeOK

(* It has that of the build root. *)
LEMMA UseAcquiredKeeps ==
  ASSUME TypeOK, LocksInv, NEW t \in Threads, t \in Users, UseAcquired(t)
  PROVE  TypeOK' /\ LocksInv'
<1>0. Role(t) \in {"build", "serve"}
  BY DEF Users, Played
<1>9. Allowed(Role(t), pc[t])
  BY DEF LocksInv, LocksHeld
<1>1. LocksInv' /\ LockTypeOK'
  <2>1. /\ Allowed(Role(t), "using")
        /\ GcMode("using") = (IF GcLock = GcLock THEN "shared" ELSE GcMode(pc[t]))
        /\ RepoMode(Role(t), "using") = (IF GcLock = RepoLock THEN "shared" ELSE RepoMode(Role(t), pc[t]))
    BY CastAssumption, <1>0, <1>9 DEF UseAcquired, GcMode, RepoMode, Allowed, GcLabels, RepoLabels, GcLockLabels, RepoLockLabels
  <2> QED BY <2>1, LocksAcquire DEF UseAcquired
<1>2. DirTypeOK'
  BY DEF TypeOK, DirTypeOK, dirVars, UseAcquired, gcState
<1>3. GcTypeOK'
  BY DEF TypeOK, GcTypeOK, UseAcquired, Forget, Trouble, gcVars, gcState, Options
<1>4. RepoTypeOK' /\ pc' \in [Threads -> Labels] /\ cast' \in DOMAIN Casts
  BY DEF TypeOK, RepoTypeOK, repoVars, Labels, GcLockLabels, RepoLockLabels, UseAcquired, Goto
<1> QED BY <1>1, <1>2, <1>3, <1>4 DEF TypeOK

(* It cannot get one. *)
LEMMA UseAcquireFailsKeeps ==
  ASSUME TypeOK, LocksInv, NEW t \in Threads, t \in Users, UseAcquireFails(t)
  PROVE  TypeOK' /\ LocksInv'
<1>0. Role(t) \in {"build", "serve"}
  BY DEF Users, Played
<1>9. Allowed(Role(t), pc[t])
  BY DEF LocksInv, LocksHeld
<1>1. LocksInv' /\ LockTypeOK'
  <2>1. Allowed(Role(t), "idle") /\ GcMode("idle") = "none" /\ RepoMode(Role(t), "idle") = "none"
    BY <1>0, <1>9 DEF UseAcquireFails, GcMode, RepoMode, Allowed, GcLabels, RepoLabels, GcLockLabels, RepoLockLabels
  <2> QED BY <2>1, LocksRelease DEF UseAcquireFails, Release
<1>2. DirTypeOK'
  BY DEF TypeOK, DirTypeOK, dirVars, UseAcquireFails, gcState
<1>3. GcTypeOK'
  BY CollectionAssumption DEF TypeOK, GcTypeOK, UseAcquireFails, Forget, Trouble, gcVars, gcState, Options
<1>4. RepoTypeOK' /\ pc' \in [Threads -> Labels] /\ cast' \in DOMAIN Casts
  BY DEF TypeOK, RepoTypeOK, repoVars, Labels, GcLockLabels, RepoLockLabels, UseAcquireFails, Goto
<1> QED BY <1>1, <1>2, <1>3, <1>4 DEF TypeOK

(* It adds to the youngest generations. *)
LEMMA UseKeeps ==
  ASSUME TypeOK, LocksInv, NEW t \in Threads, t \in Users, Use(t)
  PROVE  TypeOK' /\ LocksInv'
<1>0. Role(t) \in {"build", "serve"}
  BY DEF Users, Played
<1>9. Allowed(Role(t), pc[t])
  BY DEF LocksInv, LocksHeld
<1>1. LocksInv' /\ LockTypeOK'
  BY LocksSame DEF Use, lockVars
<1>2. DirTypeOK'
  <2>0. Casts[cast].generations \in 0 .. MaxGenerations /\ 0 \in Gens
    BY CastAssumption, GenBounds DEF TypeOK
  <2>1. CASE born < Casts[cast].generations /\ gen' = [gen EXCEPT ![0] = {born + 1}] /\ born' = born + 1
    <3>1. born + 1 \in Ids /\ born + 1 \in 0 .. MaxGenerations
      BY <2>0, <2>1, CollectionAssumption DEF TypeOK, DirTypeOK, Ids
    <3>2. gen' \in [Gens -> SUBSET Items]
      BY <2>1, <3>1 DEF TypeOK, DirTypeOK, Items
    <3> QED BY <2>1, <3>1, <3>2 DEF Use, TypeOK, DirTypeOK
  <2>2. CASE gen' = [gen EXCEPT ![0] = @ \cup {Ephemeral}] /\ born' = born
    <3>1. gen' \in [Gens -> SUBSET Items]
      BY <2>0, <2>2 DEF TypeOK, DirTypeOK, Items
    <3> QED BY <2>2, <3>1 DEF Use, TypeOK, DirTypeOK
  <2>3. CASE UNCHANGED <<gen, born>>
    BY <2>3 DEF Use, TypeOK, DirTypeOK
  <2> QED BY <2>1, <2>2, <2>3 DEF Use
<1>3. GcTypeOK'
  BY DEF TypeOK, GcTypeOK, Use, Forget, Trouble, gcVars, gcState, Options
<1>4. RepoTypeOK' /\ pc' \in [Threads -> Labels] /\ cast' \in DOMAIN Casts
  <2>0. Casts[cast].generations \in 0 .. MaxGenerations /\ 0 \in Gens
    BY CastAssumption, GenBounds DEF TypeOK
  <2>1. CASE repo_born < Casts[cast].generations /\ repo' = [repo EXCEPT ![0] = {repo_born + 1}] /\ repo_born' = repo_born + 1
    <3>1. repo_born + 1 \in Ids /\ repo_born + 1 \in 0 .. MaxGenerations
      BY <2>0, <2>1, CollectionAssumption DEF TypeOK, RepoTypeOK, Ids
    <3>2. repo' \in [Gens -> SUBSET Ids]
      BY <2>1, <3>1 DEF TypeOK, RepoTypeOK
    <3> QED BY <2>1, <3>1, <3>2 DEF Use, TypeOK, RepoTypeOK
  <2>2. CASE UNCHANGED <<repo, repo_born>>
    BY <2>2 DEF Use, TypeOK, RepoTypeOK
  <2> QED BY <2>1, <2>2 DEF Use
<1> QED BY <1>1, <1>2, <1>3, <1>4 DEF TypeOK

(* It is done. *)
LEMMA UseEndKeeps ==
  ASSUME TypeOK, LocksInv, NEW t \in Threads, t \in Users, UseEnd(t)
  PROVE  TypeOK' /\ LocksInv'
<1>0. Role(t) \in {"build", "serve"}
  BY DEF Users, Played
<1>9. Allowed(Role(t), pc[t])
  BY DEF LocksInv, LocksHeld
<1>1. LocksInv' /\ LockTypeOK'
  <2>1. Allowed(Role(t), "idle") /\ GcMode("idle") = "none" /\ RepoMode(Role(t), "idle") = "none"
    BY <1>0, <1>9 DEF UseEnd, GcMode, RepoMode, Allowed, GcLabels, RepoLabels, GcLockLabels, RepoLockLabels
  <2> QED BY <2>1, LocksRelease DEF UseEnd, Release
<1>2. DirTypeOK'
  BY DEF TypeOK, DirTypeOK, dirVars, UseEnd, gcState
<1>3. GcTypeOK'
  BY DEF TypeOK, GcTypeOK, UseEnd, Forget, Trouble, gcVars, gcState, Options
<1>4. RepoTypeOK' /\ pc' \in [Threads -> Labels] /\ cast' \in DOMAIN Casts
  BY DEF TypeOK, RepoTypeOK, repoVars, Labels, GcLockLabels, RepoLockLabels, UseEnd, Goto
<1> QED BY <1>1, <1>2, <1>3, <1>4 DEF TypeOK

-----------------------------------------------------------------------------
(* What a step of thread t does to one of the two sequences of             *)
(* generations, whose lock is f: it adds to them while it holds the lock,  *)
(* and takes away only while it holds it exclusively.                      *)
GensStep(t, f, g, h, b, c) ==
  /\ Ordered(h, c) /\ KeepsYounger(g, h)
  /\ h = g \/ (held[t][f] # "none" /\ \A i \in Gens : g[i] \subseteq h[i]) \/ held[t][f] = "exclusive"

DirStep(t) ==
  /\ GensStep(t, GcLock, gen, gen', born, born') /\ GensStep(t, RepoLock, repo, repo', repo_born, repo_born')
  /\ NoOlder(t)' /\ NoOlderRepo(t)'
  /\ \A u \in Threads \ {t} : /\ pc'[u] = pc[u] /\ opt'[u] = opt[u] /\ at'[u] = at[u]
                              /\ drop_only'[u] = drop_only[u]

LEMMA GensSame ==
  ASSUME NEW t, NEW f, NEW g, NEW b, Ordered(g, b)
  PROVE  GensStep(t, f, g, g, b, b)
BY DEF GensStep, KeepsYounger

LEMMA DirsSame ==
  ASSUME DirsInv, NEW t \in Threads, UNCHANGED <<gen, born, repo, repo_born>>,
         \A u \in Threads \ {t} : /\ pc'[u] = pc[u] /\ opt'[u] = opt[u] /\ at'[u] = at[u]
                                  /\ drop_only'[u] = drop_only[u],
         \/ pc'[t] \notin {"generations", "repo_generations"}
         \/ pc'[t] = "generations" /\ opt'[t] # "all"
         \/ pc'[t] = pc[t] /\ opt'[t] = opt[t] /\ at'[t] = at[t] /\ drop_only'[t] = drop_only[t]
  PROVE  DirStep(t)
<1>1. Ordered(gen, born) /\ Ordered(repo, repo_born) /\ NoOlder(t) /\ NoOlderRepo(t)
  BY DEF DirsInv
<1>2. GensStep(t, GcLock, gen, gen', born, born') /\ GensStep(t, RepoLock, repo, repo', repo_born, repo_born')
  BY <1>1, GensSame
<1>3. NoOlder(t)' /\ NoOlderRepo(t)'
  BY <1>1 DEF NoOlder, NoOlderRepo
<1> QED BY <1>2, <1>3 DEF DirStep

(* Dropping goes on undisturbed: nobody else holds the lock meanwhile. *)
LEMMA DirStepKeeps ==
  ASSUME TypeOK, LocksInv, DirsInv, NEW t \in Threads, DirStep(t)
  PROVE  DirsInv'
<1>1. Ordered(gen, born)' /\ Ordered(repo, repo_born)'
  BY DEF DirStep, GensStep
<1>2. ASSUME NEW u \in Threads PROVE NoOlder(u)' /\ NoOlderRepo(u)'
  <2>1. CASE u = t
    BY <2>1 DEF DirStep
  <2>2. CASE u # t
    <3>1. /\ pc'[u] = pc[u] /\ opt'[u] = opt[u] /\ at'[u] = at[u] /\ drop_only'[u] = drop_only[u]
          /\ NoOlder(u) /\ NoOlderRepo(u)
      BY <2>2 DEF DirStep, DirsInv
    <3>2. \A f \in Files : held[u][f] = "exclusive" => held[t][f] = "none"
      BY <2>2 DEF LocksInv, MutualExclusion
    <3>3. pc[u] = "generations" => gen' = gen
      <4>1. pc[u] = "generations" => held[u][GcLock] = "exclusive"
        BY DEF LocksInv, LocksHeld, GcMode
      <4> QED BY <4>1, <3>2, CollectionAssumption DEF DirStep, GensStep
    <3>4. pc[u] = "repo_generations" => repo' = repo
      <4>1. pc[u] = "repo_generations" => held[u][RepoLock] = "exclusive"
        BY DEF LocksInv, LocksHeld, RepoMode
      <4> QED BY <4>1, <3>2, RepoAssumption DEF DirStep, GensStep
    <3>5. NoOlder(u)'
      BY <3>1, <3>3 DEF NoOlder
    <3>6. NoOlderRepo(u)'
      BY <3>1, <3>4 DEF NoOlderRepo
    <3> QED BY <3>5, <3>6
  <2> QED BY <2>1, <2>2
<1> QED BY <1>1, <1>2 DEF DirsInv

(* What a step may do to the directories: see Collection. *)
StepDropsOldest == KeepsYounger(gen, gen') /\ KeepsYounger(repo, repo')
StepIsStable ==
  \A t \in Users :
    /\ held[t][GcLock] = "shared" => \A i \in Gens : gen[i] \subseteq gen'[i]
    /\ held[t][RepoLock] = "shared" => \A i \in Gens : repo[i] \subseteq repo'[i]

LEMMA DirStepIsGood ==
  ASSUME TypeOK, LocksInv, NEW t \in Threads, DirStep(t)
  PROVE  StepDropsOldest /\ StepIsStable
<1>1. StepDropsOldest
  BY DEF DirStep, GensStep, StepDropsOldest
<1>2. ASSUME NEW u \in Users, NEW f \in Files, NEW g, NEW h, NEW b, NEW c, held[u][f] = "shared",
             GensStep(t, f, g, h, b, c)
      PROVE  \A i \in Gens : g[i] \subseteq h[i]
  <2>1. held[t][f] # "exclusive"
    <3>1. CASE u = t
      BY <3>1, <1>2
    <3>2. CASE u # t
      BY <3>2, <1>2 DEF LocksInv, MutualExclusion, Users, Played
    <3> QED BY <3>1, <3>2
  <2> QED BY <2>1, <1>2 DEF GensStep
<1>3. GcLock \in Files /\ RepoLock \in Files
  BY CollectionAssumption, RepoAssumption
<1>4. StepIsStable
  BY <1>2, <1>3 DEF StepIsStable, DirStep
<1> QED BY <1>1, <1>4

-----------------------------------------------------------------------------
(* A collector that leaves all generations as they are *)
LEMMA GcOtherDirs ==
  ASSUME TypeOK, LocksInv, DirsInv, NEW t \in Threads, Role(t) = "gc", UNCHANGED repoVars,
         \/ \E l \in GcLockLabels : GcEnter(t, l) \/ GcAcquireFails(t, l)
         \/ \E l \in {"clean", "remove"} : RemoveOne(t, l) \/ RemoveFails(t, l)
         \/ Begin(t) \/ Cleaned(t) \/ TakeOver(t) \/ Compactified(t) \/ Renamed(t) \/ Removed(t)
         \/ GcAcquired(t) \/ CompactifyFails(t) \/ RenameFails(t)
  PROVE  DirStep(t)
<1> DEFINE Others == \A u \in Threads \ {t} : /\ pc'[u] = pc[u] /\ opt'[u] = opt[u] /\ at'[u] = at[u]
                                              /\ drop_only'[u] = drop_only[u]
           Dirs   == UNCHANGED <<gen, born, repo, repo_born>>
           Place  == \/ pc'[t] \notin {"generations", "repo_generations"}
                     \/ pc'[t] = "generations" /\ opt'[t] # "all"
                     \/ pc'[t] = pc[t] /\ opt'[t] = opt[t] /\ at'[t] = at[t] /\ drop_only'[t] = drop_only[t]
<1>0. /\ pc \in [Threads -> Labels] /\ opt \in [Threads -> Options] /\ at \in [Threads -> 0 .. N]
      /\ UNCHANGED <<repo, repo_born, drop_only>>
  BY DEF TypeOK, GcTypeOK, repoVars
<1> SUFFICES Others /\ Dirs /\ Place
  BY DirsSame
<1>1. ASSUME NEW l \in GcLockLabels, GcEnter(t, l) PROVE Others /\ Dirs /\ Place
  BY <1>0, <1>1 DEF GcEnter, dirVars, gcVars
<1>2. ASSUME NEW l \in GcLockLabels, GcAcquireFails(t, l) PROVE Others /\ Dirs /\ Place
  BY <1>0, <1>2 DEF GcAcquireFails, Goto, Forget, dirVars
<1>3. ASSUME NEW l, RemoveOne(t, l) PROVE Others /\ Dirs /\ Place
  BY <1>0, <1>3 DEF RemoveOne
<1>4. ASSUME NEW l, RemoveFails(t, l) PROVE Others /\ Dirs /\ Place
  BY <1>0, <1>4 DEF RemoveFails, dirVars
<1>5. CASE Begin(t)
  BY <1>0, <1>5 DEF Begin, Goto, dirVars
<1>6. CASE Cleaned(t)
  BY <1>0, <1>6 DEF Cleaned, Return, Forget, Goto, dirVars, gcVars
<1>7. CASE TakeOver(t)
  BY <1>0, <1>7 DEF TakeOver
<1>8. CASE Compactified(t)
  BY <1>0, <1>8 DEF Compactified, Goto, dirVars, gcVars
<1>9. CASE Renamed(t)
  BY <1>0, <1>9 DEF Renamed, Goto, dirVars, gcVars
<1>10. CASE Removed(t)
  BY <1>0, <1>10 DEF Removed, Return, Forget, Goto, dirVars
<1>11. CASE CleanAcquired(t)
  BY <1>0, <1>11 DEF CleanAcquired, Goto, dirVars
<1>12. CASE RenameAcquired(t)
  BY <1>0, <1>12 DEF RenameAcquired, Goto, dirVars
<1>13. CASE RemoveAcquired(t)
  BY <1>0, <1>13 DEF RemoveAcquired, Goto, dirVars
<1>14. CASE CompactifyFails(t)
  BY <1>0, <1>14 DEF CompactifyFails, Return, Forget, Goto, dirVars
<1>15. CASE RenameFails(t)
  BY <1>0, <1>15 DEF RenameFails, Return, Forget, Goto, dirVars
<1> HIDE DEF Others, Dirs, Place
<1> QED
  BY <1>1, <1>2, <1>3, <1>4, <1>5, <1>6, <1>7, <1>8, <1>9, <1>10, <1>11, <1>12, <1>13, <1>14, <1>15 DEF GcAcquired

(* A collector of the repositories that leaves all generations as they are *)
LEMMA RepoOtherDirs ==
  ASSUME TypeOK, LocksInv, DirsInv, NEW t \in Threads, Role(t) = "gc-repo",
         \/ \E l \in RepoLockLabels : RepoEnter(t, l) \/ RepoAcquireFails(t, l)
         \/ RepoBegin(t) \/ RepoAcquires(t) \/ RepoRenamed(t) \/ RepoRenameFails(t)
         \/ RepoRemove(t, "repo_clean", "repo_rename_lock") \/ RepoRemove(t, "repo_remove", "idle")
         \/ \E l \in {"repo_clean", "repo_rename", "repo_remove"} : RepoFails(t, l)
  PROVE  DirStep(t)
<1> DEFINE Others == \A u \in Threads \ {t} : /\ pc'[u] = pc[u] /\ opt'[u] = opt[u] /\ at'[u] = at[u]
                                              /\ drop_only'[u] = drop_only[u]
           Dirs   == UNCHANGED <<gen, born, repo, repo_born>>
           Place  == \/ pc'[t] \notin {"generations", "repo_generations"}
                     \/ pc'[t] = "generations" /\ opt'[t] # "all"
                     \/ pc'[t] = pc[t] /\ opt'[t] = opt[t] /\ at'[t] = at[t] /\ drop_only'[t] = drop_only[t]
<1>0. /\ pc \in [Threads -> Labels] /\ opt \in [Threads -> Options] /\ at \in [Threads -> 0 .. N]
      /\ drop_only \in [Threads -> BOOLEAN]
  BY DEF TypeOK, GcTypeOK, RepoTypeOK
<1> SUFFICES Others /\ Dirs /\ Place
  BY DirsSame
<1>1. ASSUME NEW l, RepoEnter(t, l) PROVE Others /\ Dirs /\ Place
  BY <1>0, <1>1 DEF RepoEnter, gcState, dirVars, gcVars, repoVars
<1>2. ASSUME NEW l, RepoAcquireFails(t, l) PROVE Others /\ Dirs /\ Place
  BY <1>0, <1>2 DEF RepoAcquireFails, Goto, gcState, dirVars, gcVars, repoVars
<1>3. CASE RepoBegin(t)
  BY <1>0, <1>3 DEF RepoBegin, Goto, gcState, dirVars, gcVars
<1>4. ASSUME NEW l, NEW mode, NEW m \in {"repo_clean", "repo_rename", "repo_remove"}, RepoAcquired(t, l, mode, m)
      PROVE  Others /\ Dirs /\ Place
  BY <1>0, <1>4 DEF RepoAcquired, Goto, gcState, dirVars, gcVars, repoVars
<1>5. CASE RepoRenamed(t)
  BY <1>0, <1>5 DEF RepoRenamed, Goto, gcState, dirVars, gcVars, repoVars
<1>6. CASE RepoRenameFails(t)
  BY <1>0, <1>6 DEF RepoRenameFails, Return, Goto, Forget, dirVars, repoVars
<1>7. ASSUME NEW l, NEW m \in {"repo_rename_lock", "idle"}, RepoRemove(t, l, m) PROVE Others /\ Dirs /\ Place
  BY <1>0, <1>7 DEF RepoRemove, Goto, gcState, dirVars, gcVars
<1>8. ASSUME NEW l, RepoFails(t, l) PROVE Others /\ Dirs /\ Place
  BY <1>0, <1>8 DEF RepoFails, Return, Goto, Forget, dirVars, repoVars
<1> HIDE DEF Others, Dirs, Place
<1> QED
  BY <1>1, <1>2, <1>3, <1>4, <1>5, <1>6, <1>7, <1>8 DEF RepoAcquires

(* A user that leaves all generations as they are *)
LEMMA UseOtherDirs ==
  ASSUME TypeOK, LocksInv, DirsInv, NEW t \in Threads,
         UseBegin(t) \/ UseEnter(t) \/ UseAcquiredRepo(t) \/ UseAcquired(t) \/ UseAcquireFails(t) \/ UseEnd(t)
  PROVE  DirStep(t)
<1> DEFINE Others == \A u \in Threads \ {t} : /\ pc'[u] = pc[u] /\ opt'[u] = opt[u] /\ at'[u] = at[u]
                                              /\ drop_only'[u] = drop_only[u]
           Dirs   == UNCHANGED <<gen, born, repo, repo_born>>
           Place  == \/ pc'[t] \notin {"generations", "repo_generations"}
                     \/ pc'[t] = "generations" /\ opt'[t] # "all"
                     \/ pc'[t] = pc[t] /\ opt'[t] = opt[t] /\ at'[t] = at[t] /\ drop_only'[t] = drop_only[t]
<1>0. pc \in [Threads -> Labels]
  BY DEF TypeOK
<1> SUFFICES Others /\ Dirs /\ Place
  BY DirsSame
<1>1. CASE UseBegin(t)
  BY <1>0, <1>1 DEF UseBegin, Goto, gcState, dirVars, gcVars, repoVars
<1>2. CASE UseEnter(t)
  BY <1>0, <1>2 DEF UseEnter, gcState, dirVars, gcVars, repoVars
<1>3. CASE UseAcquiredRepo(t)
  BY <1>0, <1>3 DEF UseAcquiredRepo, Goto, gcState, dirVars, gcVars, repoVars
<1>4. CASE UseAcquired(t)
  BY <1>0, <1>4 DEF UseAcquired, Goto, gcState, dirVars, gcVars, repoVars
<1>5. CASE UseAcquireFails(t)
  BY <1>0, <1>5 DEF UseAcquireFails, Goto, gcState, dirVars, gcVars, repoVars
<1>6. CASE UseEnd(t)
  BY <1>0, <1>6 DEF UseEnd, Goto, gcState, dirVars, gcVars, repoVars
<1> QED BY <1>1, <1>2, <1>3, <1>4, <1>5, <1>6

-----------------------------------------------------------------------------
(* Ephemeral data is moved out; the generations stay. *)
LEMMA MoveEphemeralDirs ==
  ASSUME TypeOK, LocksInv, DirsInv, NEW t \in Threads, MoveEphemeral(t), UNCHANGED repoVars
  PROVE  DirStep(t)
<1>0. /\ gen \in [Gens -> SUBSET Items] /\ pc \in [Threads -> Labels]
      /\ opt \in [Threads -> Options]
      /\ at \in [Threads -> 0 .. N] /\ Ordered(gen, born) /\ Ordered(repo, repo_born)
  BY DEF TypeOK, DirTypeOK, GcTypeOK, DirsInv
<1>1. \A i \in Gens : gen'[i] \subseteq gen[i]
  BY <1>0 DEF MoveEphemeral
<1>2. \A i \in Gens : \A x \in gen[i] \cap Ids : x \in gen'[i]
  <2>1. Ephemeral \notin Ids
    BY CollectionAssumption DEF Ids
  <2> QED BY <2>1, <1>0 DEF MoveEphemeral
<1>3. held[t][GcLock] = "exclusive"
  BY DEF MoveEphemeral, LocksInv, LocksHeld, GcMode
<1>4. GensStep(t, GcLock, gen, gen', born, born')
  <2>1. born' = born
    BY DEF MoveEphemeral
  <2>2. Ordered(gen', born)
    BY <1>0, <1>1, OrderedBelow
  <2>3. KeepsYounger(gen, gen')
    BY <1>2, NothingDropped
  <2> QED BY <1>3, <2>1, <2>2, <2>3 DEF GensStep
<1>5. GensStep(t, RepoLock, repo, repo', repo_born, repo_born')
  BY <1>0, GensSame DEF repoVars
<1>6. NoOlder(t)' /\ NoOlderRepo(t)'
  <2>1. at'[t] = N /\ pc'[t] # "repo_generations"
    BY <1>0 DEF MoveEphemeral, LoopStart, Goto
  <2> QED BY <2>1, GenBounds DEF NoOlder, NoOlderRepo
<1>7. \A u \in Threads \ {t} : /\ pc'[u] = pc[u] /\ opt'[u] = opt[u] /\ at'[u] = at[u]
                               /\ drop_only'[u] = drop_only[u]
  BY <1>0 DEF MoveEphemeral, Goto, repoVars
<1> QED BY <1>4, <1>5, <1>6, <1>7 DEF DirStep

(* All generations go, the oldest first. *)
LEMMA DropGenerationDirs ==
  ASSUME TypeOK, LocksInv, DirsInv, NEW t \in Threads, DropGeneration(t), UNCHANGED repoVars
  PROVE  DirStep(t)
<1> DEFINE m == at[t] - 1
<1>0. /\ gen \in [Gens -> SUBSET Items] /\ at \in [Threads -> 0 .. N]
      /\ Ordered(gen, born) /\ Ordered(repo, repo_born) /\ NoOlder(t)
  BY DEF TypeOK, DirTypeOK, GcTypeOK, DirsInv
<1>1. /\ m \in Gens /\ at[t] \in Int /\ pc[t] = "generations" /\ opt[t] = "all"
      /\ gen' = [gen EXCEPT ![m] = {}] /\ at' = [at EXCEPT ![t] = m]
  BY <1>0, GenBounds DEF DropGeneration
<1> HIDE DEF m
<1>2. /\ \A k \in Gens \ {m} : gen'[k] = gen[k]
      /\ gen'[m] = {} /\ at'[t] = m
  BY <1>0, <1>1
<1>3. \A j \in Gens : j > m => gen[j] = {}
  <2>1. \A j \in Gens : j > m => j >= at[t]
    BY <1>1, GenBounds DEF m
  <2> QED BY <2>1, <1>0, <1>1 DEF NoOlder
<1>4. held[t][GcLock] = "exclusive"
  BY <1>1 DEF LocksInv, LocksHeld, GcMode
<1>5. GensStep(t, GcLock, gen, gen', born, born')
  <2>1. \A i \in Gens : gen'[i] \subseteq gen[i]
    BY <1>2
  <2>2. Ordered(gen', born) /\ born' = born
    BY <2>1, <1>0, OrderedBelow DEF DropGeneration
  <2>3. m \in Gens /\ Ordered(gen, born) /\ (\A k \in Gens \ {m} : gen'[k] = gen[k]) /\ gen'[m] = {}
    BY <1>0, <1>1, <1>2
  <2>4. KeepsYounger(gen, gen')
    BY <1>3, <2>3, OldestDropped
  <2> QED BY <1>4, <2>2, <2>4 DEF GensStep
<1>6. GensStep(t, RepoLock, repo, repo', repo_born, repo_born')
  BY <1>0, GensSame DEF repoVars
<1>7. NoOlder(t)'
  <2>1. \A j \in Gens : j >= m => j = m \/ j > m
    BY <1>1, GenBounds
  <2>2. \A j \in Gens : j >= m => gen'[j] = {}
    BY <2>1, <1>1, <1>2, <1>3
  <2> QED BY <2>2, <1>2 DEF NoOlder
<1>8. /\ NoOlderRepo(t)'
      /\ \A u \in Threads \ {t} : /\ pc'[u] = pc[u] /\ opt'[u] = opt[u] /\ at'[u] = at[u]
                                  /\ drop_only'[u] = drop_only[u]
  BY <1>0, <1>1 DEF DropGeneration, repoVars, NoOlderRepo
<1> QED BY <1>5, <1>6, <1>7, <1>8 DEF DirStep

(* Rotation begins with the oldest generation. *)
LEMMA RotateOldestDirs ==
  ASSUME TypeOK, LocksInv, DirsInv, NEW t \in Threads, RotateOldest(t), UNCHANGED repoVars
  PROVE  DirStep(t)
<1> DEFINE m == N - 1
<1>0. /\ gen \in [Gens -> SUBSET Items] /\ at \in [Threads -> 0 .. N]
      /\ Ordered(gen, born) /\ Ordered(repo, repo_born)
  BY DEF TypeOK, DirTypeOK, GcTypeOK, DirsInv
<1>1. m \in Gens /\ gen' = [gen EXCEPT ![m] = {}] /\ \A j \in Gens : ~(j > m)
  BY <1>0, GenBounds DEF RotateOldest
<1> HIDE DEF m
<1>2. (\A k \in Gens \ {m} : gen'[k] = gen[k]) /\ gen'[m] = {}
  BY <1>0, <1>1
<1>3. held[t][GcLock] = "exclusive"
  BY DEF RotateOldest, LocksInv, LocksHeld, GcMode
<1>4. GensStep(t, GcLock, gen, gen', born, born')
  <2>1. \A i \in Gens : gen'[i] \subseteq gen[i]
    BY <1>2
  <2>2. Ordered(gen', born) /\ born' = born
    BY <2>1, <1>0, OrderedBelow DEF RotateOldest
  <2>3. KeepsYounger(gen, gen')
    BY <1>0, <1>1, <1>2, OldestDropped
  <2> QED BY <1>3, <2>2, <2>3 DEF GensStep
<1>5. GensStep(t, RepoLock, repo, repo', repo_born, repo_born')
  BY <1>0, GensSame DEF repoVars
<1>6. /\ NoOlder(t)' /\ NoOlderRepo(t)'
      /\ \A u \in Threads \ {t} : /\ pc'[u] = pc[u] /\ opt'[u] = opt[u] /\ at'[u] = at[u]
                                  /\ drop_only'[u] = drop_only[u]
  BY <1>0 DEF RotateOldest, repoVars, NoOlder, NoOlderRepo
<1> QED BY <1>4, <1>5, <1>6 DEF DirStep

(* Then every other one gets older by one. *)
LEMMA RotateYoungerDirs ==
  ASSUME TypeOK, LocksInv, DirsInv, NEW t \in Threads, RotateYounger(t), UNCHANGED repoVars
  PROVE  DirStep(t)
<1> DEFINE i == at[t]
<1>0. /\ gen \in [Gens -> SUBSET Items] /\ at \in [Threads -> 0 .. N]
      /\ Ordered(gen, born) /\ Ordered(repo, repo_born)
  BY DEF TypeOK, DirTypeOK, GcTypeOK, DirsInv
<1>1. i \in Int /\ 0 < i /\ i < N /\ i \in Gens /\ i - 1 \in Gens
  BY <1>0, GenBounds DEF RotateYounger
<1>2. Shifted(gen, gen', i)
  BY <1>0, <1>1 DEF RotateYounger, Shifted
<1>3. held[t][GcLock] = "exclusive"
  BY DEF RotateYounger, LocksInv, LocksHeld, GcMode
<1>4. GensStep(t, GcLock, gen, gen', born, born')
  <2>1. born' = born
    BY DEF RotateYounger
  <2> HIDE DEF i
  <2>2. Ordered(gen', born)
    BY <1>0, <1>1, <1>2, OrderedShifted
  <2>3. KeepsYounger(gen, gen')
    BY <1>1, <1>2, ShiftDropsNothing
  <2> QED BY <1>3, <2>1, <2>2, <2>3 DEF GensStep
<1>5. GensStep(t, RepoLock, repo, repo', repo_born, repo_born')
  BY <1>0, GensSame DEF repoVars
<1>6. /\ NoOlder(t)' /\ NoOlderRepo(t)'
      /\ \A u \in Threads \ {t} : /\ pc'[u] = pc[u] /\ opt'[u] = opt[u] /\ at'[u] = at[u]
                                  /\ drop_only'[u] = drop_only[u]
  BY <1>0 DEF RotateYounger, repoVars, NoOlder, NoOlderRepo
<1> QED BY <1>4, <1>5, <1>6 DEF DirStep

(* The collector of the repositories begins. *)
LEMMA RepoRenameDirs ==
  ASSUME TypeOK, LocksInv, DirsInv, NEW t \in Threads, RepoRename(t)
  PROVE  DirStep(t)
<1>0. /\ pc \in [Threads -> Labels] /\ at \in [Threads -> 0 .. N]
      /\ Ordered(gen, born) /\ Ordered(repo, repo_born)
  BY DEF TypeOK, GcTypeOK, DirsInv
<1>1. UNCHANGED <<gen, born, repo, repo_born, drop_only, opt>>
  BY DEF RepoRename, dirVars, repoVars
<1>2. GensStep(t, GcLock, gen, gen', born, born') /\ GensStep(t, RepoLock, repo, repo', repo_born, repo_born')
  BY <1>0, <1>1, GensSame
<1>3. pc'[t] = "repo_generations" /\ (drop_only[t] => at'[t] = N - 1)
  BY <1>0 DEF RepoRename, Goto
<1>4. NoOlder(t)' /\ NoOlderRepo(t)'
  BY <1>1, <1>3, GenBounds DEF NoOlder, NoOlderRepo
<1>5. \A u \in Threads \ {t} : /\ pc'[u] = pc[u] /\ opt'[u] = opt[u] /\ at'[u] = at[u]
                               /\ drop_only'[u] = drop_only[u]
  BY <1>0, <1>1 DEF RepoRename, Goto
<1> QED BY <1>2, <1>4, <1>5 DEF DirStep

(* All but the youngest go, the oldest first. *)
LEMMA RepoDropDirs ==
  ASSUME TypeOK, LocksInv, DirsInv, NEW t \in Threads, RepoDrop(t)
  PROVE  DirStep(t)
<1> DEFINE m == at[t]
<1>0. /\ repo \in [Gens -> SUBSET Ids] /\ at \in [Threads -> 0 .. N]
      /\ Ordered(gen, born) /\ Ordered(repo, repo_born) /\ NoOlderRepo(t)
  BY DEF TypeOK, RepoTypeOK, GcTypeOK, DirsInv
<1>1. /\ m \in Gens /\ m - 1 \in Gens /\ pc[t] = "repo_generations" /\ drop_only[t]
      /\ repo' = [repo EXCEPT ![m] = {}] /\ at' = [at EXCEPT ![t] = m - 1]
  BY <1>0, GenBounds DEF RepoDrop, NoOlderRepo
<1>2. \A j \in Gens : j > m => repo[j] = {}
  BY <1>0, <1>1 DEF NoOlderRepo
<1>3. held[t][RepoLock] = "exclusive"
  BY <1>1 DEF LocksInv, LocksHeld, RepoMode
<1>4. at'[t] = m - 1
  BY <1>0, <1>1
<1> HIDE DEF m
<1>5. (\A k \in Gens \ {m} : repo'[k] = repo[k]) /\ repo'[m] = {}
  BY <1>0, <1>1
<1>6. GensStep(t, RepoLock, repo, repo', repo_born, repo_born')
  <2>1. \A i \in Gens : repo'[i] \subseteq repo[i]
    BY <1>5
  <2>2. Ordered(repo', repo_born) /\ repo_born' = repo_born
    BY <2>1, <1>0, OrderedBelow DEF RepoDrop
  <2>3. m \in Gens /\ Ordered(repo, repo_born)
    BY <1>0, <1>1
  <2>4. KeepsYounger(repo, repo')
    BY <1>2, <1>5, <2>3, OldestDropped
  <2> QED BY <1>3, <2>2, <2>4 DEF GensStep
<1>7. GensStep(t, GcLock, gen, gen', born, born')
  BY <1>0, GensSame DEF RepoDrop, dirVars
<1>8. NoOlderRepo(t)'
  <2>1. m - 1 < N /\ \A j \in Gens : j > m - 1 => j = m \/ j > m
    BY <1>1, GenBounds
  <2>2. \A j \in Gens : j > m - 1 => repo'[j] = {}
    BY <2>1, <1>1, <1>2, <1>5
  <2> QED BY <2>1, <2>2, <1>4 DEF NoOlderRepo
<1>9. /\ NoOlder(t)'
      /\ \A u \in Threads \ {t} : /\ pc'[u] = pc[u] /\ opt'[u] = opt[u] /\ at'[u] = at[u]
                                  /\ drop_only'[u] = drop_only[u]
  BY <1>0, <1>1 DEF RepoDrop, NoOlder
<1> QED BY <1>6, <1>7, <1>8, <1>9 DEF DirStep

(* The oldest goes, then every other one gets older by one. *)
LEMMA RepoRotateDirs ==
  ASSUME TypeOK, LocksInv, DirsInv, NEW t \in Threads, RepoRotate(t)
  PROVE  DirStep(t)
<1> DEFINE i == at[t]
<1>0. /\ repo \in [Gens -> SUBSET Ids] /\ at \in [Threads -> 0 .. N]
      /\ Ordered(gen, born) /\ Ordered(repo, repo_born)
  BY DEF TypeOK, RepoTypeOK, GcTypeOK, DirsInv
<1>1. i \in Int /\ 0 < i /\ i <= N /\ i - 1 \in Gens
  BY <1>0, GenBounds DEF RepoRotate
<1>2. held[t][RepoLock] = "exclusive"
  BY DEF RepoRotate, LocksInv, LocksHeld, RepoMode
<1>3. repo_born' = repo_born
  BY DEF RepoRotate
<1>4. Ordered(repo', repo_born) /\ KeepsYounger(repo, repo')
  <2>1. CASE i = N
    <3> DEFINE m == N - 1
    <3>1. m \in Gens /\ repo' = [repo EXCEPT ![m] = {}] /\ \A j \in Gens : ~(j > m)
      BY <2>1, <1>0, GenBounds DEF RepoRotate
    <3> HIDE DEF m
    <3>2. (\A k \in Gens \ {m} : repo'[k] = repo[k]) /\ repo'[m] = {}
      BY <1>0, <3>1
    <3>3. \A k \in Gens : repo'[k] \subseteq repo[k]
      BY <3>2
    <3>4. Ordered(repo', repo_born)
      BY <3>3, <1>0, OrderedBelow
    <3>5. KeepsYounger(repo, repo')
      BY <1>0, <3>1, <3>2, OldestDropped
    <3> QED BY <3>4, <3>5
  <2>2. CASE i < N
    <3>1. i \in Gens
      BY <2>2, <1>1, GenBounds
    <3>2. Shifted(repo, repo', i)
      BY <2>2, <3>1, <1>0, <1>1 DEF RepoRotate, Shifted
    <3> HIDE DEF i
    <3>3. Ordered(repo', repo_born)
      BY <2>2, <3>2, <1>0, <1>1, OrderedShifted
    <3>4. KeepsYounger(repo, repo')
      BY <2>2, <3>2, <1>1, ShiftDropsNothing
    <3> QED BY <3>3, <3>4
  <2> QED BY <2>1, <2>2, <1>1, GenBounds
<1>5. GensStep(t, RepoLock, repo, repo', repo_born, repo_born')
  BY <1>2, <1>3, <1>4 DEF GensStep
<1>6. GensStep(t, GcLock, gen, gen', born, born')
  BY <1>0, GensSame DEF RepoRotate, dirVars
<1>7. /\ NoOlder(t)' /\ NoOlderRepo(t)'
      /\ \A u \in Threads \ {t} : /\ pc'[u] = pc[u] /\ opt'[u] = opt[u] /\ at'[u] = at[u]
                                  /\ drop_only'[u] = drop_only[u]
  BY <1>0 DEF RepoRotate, NoOlder, NoOlderRepo
<1> QED BY <1>5, <1>6, <1>7 DEF DirStep

(* A user adds something while it holds the locks. *)
LEMMA GensAdded ==
  ASSUME NEW t, NEW f, NEW g, NEW h, NEW b, NEW c, Ordered(h, c), held[t][f] # "none",
         \A i \in Gens : g[i] \subseteq h[i]
  PROVE  GensStep(t, f, g, h, b, c)
<1>1. KeepsYounger(g, h)
  BY NothingDropped
<1> QED BY <1>1 DEF GensStep

LEMMA UseDirs ==
  ASSUME TypeOK, LocksInv, DirsInv, NEW t \in Users, Use(t)
  PROVE  DirStep(t)
<1>0. /\ gen \in [Gens -> SUBSET Items] /\ repo \in [Gens -> SUBSET Ids] /\ 0 \in Gens
      /\ born \in Int /\ repo_born \in Int /\ t \in Threads /\ pc[t] = "using"
      /\ Ordered(gen, born) /\ Ordered(repo, repo_born) /\ Role(t) \in {"build", "serve"}
  BY GenBounds DEF TypeOK, DirTypeOK, RepoTypeOK, DirsInv, Use, Users, Played
<1>1. held[t][GcLock] # "none" /\ (Role(t) = "serve" => held[t][RepoLock] # "none")
  BY <1>0 DEF LocksInv, LocksHeld, GcMode, RepoMode
<1>2. GensStep(t, GcLock, gen, gen', born, born')
  <2>1. CASE gen[0] = {} /\ gen' = [gen EXCEPT ![0] = {born + 1}] /\ born' = born + 1
    <3>1. gen'[0] = {born + 1} /\ \A k \in Gens \ {0} : gen'[k] = gen[k]
      BY <2>1, <1>0
    <3>2. Ordered(gen', born + 1)
      BY <2>1, <3>1, <1>0, OrderedBegun
    <3>3. \A i \in Gens : gen[i] \subseteq gen'[i]
      BY <2>1, <3>1
    <3> QED BY <2>1, <3>2, <3>3, <1>1, GensAdded
  <2>2. CASE gen' = [gen EXCEPT ![0] = @ \cup {Ephemeral}] /\ born' = born
    <3>1. (\A i \in Gens : gen[i] \subseteq gen'[i]) /\ \A i \in Gens : gen'[i] \cap Ids = gen[i] \cap Ids
      <4>1. Ephemeral \notin Ids
        BY CollectionAssumption DEF Ids
      <4> QED BY <4>1, <2>2, <1>0
    <3>2. Ordered(gen', born)
      BY <3>1, <1>0 DEF Ordered
    <3> QED BY <2>2, <3>1, <3>2, <1>1, GensAdded
  <2>3. CASE UNCHANGED <<gen, born>>
    BY <2>3, <1>0, GensSame
  <2> QED BY <2>1, <2>2, <2>3 DEF Use
<1>3. GensStep(t, RepoLock, repo, repo', repo_born, repo_born')
  <2>1. CASE /\ Role(t) = "serve" /\ repo[0] = {}
             /\ repo' = [repo EXCEPT ![0] = {repo_born + 1}] /\ repo_born' = repo_born + 1
    <3>1. repo'[0] = {repo_born + 1} /\ \A k \in Gens \ {0} : repo'[k] = repo[k]
      BY <2>1, <1>0
    <3>2. Ordered(repo', repo_born + 1)
      BY <2>1, <3>1, <1>0, OrderedBegun
    <3>3. \A i \in Gens : repo[i] \subseteq repo'[i]
      BY <2>1, <3>1
    <3> QED BY <2>1, <3>2, <3>3, <1>1, GensAdded
  <2>2. CASE UNCHANGED <<repo, repo_born>>
    BY <2>2, <1>0, GensSame
  <2> QED BY <2>1, <2>2 DEF Use
<1>4. /\ NoOlder(t)' /\ NoOlderRepo(t)'
      /\ \A u \in Threads \ {t} : /\ pc'[u] = pc[u] /\ opt'[u] = opt[u] /\ at'[u] = at[u]
                                  /\ drop_only'[u] = drop_only[u]
  BY <1>0 DEF Use, gcVars, NoOlder, NoOlderRepo
<1> QED BY <1>0, <1>2, <1>3, <1>4 DEF DirStep

-----------------------------------------------------------------------------
(* A process is killed: its threads hold nothing any more. *)
LEMMA KillKeeps ==
  ASSUME Inv, NEW p \in Processes, Kill(p)
  PROVE  Inv' /\ StepDropsOldest /\ StepIsStable
<1> DEFINE Gone(t) == Process[t] = p
<1>0. TypeOK /\ LocksInv /\ DirsInv
  BY DEF Inv
<1>1. \A t \in Threads :
        IF Gone(t)
          THEN pc'[t] = "idle" /\ \A f \in Files : held'[t][f] = "none"
          ELSE /\ pc'[t] = pc[t] /\ opt'[t] = opt[t] /\ at'[t] = at[t] /\ held'[t] = held[t]
  BY DEF Kill, ReleaseProcess
<1>2. UNCHANGED <<gen, born, repo, repo_born, drop_only, cast>>
  BY DEF Kill, dirVars, repoVars
<1>3. TypeOK'
  <2>1. LockTypeOK'
    BY <1>0 DEF TypeOK, LockTypeOK, Kill, ReleaseProcess, Modes
  <2>2. DirTypeOK' /\ RepoTypeOK'
    BY <1>0 DEF TypeOK, DirTypeOK, RepoTypeOK, Kill, dirVars, repoVars
  <2>3. GcTypeOK'
    <3>1. opt' \in [Threads -> Options] /\ todo' \in [Threads -> SUBSET Junk] /\ mine' \in [Threads -> SUBSET Junk]
      BY <1>0 DEF TypeOK, GcTypeOK, Kill, Options
    <3>2. count' \in [Threads -> Nat] /\ ok' \in [Threads -> BOOLEAN]
      BY <1>0 DEF TypeOK, GcTypeOK, Kill
    <3>3. at' \in [Threads -> 0 .. N]
      BY <1>0, GenBounds DEF TypeOK, GcTypeOK, Kill
    <3>4. trouble' \in 0 .. MaxTrouble
      BY <1>0, CollectionAssumption DEF TypeOK, GcTypeOK, Kill, Trouble
    <3> QED BY <3>1, <3>2, <3>3, <3>4 DEF GcTypeOK
  <2>4. pc' \in [Threads -> Labels] /\ cast' \in DOMAIN Casts
    BY <1>0, <1>2 DEF TypeOK, Kill, Labels
  <2> QED BY <2>1, <2>2, <2>3, <2>4 DEF TypeOK
<1> HIDE DEF Gone
<1>4. LocksInv'
  <2>1. LocksHeld'
    <3> SUFFICES ASSUME NEW t \in Threads
                 PROVE  (/\ Allowed(Role(t), pc[t]) /\ held[t][GcLock] = GcMode(pc[t])
                         /\ held[t][RepoLock] = RepoMode(Role(t), pc[t]))'
      BY DEF LocksHeld
    <3>1. Role(t)' = Role(t)
      BY <1>2 DEF Role
    <3>2. CASE Gone(t)
      BY <3>1, <3>2, <1>1, CollectionAssumption, RepoAssumption DEF Allowed, GcMode, RepoMode
    <3>3. CASE ~Gone(t)
      BY <3>1, <3>3, <1>0, <1>1 DEF LocksInv, LocksHeld
    <3> QED BY <3>2, <3>3
  <2>2. MutualExclusion'
    BY <1>0, <1>1 DEF LocksInv, MutualExclusion
  <2>3. MutexOwned'
    BY <1>0 DEF LocksInv, MutexOwned, Kill, ReleaseProcess, TypeOK, LockTypeOK
  <2> QED BY <2>1, <2>2, <2>3 DEF LocksInv
<1>5. DirsInv'
  <2>1. \A t \in Threads : NoOlder(t)' /\ NoOlderRepo(t)'
    <3> TAKE t \in Threads
    <3>1. NoOlder(t) /\ NoOlderRepo(t)
      BY <1>0 DEF DirsInv
    <3> QED BY <3>1, <1>1, <1>2 DEF NoOlder, NoOlderRepo
  <2> QED BY <2>1, <1>0, <1>2 DEF DirsInv
<1>6. StepDropsOldest /\ StepIsStable
  BY <1>2, NothingDropped DEF StepDropsOldest, StepIsStable
<1> QED BY <1>3, <1>4, <1>5, <1>6 DEF Inv

-----------------------------------------------------------------------------
(* Every step of a thread keeps types and locks, and is a DirStep. *)
LEMMA GcKeeps ==
  ASSUME Inv, NEW t \in Played("gc"), UNCHANGED <<repoVars, cast>>,
         Begin(t) \/ GcStep(t) \/ GcAcquired(t) \/ GcFails(t)
  PROVE  TypeOK' /\ LocksInv' /\ DirStep(t)
<1>0. TypeOK /\ LocksInv /\ DirsInv /\ t \in Threads /\ Role(t) = "gc" /\ UNCHANGED repoVars
  BY DEF Inv, Played
<1>1. CASE \E l \in GcLockLabels : GcEnter(t, l)
  BY <1>0, <1>1, GcEnterKeeps, GcOtherDirs
<1>2. CASE \E l \in GcLockLabels : GcAcquireFails(t, l)
  BY <1>0, <1>2, GcAcquireFailsKeeps, GcOtherDirs
<1>3. CASE \E l \in {"clean", "remove"} : RemoveOne(t, l)
  BY <1>0, <1>3, RemoveOneKeeps, GcOtherDirs
<1>4. CASE \E l \in {"clean", "remove"} : RemoveFails(t, l)
  BY <1>0, <1>4, RemoveFailsKeeps, GcOtherDirs
<1>5. CASE Begin(t)
  BY <1>0, <1>5, BeginKeeps, GcOtherDirs
<1>6. CASE Cleaned(t)
  BY <1>0, <1>6, CleanedKeeps, GcOtherDirs
<1>7. CASE TakeOver(t)
  BY <1>0, <1>7, TakeOverKeeps, GcOtherDirs
<1>8. CASE MoveEphemeral(t)
  BY <1>0, <1>8, MoveEphemeralKeeps, MoveEphemeralDirs
<1>9. CASE Compactified(t)
  BY <1>0, <1>9, CompactifiedKeeps, GcOtherDirs
<1>10. CASE DropGeneration(t)
  BY <1>0, <1>10, DropGenerationKeeps, DropGenerationDirs
<1>11. CASE RotateOldest(t)
  BY <1>0, <1>11, RotateOldestKeeps, RotateOldestDirs
<1>12. CASE RotateYounger(t)
  BY <1>0, <1>12, RotateYoungerKeeps, RotateYoungerDirs
<1>13. CASE Renamed(t)
  BY <1>0, <1>13, RenamedKeeps, GcOtherDirs
<1>14. CASE Removed(t)
  BY <1>0, <1>14, RemovedKeeps, GcOtherDirs
<1>15. CASE CleanAcquired(t)
  BY <1>0, <1>15, CleanAcquiredKeeps, GcOtherDirs DEF GcAcquired
<1>16. CASE RenameAcquired(t)
  BY <1>0, <1>16, RenameAcquiredKeeps, GcOtherDirs DEF GcAcquired
<1>17. CASE RemoveAcquired(t)
  BY <1>0, <1>17, RemoveAcquiredKeeps, GcOtherDirs DEF GcAcquired
<1>18. CASE CompactifyFails(t)
  BY <1>0, <1>18, CompactifyFailsKeeps, GcOtherDirs
<1>19. CASE RenameFails(t)
  BY <1>0, <1>19, RenameFailsKeeps, GcOtherDirs
<1> QED
  BY <1>1, <1>2, <1>3, <1>4, <1>5, <1>6, <1>7, <1>8, <1>9, <1>10, <1>11, <1>12, <1>13, <1>14, <1>15, <1>16,
     <1>17, <1>18, <1>19 DEF GcStep, GcAcquired, GcFails

LEMMA RepoKeeps ==
  ASSUME Inv, NEW t \in Played("gc-repo"), UNCHANGED cast,
         RepoStep(t) \/ RepoAcquires(t) \/ RepoErrors(t)
  PROVE  TypeOK' /\ LocksInv' /\ DirStep(t)
<1>0. TypeOK /\ LocksInv /\ DirsInv /\ t \in Threads /\ Role(t) = "gc-repo" /\ NoOlderRepo(t)
  BY DEF Inv, DirsInv, Played
<1>1. CASE \E l \in RepoLockLabels : RepoEnter(t, l)
  BY <1>0, <1>1, RepoEnterKeeps, RepoOtherDirs
<1>2. CASE \E l \in RepoLockLabels : RepoAcquireFails(t, l)
  BY <1>0, <1>2, RepoAcquireFailsKeeps, RepoOtherDirs
<1>3. CASE RepoBegin(t)
  BY <1>0, <1>3, RepoBeginKeeps, RepoOtherDirs
<1>4. CASE RepoAcquired(t, "repo_clean_lock", "shared", "repo_clean")
  BY <1>0, <1>4, RepoCleanAcquiredKeeps, RepoOtherDirs DEF RepoAcquires
<1>5. CASE RepoAcquired(t, "repo_rename_lock", "exclusive", "repo_rename")
  BY <1>0, <1>5, RepoRenameAcquiredKeeps, RepoOtherDirs DEF RepoAcquires
<1>6. CASE RepoAcquired(t, "repo_remove_lock", "shared", "repo_remove")
  BY <1>0, <1>6, RepoRemoveAcquiredKeeps, RepoOtherDirs DEF RepoAcquires
<1>7. CASE RepoRemove(t, "repo_clean", "repo_rename_lock")
  BY <1>0, <1>7, RepoCleanKeeps, RepoOtherDirs
<1>8. CASE RepoRemove(t, "repo_remove", "idle")
  BY <1>0, <1>8, RepoRemoveKeeps, RepoOtherDirs
<1>9. CASE \E l \in {"repo_clean", "repo_rename", "repo_remove"} : RepoFails(t, l)
  BY <1>0, <1>9, RepoFailsKeeps, RepoOtherDirs
<1>10. CASE RepoRename(t)
  BY <1>0, <1>10, RepoRenameKeeps, RepoRenameDirs
<1>11. CASE RepoDrop(t)
  BY <1>0, <1>11, RepoDropKeeps, RepoDropDirs
<1>12. CASE RepoRotate(t)
  BY <1>0, <1>12, RepoRotateKeeps, RepoRotateDirs
<1>13. CASE RepoRenamed(t)
  BY <1>0, <1>13, RepoRenamedKeeps, RepoOtherDirs
<1>14. CASE RepoRenameFails(t)
  BY <1>0, <1>14, RepoRenameFailsKeeps, RepoOtherDirs
<1> QED
  BY <1>1, <1>2, <1>3, <1>4, <1>5, <1>6, <1>7, <1>8, <1>9, <1>10, <1>11, <1>12, <1>13, <1>14
     DEF RepoStep, RepoAcquires, RepoErrors

LEMMA UsersKeep ==
  ASSUME Inv, NEW t \in Users,
         \/ UseBegin(t) \/ UseEnter(t) \/ UseAcquiredRepo(t) \/ UseAcquired(t) \/ UseAcquireFails(t)
         \/ Use(t) \/ UseEnd(t)
  PROVE  TypeOK' /\ LocksInv' /\ DirStep(t)
<1>0. TypeOK /\ LocksInv /\ DirsInv /\ t \in Threads
  BY DEF Inv, Users, Played
<1>1. CASE UseBegin(t)
  BY <1>0, <1>1, UseBeginKeeps, UseOtherDirs
<1>2. CASE UseEnter(t)
  BY <1>0, <1>2, UseEnterKeeps, UseOtherDirs
<1>3. CASE UseAcquiredRepo(t)
  BY <1>0, <1>3, UseAcquiredRepoKeeps, UseOtherDirs
<1>4. CASE UseAcquired(t)
  BY <1>0, <1>4, UseAcquiredKeeps, UseOtherDirs
<1>5. CASE UseAcquireFails(t)
  BY <1>0, <1>5, UseAcquireFailsKeeps, UseOtherDirs
<1>6. CASE UseEnd(t)
  BY <1>0, <1>6, UseEndKeeps, UseOtherDirs
<1>7. CASE Use(t)
  BY <1>0, <1>7, UseKeeps, UseDirs
<1> QED BY <1>1, <1>2, <1>3, <1>4, <1>5, <1>6, <1>7

(* All steps *)
LEMMA NextKeeps ==
  ASSUME Inv, Next
  PROVE  Inv' /\ StepDropsOldest /\ StepIsStable
<1>0. TypeOK /\ LocksInv /\ DirsInv
  BY DEF Inv
<1>1. ASSUME NEW t \in Threads, TypeOK' /\ LocksInv' /\ DirStep(t)
      PROVE  Inv' /\ StepDropsOldest /\ StepIsStable
  BY <1>0, <1>1, DirStepKeeps, DirStepIsGood DEF Inv
<1>2. ASSUME NEW t \in Threads, Step(t) \/ Acquires(t) \/ Fails(t)
      PROVE  TypeOK' /\ LocksInv' /\ DirStep(t)
  <2>1. CASE t \in Played("gc") /\ (Collect(t) \/ ((GcAcquired(t) \/ GcFails(t)) /\ UNCHANGED <<repoVars, cast>>))
    BY <2>1, GcKeeps DEF Collect
  <2>2. CASE t \in Played("gc-repo") /\ (RepoStep(t) \/ RepoAcquires(t) \/ RepoErrors(t)) /\ UNCHANGED cast
    BY <2>2, RepoKeeps
  <2>3. CASE t \in Users /\ (UseEnd(t) \/ UseEnter(t) \/ UseAcquiredRepo(t) \/ UseAcquired(t) \/ UseAcquireFails(t))
    BY <2>3, UsersKeep
  <2> QED BY <1>2, <2>1, <2>2, <2>3 DEF Step, Acquires, Fails
<1>3. ASSUME NEW t \in Users, UseBegin(t) \/ Use(t)
      PROVE  t \in Threads /\ TypeOK' /\ LocksInv' /\ DirStep(t)
  BY <1>3, UsersKeep DEF Users, Played
<1>4. ASSUME NEW p \in Processes, Kill(p)
      PROVE  Inv' /\ StepDropsOldest /\ StepIsStable
  BY <1>4, KillKeeps
<1> QED BY <1>1, <1>2, <1>3, <1>4 DEF Next

LEMMA StutterKeeps ==
  ASSUME Inv, UNCHANGED vars
  PROVE  Inv' /\ StepDropsOldest /\ StepIsStable
<1>0. /\ UNCHANGED <<mutex, held, gen, junk, born, opt, todo, mine, count, at, ok>>
      /\ UNCHANGED <<repo, repo_junk, repo_born, drop_only, pc, trouble, cast>>
  BY DEF vars, lockVars, gcState, dirVars, gcVars, repoVars
<1>1. TypeOK'
  BY <1>0 DEF Inv, TypeOK, LockTypeOK, DirTypeOK, GcTypeOK, RepoTypeOK
<1>2. LocksInv'
  BY <1>0, LocksSame DEF Inv
<1>3. DirsInv'
  BY <1>0 DEF Inv, DirsInv, NoOlder, NoOlderRepo
<1>4. StepDropsOldest /\ StepIsStable
  BY <1>0, NothingDropped DEF StepDropsOldest, StepIsStable
<1> QED BY <1>1, <1>2, <1>3, <1>4 DEF Inv

LEMMA InitGivesInv == Init => Inv
<1> SUFFICES ASSUME Init PROVE Inv
  OBVIOUS
<1>0. /\ N \in Nat /\ MaxGenerations \in Nat /\ MaxTrouble \in Nat
      /\ GcLock \in Files /\ RepoLock \in Files
  BY CollectionAssumption, RepoAssumption
<1>1. TypeOK
  <2>1. LockTypeOK
    BY DEF Init, LockInit, LockTypeOK, Modes
  <2>2. DirTypeOK
    BY <1>0 DEF Init, GcInit, DirTypeOK
  <2>3. GcTypeOK
    BY <1>0 DEF Init, GcInit, GcTypeOK, Options
  <2>4. RepoTypeOK
    BY <1>0 DEF Init, RepoInit, RepoTypeOK
  <2> QED BY <2>1, <2>2, <2>3, <2>4 DEF Init, TypeOK, Labels
<1>2. LocksInv
  <2>1. LocksHeld
    BY <1>0 DEF Init, LockInit, LocksHeld, Allowed, GcMode, RepoMode
  <2>2. MutualExclusion /\ MutexOwned
    BY DEF Init, LockInit, MutualExclusion, MutexOwned
  <2> QED BY <2>1, <2>2 DEF LocksInv
<1>3. DirsInv
  <2>1. Ordered(gen, born) /\ Ordered(repo, repo_born)
    BY DEF Init, GcInit, RepoInit, Ordered
  <2>2. \A t \in Threads : NoOlder(t) /\ NoOlderRepo(t)
    BY DEF Init, NoOlder, NoOlderRepo
  <2> QED BY <2>1, <2>2 DEF DirsInv
<1> QED BY <1>1, <1>2, <1>3 DEF Inv

(* Every state that collectors and users reach satisfies the inductive     *)
(* invariant.                                                              *)
THEOREM InvariantHolds == Spec => []Inv
<1>1. Inv /\ [Next]_vars => Inv'
  BY NextKeeps, StutterKeeps
<1> QED BY InitGivesInv, <1>1, PTL DEF Spec

(* Locks, directories and what collectors keep in mind have their types. *)
THEOREM TypeCorrect == Spec => []TypeOK
<1>1. Inv => TypeOK
  BY DEF Inv
<1> QED BY InvariantHolds, <1>1, PTL

(* TriggerGarbageCollection drops an older generation before a younger     *)
(* one, and the repositories' collector, too, wherever they are killed.    *)
THEOREM YoungestSurvive == Spec => OnlyOldestDropped
<1>1. Inv /\ [Next]_vars => StepDropsOldest
  BY NextKeeps, StutterKeeps
<1>2. Inv /\ StepDropsOldest =>
        (/\ \A i, j \in Gens : \A x \in gen[i] \cap Ids, y \in gen[j] \cap Ids :
              (y < x /\ \E k \in Gens : y \in gen'[k]) => \E k \in Gens : x \in gen'[k]
         /\ \A i, j \in Gens : \A x \in repo[i], y \in repo[j] :
              (y < x /\ \E k \in Gens : y \in repo'[k]) => \E k \in Gens : x \in repo'[k])
  <2> SUFFICES ASSUME Inv, StepDropsOldest
               PROVE  \A i, j \in Gens : \A x \in repo[i], y \in repo[j] :
                        (y < x /\ \E k \in Gens : y \in repo'[k]) => \E k \in Gens : x \in repo'[k]
    BY DEF StepDropsOldest, KeepsYounger
  <2>1. \A i \in Gens : repo[i] \cap Ids = repo[i]
    BY DEF Inv, TypeOK, RepoTypeOK
  <2> QED BY <2>1 DEF StepDropsOldest, KeepsYounger
<1> QED BY InvariantHolds, <1>1, <1>2, PTL DEF Spec, OnlyOldestDropped

(* No collector moves away what a user with a shared lock has found. *)
THEOREM UsersUndisturbed == Spec => StableWhileUsed
<1>1. Inv /\ [Next]_vars => StepIsStable
  BY NextKeeps, StutterKeeps
<1> QED BY InvariantHolds, <1>1, PTL DEF Spec, StableWhileUsed, StepIsStable

(* Threads at a label that asks for a lock, and what they have meanwhile *)
LEMMA WaitersHoldLittle ==
  ASSUME Inv, NEW t \in Threads, NEW u \in Threads, Waits(t, u)
  PROVE  /\ held[t][GcLock] = "none" /\ held[t][RepoLock] # "exclusive"
         /\ held[t][RepoLock] = "shared" => pc[t] = "use_lock"
         /\ pc[t] = "repo_rename_lock" => Role(t) = "gc-repo"
<1>1. /\ Allowed(Role(t), pc[t])
      /\ held[t][GcLock] = GcMode(pc[t]) /\ held[t][RepoLock] = RepoMode(Role(t), pc[t])
  BY DEF Inv, LocksInv, LocksHeld
<1>2. pc[t] \in GcLockLabels \cup RepoLockLabels \cup {"use_lock", "use_repo_lock"}
  BY DEF Waits, GcLockLabels, RepoLockLabels
<1> QED BY <1>1, <1>2 DEF Allowed, GcMode, RepoMode, GcLabels, RepoLabels, GcLockLabels, RepoLockLabels

LEMMA NoCycle == Inv => NoWaitCycle
<1> SUFFICES ASSUME Inv, NEW S \in (SUBSET Threads) \ {{}}, ~\E t \in S : \A u \in S : ~Waits(t, u)
             PROVE  FALSE
  BY DEF NoWaitCycle
<1>0. S \subseteq Threads /\ S # {} /\ \A t \in S : \E u \in S : Waits(t, u)
  OBVIOUS
<1>1. \A t \in S : /\ held[t][GcLock] = "none" /\ held[t][RepoLock] # "exclusive"
                   /\ held[t][RepoLock] = "shared" => pc[t] = "use_lock"
                   /\ pc[t] = "repo_rename_lock" => Role(t) = "gc-repo"
  BY <1>0, WaitersHoldLittle
(* One who waits for a lock file is a collector, hence alone. *)
<1>2. \A t, u \in S : Waits(t, u) =>
         \/ mutex[Process[t]] = u /\ u # t
         \/ pc[t] = "repo_rename_lock" /\ held[u][RepoLock] = "shared"
  BY <1>1 DEF Waits, WaitsFor
<1>3. \A t \in S : pc[t] = "repo_rename_lock" => Alone(t)
  <2>1. \A t \in Threads : Role(t) \in Collectors => Alone(t)
    BY CastAssumption DEF Inv, TypeOK, Role
  <2> QED BY <2>1, <1>1 DEF Collectors
(* Nobody waits for the owner of a mutex: the owner would wait for a lock  *)
(* file, and not be alone.                                                 *)
<1>4. \A t, u \in S : mutex[Process[t]] = u => u = t
  <2> SUFFICES ASSUME NEW t \in S, NEW u \in S, mutex[Process[t]] = u, u # t PROVE FALSE
    OBVIOUS
  <2>1. Process[u] = Process[t]
    BY NobodyAssumption DEF Inv, LocksInv, MutexOwned, Processes
  <2>2. ~Alone(u)
    BY <2>1 DEF Alone
  <2>3. PICK v \in S : Waits(u, v)
    BY <1>0
  <2>4. mutex[Process[u]] = v /\ v # u
    BY <2>2, <2>3, <1>2, <1>3
  <2> QED BY <2>1, <2>4
<1>5. PICK t \in S : TRUE
  BY <1>0
<1>6. PICK u \in S : Waits(t, u)
  BY <1>0
<1>7. held[u][RepoLock] = "shared"
  BY <1>2, <1>4, <1>6
<1>8. pc[u] = "use_lock"
  BY <1>1, <1>7
<1>9. PICK v \in S : Waits(u, v)
  BY <1>0
<1> QED BY <1>2, <1>4, <1>8, <1>9

(* LockFile::Acquire keeps the mutex of the process while it waits; still  *)
(* no thread ever waits for itself.                                        *)
THEOREM NoDeadlock == Spec => []NoWaitCycle
<1> QED BY InvariantHolds, NoCycle, PTL
=============================================================================
