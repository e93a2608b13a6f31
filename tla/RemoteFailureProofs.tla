------------------------ MODULE RemoteFailureProofs ------------------------
(***************************************************************************)
(* Remote execution only fails for a reason, for all objects, trees,       *)
(* actions, threads and limits: what a job has made sure of, it finds again*)
(* until the build root was collected too often, so everything it uploads  *)
(* is accepted, and every call that fails was lost as often as it is tried.*)
(***************************************************************************)
EXTENDS RemoteProofs, WellFoundedInduction

-----------------------------------------------------------------------------
(* The inductive invariant. *)
Uploading   == {"find", "large", "batch", "single"}
AfterQuery  == {"available", "level"}
AfterUpload == {"tree", "nodes", "add", "root", "uploaded", "prepare"}

(* What t can rely on: objects that are young enough to be there until the *)
(* build root has been collected too often since it began.                 *)
Had(t) == {o \in Objects : age[o] + collections <= begun[t]}

(* Where a thread at label l is or goes on to after its transfer u, and    *)
(* which objects of that are not there yet.                                *)
At(l, n)    == IF l \in CasLabels THEN n ELSE l
Open(l, u)  == IF l \in Uploading THEN u.blobs \ u.updated ELSE {}
Ready(S, H) == \A o \in S : Entries[o] \subseteq H

PlaysRole(r, l, n) ==
  /\ r = "none" => l = "idle"
  /\ r = "wait" => l \in {"idle", "wait", "ok", "failed"}
  /\ r = "build" => l \in CasLabels \cup AfterQuery \cup AfterUpload \cup {"idle", "execute", "ok", "failed"}
  /\ l = "query" => n \in AfterQuery
  /\ l \in Uploading => n \in AfterUpload

(* A transfer u for action a is of what the action needs, with all entries *)
(* there; objects are not given up silently.                               *)
Transferred(u, l, H, a, lim) ==
  /\ u.left \subseteq u.blobs /\ u.batch \subseteq u.left /\ u.updated \subseteq u.blobs
  /\ u.blobs \subseteq Needs(a)
  /\ l \in Uploading => Ready(u.blobs, H)
  /\ l # "batch" => u.updated = {} /\ u.batch = {}
  /\ l = "large" => u.left = u.blobs /\ u.failed = FALSE
  /\ l = "batch" =>
       /\ u.max \in Nat /\ lim <= u.max /\ u.failed = FALSE
       /\ u.batch # {} => TotalSize(u.batch) <= u.max
  /\ l = "single" => u.failed \in BOOLEAN /\ (u.failed = FALSE => u.blobs = u.left)

(* What is there by the time a build is at l. *)
Reached(l, n, u, H, a) ==
  /\ l \notin {"idle", "failed"} =>
       Leaves[a] \subseteq H \cup (IF At(l, n) = "tree" THEN Open(l, u) ELSE {})
  /\ At(l, n) = "available" => InputRoot[a] \in H \cup u.blobs
  /\ At(l, n) = "root" => SubTrees(InputRoot[a]) \subseteq H \cup Open(l, u)
  /\ At(l, n) = "uploaded" => InputRoot[a] \in H \cup Open(l, u)
  /\ At(l, n) \in {"prepare", "execute"} => InputRoot[a] \in H /\ Messages[a] \subseteq H \cup Open(l, u)

(* The open calls s of an upload of root: the trees of a node are there,   *)
(* still to do, in the container, or being uploaded.                       *)
Within(f, H, root) ==
  /\ f.node \in Below[root] /\ f.cur \in Below[root]
  /\ f.todo \subseteq Below[root] /\ f.container \subseteq Below[root]
  /\ Ready(f.container, H)
Covered(f, S) == SubTrees(f.node) \subseteq S \cup f.todo \cup f.container

LastOf(s) == s[Len(s)]
Nested(s, l, n, u, H, root) ==
  /\ l # "failed" /\ At(l, n) \notin InTree => s = <<>>
  /\ Len(s) > 0 => s[1].node = root
  /\ \A p \in 1 .. Len(s) : Within(s[p], H, root)
  /\ \A p \in 1 .. Len(s) : p < Len(s) => s[p + 1].node = s[p].cur /\ Covered(s[p], H \cup {s[p].cur})
  /\ At(l, n) = "level" => u.blobs \subseteq Below[root] /\ SubTrees(LastOf(s).node) \subseteq H \cup u.blobs
  /\ At(l, n) = "nodes" => Covered(LastOf(s), H \cup Open(l, u))
  /\ At(l, n) = "add" => /\ Covered(LastOf(s), H \cup {LastOf(s).cur})
                         /\ SubTrees(LastOf(s).cur) \subseteq H \cup Open(l, u)

Retrieved(s, l, H, root) ==
  /\ l = "idle" => s = <<>>
  /\ l \in SyncPCs => root \in H
  /\ \A p \in 1 .. Len(s) :
       s[p].infos \cup s[p].missing \cup s[p].todo \cup s[p].prerequisites \subseteq Below[root]

(* Whatever goes wrong has a cause; what is given up in a batch is tried   *)
(* again blob by blob, as streams, so it may have been all there was.      *)
Tired(t) == begun[t] - collections >= Generations \/ Fragile(t) \/ LostCalls >= MaxAttempts
Forgotten(t) == Role(t) = "wait" /\ (LostCalls > 0 \/ Crowded)
Blamed(t) ==
  /\ pc[t] = "failed" => Caused(t) \/ Forgotten(t)
  /\ pc[t] = "batch" => up[t].blobs = up[t].left \cup up[t].updated \/ Tired(t)
  /\ pc[t] = "single" => Tired(t) /\ (up[t].failed = TRUE => Caused(t))
  /\ Role(t) = "sync" => \A p \in 1 .. Len(stack[t]) : stack[t][p].failure = TRUE => Caused(t)

Doing(t) ==
  /\ collections <= begun[t] /\ tries[t] <= LostCalls
  /\ PlaysRole(Role(t), pc[t], then[t])
  /\ Role(t) = "build" =>
       /\ Transferred(up[t], pc[t], Had(t), Act(t), limit)
       /\ Reached(pc[t], then[t], up[t], Had(t), Act(t))
       /\ Nested(stack[t], pc[t], then[t], up[t], Had(t), InputRoot[Act(t)])
  /\ Role(t) = "sync" => Retrieved(stack[t], pc[t], Had(t), InputRoot[Act(t)])
  /\ Blamed(t)

(* Executions have what they need, and every attempt but the last was lost. *)
Handled(t) ==
  /\ \A k \in 1 .. MaxAttempts :
       /\ handler[t][k].stage # "none" => Role(t) = "build"
       /\ handler[t][k].stage \in {"called", "running"} => InputRoot[Act(t)] \in Had(t) /\ Messages[Act(t)] \subseteq Had(t)
       /\ handler[t][k].stage = "internal" => Caused(t)
  /\ pc[t] = "execute" =>
       /\ attempt[t] \in 1 .. MaxAttempts /\ attempt[t] <= LostCalls + 1
       /\ handler[t][attempt[t]].stage = "none" => attempt[t] <= LostCalls

Waiting(t) == pc[t] = "wait" => op[Act(t)] # "none" \/ LostCalls > 0 \/ Crowded

Involved == Casts[cast].executed \cup {Act(u) : u \in Played("build")}

Numbers ==
  /\ collections \in Nat /\ trouble \in Nat /\ LostCalls \in Nat /\ limit \in Nat /\ broken \in Nat
  /\ begun \in [Threads -> Nat] /\ tries \in [Threads -> Nat]

CauseInv ==
  /\ Numbers /\ Known(op) \subseteq Involved
  /\ \A t \in Threads : Doing(t) /\ Handled(t) /\ Waiting(t)

(* Of some numbers there is a least one. *)
LEMMA LeastOne ==
  ASSUME NEW T \in SUBSET Nat, T # {}
  PROVE  \E m \in T : \A k \in T : m <= k
<1> DEFINE R == OpToRel(<, Nat)
<1>1. IsWellFoundedOn(R, Nat)
  BY NatLessThanWellFounded
<1>2. \A a, b \in Nat : <<a, b>> \in R <=> a < b
  BY DEF OpToRel
<1> HIDE DEF R
<1>3. PICK m \in T : \A k \in T : ~(<<k, m>> \in R)
  BY <1>1, WFMin
<1>4. ASSUME NEW k \in T
      PROVE  m <= k
  <2>1. m \in Nat /\ k \in Nat
    OBVIOUS
  <2>2. ~(k < m)
    BY <1>2, <1>3, <2>1
  <2> QED
    BY <2>1, <2>2
<1> QED
  BY <1>4

(* The next summand of a set, and what the sum of a set is, given that of  *)
(* the set without it.                                                     *)
Summand(s) == CHOOSE x \in s : TRUE
SumFrom(g, s) == IF s = {} THEN 0 ELSE Size[Summand(s)] + g[s \ {Summand(s)}]

LEMMA SumUnfolds ==
  ASSUME NEW S
  PROVE  TotalSize(S) = (CHOOSE iter : iter = [s \in SUBSET S |-> SumFrom(iter, s)])[S]
BY DEF TotalSize, MapThenSumSet, MapThenFoldSet, SumFrom, Summand

(* The sums over subsets of a finite set exist, first for those of few     *)
(* elements.                                                               *)
LEMMA SumsExist ==
  ASSUME NEW S \in SUBSET Objects, IsFiniteSet(S)
  PROVE  \E g : g = [s \in SUBSET S |-> SumFrom(g, s)]
<1>1. /\ \A s \in SUBSET S : IsFiniteSet(s) /\ Cardinality(s) \in Nat /\ Cardinality(s) <= Cardinality(S)
      /\ Cardinality(S) \in Nat
  BY FS_Subset, FS_CardinalityType
<1>2. ASSUME NEW s \in SUBSET S, s # {}
      PROVE  /\ Summand(s) \in S /\ s \ {Summand(s)} \in SUBSET S
             /\ Cardinality(s \ {Summand(s)}) = Cardinality(s) - 1
  <2>1. Summand(s) \in s
    BY <1>2 DEF Summand
  <2>2. IsFiniteSet(s)
    BY <1>1
  <2> QED
    BY <2>1, <2>2, FS_RemoveElement
<1>3. \A o \in S : Size[o] \in Nat
  BY CasAssumption
<1> DEFINE A(n) == \E g \in [SUBSET S -> Nat] : \A s \in SUBSET S : Cardinality(s) < n => g[s] = SumFrom(g, s)
<1>4. \A n \in Nat : A(n)
  <2> SUFFICES ASSUME NEW n \in Nat, ~A(n)
               PROVE  FALSE
    OBVIOUS
  <2> DEFINE bad == {k \in Nat : ~A(k)}
  <2>1. PICK m \in bad : \A k \in bad : m <= k
    <3>1. bad \in SUBSET Nat /\ bad # {}
      OBVIOUS
    <3> HIDE DEF bad
    <3> QED
      BY <3>1, LeastOne
  <2>2. m \in Nat /\ ~A(m) /\ \A k \in Nat : ~A(k) => m <= k
    BY <2>1
  <2> HIDE DEF bad
  <2>3. A(0)
    <3> DEFINE g == [s \in SUBSET S |-> 0]
    <3>1. g \in [SUBSET S -> Nat]
      OBVIOUS
    <3>2. \A s \in SUBSET S : ~(Cardinality(s) < 0)
      BY <1>1
    <3> HIDE DEF g
    <3> QED
      BY <3>1, <3>2
  <2>4. m # 0
    BY <2>2, <2>3
  <2>5. m - 1 \in Nat /\ m - 1 < m
    BY <2>2, <2>4
  <2>6. A(m - 1)
    <3>1. ~(m <= m - 1)
      BY <2>2
    <3> HIDE DEF A
    <3> QED
      BY <2>2, <2>5, <3>1
  <2>7. PICK g \in [SUBSET S -> Nat] : \A s \in SUBSET S : Cardinality(s) < m - 1 => g[s] = SumFrom(g, s)
    BY <2>6
  <2> DEFINE h == [s \in SUBSET S |-> IF Cardinality(s) < m - 1 THEN g[s] ELSE SumFrom(g, s)]
  <2>8. ASSUME NEW s \in SUBSET S
        PROVE  SumFrom(g, s) \in Nat
    <3>1. CASE s # {}
      <4>1. g[s \ {Summand(s)}] \in Nat
        BY <1>2, <2>7, <3>1
      <4>2. Size[Summand(s)] \in Nat
        BY <1>2, <1>3, <3>1
      <4>3. SumFrom(g, s) = Size[Summand(s)] + g[s \ {Summand(s)}]
        BY <3>1 DEF SumFrom
      <4>4. \A x, y \in Nat : x + y \in Nat
        OBVIOUS
      <4> QED
        BY <4>1, <4>2, <4>3, <4>4, Zenon
    <3> QED
      BY <3>1 DEF SumFrom
  <2>9. h \in [SUBSET S -> Nat] /\ \A s \in SUBSET S : h[s] = SumFrom(g, s)
    BY <2>7, <2>8
  <2>10. \A s \in SUBSET S : Cardinality(s) < m - 1 => h[s] = g[s]
    OBVIOUS
  <2> HIDE DEF h
  <2>11. ASSUME NEW s \in SUBSET S, Cardinality(s) < m
         PROVE  h[s] = SumFrom(h, s)
    <3>1. CASE s = {}
      BY <2>9, <3>1 DEF SumFrom
    <3>2. CASE s # {}
      <4>1. Cardinality(s \ {Summand(s)}) < m - 1
        BY <1>1, <1>2, <2>2, <2>11, <3>2
      <4>2. h[s \ {Summand(s)}] = g[s \ {Summand(s)}]
        BY <1>2, <2>10, <3>2, <4>1
      <4> QED
        BY <2>9, <3>2, <4>2 DEF SumFrom
    <3> QED
      BY <3>1, <3>2
  <2>12. A(m)
    BY <2>9, <2>11
  <2> QED
    BY <2>2, <2>12
<1> QED
  <2>1. Cardinality(S) + 1 \in Nat
    BY <1>1
  <2>2. A(Cardinality(S) + 1)
    BY <1>4, <2>1
  <2>3. PICK g \in [SUBSET S -> Nat] :
          \A s \in SUBSET S : Cardinality(s) < Cardinality(S) + 1 => g[s] = SumFrom(g, s)
    BY <2>2
  <2>4. \A s \in SUBSET S : g[s] = SumFrom(g, s)
    BY <1>1, <2>3
  <2>5. g = [s \in SUBSET S |-> g[s]]
    OBVIOUS
  <2> QED
    BY <2>4, <2>5

(* The total size of a finite set is a number.                             *)
LEMMA SizesAdd ==
  ASSUME NEW S \in SUBSET Objects, IsFiniteSet(S)
  PROVE  TotalSize(S) \in Nat
<1>1. /\ \A s \in SUBSET S : IsFiniteSet(s) /\ Cardinality(s) \in Nat /\ Cardinality(s) <= Cardinality(S)
      /\ Cardinality(S) \in Nat
  BY FS_Subset, FS_CardinalityType
<1>2. ASSUME NEW s \in SUBSET S, s # {}
      PROVE  /\ Summand(s) \in S /\ s \ {Summand(s)} \in SUBSET S
             /\ Cardinality(s \ {Summand(s)}) = Cardinality(s) - 1
  <2>1. Summand(s) \in s
    BY <1>2 DEF Summand
  <2>2. IsFiniteSet(s)
    BY <1>1
  <2> QED
    BY <2>1, <2>2, FS_RemoveElement
<1>3. \A o \in S : Size[o] \in Nat
  BY CasAssumption
<1> DEFINE iter == CHOOSE g : g = [s \in SUBSET S |-> SumFrom(g, s)]
<1>6. iter = [s \in SUBSET S |-> SumFrom(iter, s)]
  BY SumsExist
<1>7. TotalSize(S) = iter[S]
  BY SumUnfolds
<1> HIDE DEF iter
<1>8. \A s \in SUBSET S : iter[s] = SumFrom(iter, s)
  BY <1>6
<1>9. \A s \in SUBSET S : iter[s] \in Nat
  <2> SUFFICES ASSUME NEW s0 \in SUBSET S, iter[s0] \notin Nat
               PROVE  FALSE
    OBVIOUS
  <2> DEFINE bad == {Cardinality(s) : s \in {z \in SUBSET S : iter[z] \notin Nat}}
  <2>1. bad \in SUBSET Nat /\ bad # {}
    BY <1>1
  <2>2. PICK m \in bad : \A k \in bad : m <= k
    <3> HIDE DEF bad
    <3> QED
      BY <2>1, LeastOne
  <2>3. PICK s \in SUBSET S : iter[s] \notin Nat /\ m = Cardinality(s)
    OBVIOUS
  <2>4. iter[s] = SumFrom(iter, s)
    BY <1>8
  <2>5. CASE s = {}
    BY <2>3, <2>4, <2>5 DEF SumFrom
  <2>6. CASE s # {}
    <3>1. iter[s \ {Summand(s)}] \notin Nat
      BY <1>2, <1>3, <2>3, <2>4, <2>6 DEF SumFrom
    <3>2. Cardinality(s \ {Summand(s)}) \in bad
      BY <1>2, <2>6, <3>1
    <3>3. m <= Cardinality(s) - 1
      BY <1>2, <2>2, <2>6, <3>2
    <3> QED
      BY <1>1, <2>3, <3>3
  <2> QED
    BY <2>5, <2>6
<1>10. S \in SUBSET S
  OBVIOUS
<1> QED
  BY <1>7, <1>9, <1>10

-----------------------------------------------------------------------------
(* The size of a single object. *)
LEMMA SizeOfOne ==
  ASSUME NEW o \in Objects
  PROVE  TotalSize({o}) = Size[o]
<1>1. {o} \in SUBSET Objects /\ IsFiniteSet({o})
  BY FS_Singleton
<1> DEFINE S == {o}
           iter == CHOOSE g : g = [s \in SUBSET S |-> SumFrom(g, s)]
<1>2. iter = [s \in SUBSET S |-> SumFrom(iter, s)]
  BY <1>1, SumsExist
<1>3. TotalSize(S) = iter[S]
  BY SumUnfolds
<1> HIDE DEF iter
<1>4. iter[S] = SumFrom(iter, S) /\ iter[{}] = SumFrom(iter, {})
  BY <1>2
<1>5. Summand(S) = o
  BY DEF Summand
<1>6. iter[{}] = 0 /\ iter[S] = Size[o] + iter[{}]
  BY <1>4, <1>5 DEF SumFrom
<1>7. Size[o] \in Nat
  BY CasAssumption
<1> QED
  BY <1>3, <1>6, <1>7

-----------------------------------------------------------------------------
(* Needed objects are objects, and so are those of actions. *)
LEMMA NeedsTyped ==
  ASSUME NEW a \in Actions
  PROVE  /\ Needs(a) \subseteq Objects /\ Leaves[a] \subseteq Needs(a) /\ Messages[a] \subseteq Needs(a)
         /\ InputRoot[a] \in Objects /\ Below[InputRoot[a]] \subseteq Needs(a)
         /\ InputRoot[a] \in Below[InputRoot[a]] /\ Closed(Below[InputRoot[a]])
<1>1. InputRoot[a] \in Objects /\ Leaves[a] \subseteq Objects /\ Messages[a] \subseteq Objects
  BY ExecutionAssumption
<1> QED
  BY <1>1, BelowFacts DEF Needs

(* What makes a job fragile. *)
LEMMA FragileMeans ==
  ASSUME limit \in Nat, NEW t \in Threads, Act(t) \in Actions
  PROVE  Fragile(t) <=> \/ ServerMax < MinBatch
                        \/ \E o \in Needs(Act(t)) : Size[o] > MaxGrpc \/ Size[o] > limit
<1>1. Min({MaxGrpc, limit}) = IF MaxGrpc < limit THEN MaxGrpc ELSE limit
  BY MinOfTwo, CasAssumption
<1>2. \A o \in Needs(Act(t)) : Size[o] \in Nat
  BY NeedsTyped, CasAssumption
<1>3. MaxGrpc \in Nat
  BY CasAssumption
<1>4. \A o \in Needs(Act(t)) : Size[o] > Min({MaxGrpc, limit}) <=> Size[o] > MaxGrpc \/ Size[o] > limit
  BY <1>1, <1>2, <1>3
<1> QED
  BY <1>4 DEF Fragile

(* With more there, and a lower limit, transfers, uploads and retrievals   *)
(* are as good as before.                                                  *)
LEMMA TransferredGrows ==
  ASSUME NEW u, NEW l, NEW H, NEW G, H \subseteq G, NEW a, NEW m \in Nat, NEW n \in Nat, n <= m,
         Transferred(u, l, H, a, m)
  PROVE  Transferred(u, l, G, a, n)
<1>1. l = "batch" => n <= u.max
  <2> SUFFICES ASSUME l = "batch"
               PROVE  n <= u.max
    OBVIOUS
  <2>1. u.max \in Nat /\ m <= u.max
    BY DEF Transferred
  <2> QED
    BY <2>1
<1>2. l \in Uploading => Ready(u.blobs, G)
  BY DEF Transferred, Ready
<1> QED
  BY <1>1, <1>2 DEF Transferred

LEMMA ReachedGrows ==
  ASSUME NEW l, NEW n, NEW u, NEW H, NEW G, H \subseteq G, NEW a, Reached(l, n, u, H, a)
  PROVE  Reached(l, n, u, G, a)
BY DEF Reached

LEMMA NestedGrows ==
  ASSUME NEW s, NEW l, NEW n, NEW u, NEW H, NEW G, H \subseteq G, NEW r, Nested(s, l, n, u, H, r)
  PROVE  Nested(s, l, n, u, G, r)
<1>1. \A f : Within(f, H, r) => Within(f, G, r)
  BY DEF Within, Ready
<1>2. \A f, x : Covered(f, H \cup x) => Covered(f, G \cup x)
  BY DEF Covered
<1>3. \A p \in 1 .. Len(s) : Within(s[p], G, r)
  BY <1>1 DEF Nested
<1>4. \A p \in 1 .. Len(s) : p < Len(s) => s[p + 1].node = s[p].cur /\ Covered(s[p], G \cup {s[p].cur})
  BY <1>2 DEF Nested
<1>5. At(l, n) = "nodes" => Covered(LastOf(s), G \cup Open(l, u))
  BY <1>2 DEF Nested
<1>6. At(l, n) = "add" => /\ Covered(LastOf(s), G \cup {LastOf(s).cur})
                          /\ SubTrees(LastOf(s).cur) \subseteq G \cup Open(l, u)
  BY <1>2 DEF Nested
<1> QED
  BY <1>3, <1>4, <1>5, <1>6 DEF Nested

LEMMA RetrievedGrows ==
  ASSUME NEW s, NEW l, NEW H, NEW G, H \subseteq G, NEW r, Retrieved(s, l, H, r)
  PROVE  Retrieved(s, l, G, r)
BY DEF Retrieved

-----------------------------------------------------------------------------
(* No step takes away what somebody can rely on, and causes remain. *)
Onward ==
  /\ cast' = cast /\ collections' <= collections /\ trouble' <= trouble
  /\ limit' <= limit /\ broken <= broken'
  /\ \A o \in Objects : age'[o] + collections' <= age[o] + collections

LEMMA CausesRemain ==
  ASSUME Inv, Inv', Numbers, Numbers', Onward, NEW t \in Threads, begun'[t] = begun[t]
  PROVE  /\ Had(t) \subseteq Had(t)' /\ Role(t)' = Role(t) /\ Act(t)' = Act(t) /\ Act(t) \in Actions
         /\ LostCalls <= LostCalls' /\ (Fragile(t) => Fragile(t)')
         /\ (Caused(t) => Caused(t)') /\ (Tired(t) => Tired(t)')
         /\ (Forgotten(t) => Forgotten(t)') /\ (Crowded => Crowded')
<1>1. /\ Act(t)' = Act(t) /\ Role(t)' = Role(t) /\ Act(t) \in Actions /\ \A u : Act(u)' = Act(u) /\ Role(u)' = Role(u)
      /\ cast' = cast
  BY ActionTyped, RolesFixed DEF Onward, Inv
<1>2. /\ collections \in Nat /\ trouble \in Nat /\ LostCalls \in Nat /\ limit \in Nat /\ broken \in Nat
      /\ collections' \in Nat /\ trouble' \in Nat /\ LostCalls' \in Nat /\ limit' \in Nat /\ broken' \in Nat
      /\ begun[t] \in Nat /\ collections' <= collections /\ trouble' <= trouble
      /\ limit' <= limit /\ broken <= broken' /\ begun'[t] = begun[t]
  BY DEF Numbers, Onward
<1>3. Generations \in Nat /\ MaxAttempts \in Nat \ {0}
  BY CasAssumption
<1>4. Had(t) \subseteq Had(t)'
  <2> SUFFICES ASSUME NEW o \in Objects, age[o] + collections <= begun[t]
               PROVE  age'[o] + collections' <= begun'[t]
    BY DEF Had
  <2>1. age[o] \in Nat /\ age'[o] \in Nat
    BY <1>3 DEF Inv, AgesInv, Ages
  <2>2. age'[o] + collections' <= age[o] + collections
    BY DEF Onward
  <2> QED
    BY <1>2, <2>1, <2>2
<1>5. LostCalls <= LostCalls'
  <2>1. LostCalls = Casts[cast].lost - trouble /\ LostCalls' = Casts[cast].lost - trouble'
    BY <1>1 DEF LostCalls
  <2>2. Casts[cast].lost \in Nat
    BY ExecutionAssumption, CasAssumption DEF Inv, Shape
  <2> QED
    BY <1>2, <2>1, <2>2
<1>6. Fragile(t) => Fragile(t)'
  <2>1. Fragile(t) <=> \/ ServerMax < MinBatch
                       \/ \E o \in Needs(Act(t)) : Size[o] > MaxGrpc \/ Size[o] > limit
    BY <1>1, <1>2, FragileMeans
  <2>2. Fragile(t)' <=> \/ ServerMax < MinBatch
                        \/ \E o \in Needs(Act(t)) : Size[o] > Min({MaxGrpc, limit'})
    BY <1>1 DEF Fragile
  <2>3. Min({MaxGrpc, limit'}) = IF MaxGrpc < limit' THEN MaxGrpc ELSE limit'
    BY <1>2, MinOfTwo, CasAssumption
  <2>4. \A o \in Needs(Act(t)) : Size[o] \in Nat
    BY <1>1, NeedsTyped, CasAssumption
  <2>5. MaxGrpc \in Nat
    BY CasAssumption
  <2>6. \A o \in Needs(Act(t)) : Size[o] > MaxGrpc \/ Size[o] > limit => Size[o] > Min({MaxGrpc, limit'})
    BY <1>2, <2>3, <2>4, <2>5
  <2> QED
    BY <2>1, <2>2, <2>6
<1>7. Caused(t) => Caused(t)'
  <2>1. Caused(t) <=> \/ begun[t] - collections >= Generations
                      \/ broken > 0
                      \/ LostCalls >= IF Fragile(t) THEN 1 ELSE MaxAttempts
    BY DEF Caused
  <2>2. Caused(t)' <=> \/ begun'[t] - collections' >= Generations
                       \/ broken' > 0
                       \/ LostCalls' >= IF Fragile(t)' THEN 1 ELSE MaxAttempts
    BY DEF Caused
  <2> DEFINE F == Fragile(t)
             FN == Fragile(t)'
  <2>3. LostCalls >= (IF F THEN 1 ELSE MaxAttempts) => LostCalls' >= IF FN THEN 1 ELSE MaxAttempts
    <3>1. F => FN
      BY <1>6
    <3> HIDE DEF F, FN
    <3> QED
      BY <1>2, <1>3, <1>5, <3>1
  <2> QED
    BY <1>2, <1>3, <2>1, <2>2, <2>3
<1>8. Tired(t) => Tired(t)'
  BY <1>2, <1>3, <1>5, <1>6 DEF Tired
<1>9. (Crowded => Crowded') /\ (Forgotten(t) => Forgotten(t)')
  <2>1. Crowded' <=> Crowded
    BY <1>1 DEF Crowded, Played
  <2> QED
    BY <1>1, <1>2, <1>5, <2>1 DEF Forgotten
<1> QED
  BY <1>1, <1>4, <1>5, <1>6, <1>7, <1>8, <1>9

(* A thread that does nothing is not disturbed by the others. *)
Idles(t) ==
  /\ pc'[t] = pc[t] /\ then'[t] = then[t] /\ up'[t] = up[t] /\ stack'[t] = stack[t]
  /\ tries'[t] = tries[t] /\ begun'[t] = begun[t]

LEMMA DoingRemains ==
  ASSUME Inv, Inv', Numbers, Numbers', Onward, NEW t \in Threads, Idles(t), Doing(t)
  PROVE  Doing(t)'
<1>1. /\ Had(t) \subseteq Had(t)' /\ Role(t)' = Role(t) /\ Act(t)' = Act(t)
      /\ LostCalls <= LostCalls' /\ (Caused(t) => Caused(t)') /\ (Tired(t) => Tired(t)')
      /\ (Forgotten(t) => Forgotten(t)')
  BY CausesRemain DEF Idles
<1>2. /\ pc'[t] = pc[t] /\ then'[t] = then[t] /\ up'[t] = up[t] /\ stack'[t] = stack[t]
      /\ tries'[t] = tries[t] /\ begun'[t] = begun[t]
  BY DEF Idles
<1>3. limit \in Nat /\ limit' \in Nat /\ limit' <= limit
  BY DEF Numbers, Onward
<1>4. collections' <= begun'[t] /\ tries'[t] <= LostCalls'
  <2>1. /\ collections \in Nat
        /\ collections' \in Nat
        /\ begun[t] \in Nat
        /\ LostCalls \in Nat
        /\ LostCalls' \in Nat
        /\ tries[t] \in Nat /\ collections' <= collections /\ collections <= begun[t] /\ tries[t] <= LostCalls
    BY DEF Numbers, Onward, Doing
  <2> QED
    BY <1>1, <1>2, <2>1
<1>5. ASSUME Role(t) = "build"
      PROVE  /\ Transferred(up[t], pc[t], Had(t)', Act(t), limit')
             /\ Reached(pc[t], then[t], up[t], Had(t)', Act(t))
             /\ Nested(stack[t], pc[t], then[t], up[t], Had(t)', InputRoot[Act(t)])
  BY <1>1, <1>3, <1>5, TransferredGrows, ReachedGrows, NestedGrows DEF Doing
<1>6. ASSUME Role(t) = "sync"
      PROVE  Retrieved(stack[t], pc[t], Had(t)', InputRoot[Act(t)])
  BY <1>1, <1>6, RetrievedGrows DEF Doing
<1>7. Blamed(t)'
  BY <1>1, <1>2 DEF Blamed, Doing
<1>8. PlaysRole(Role(t), pc[t], then[t])
  BY DEF Doing
<1> QED
  BY <1>1, <1>2, <1>4, <1>5, <1>6, <1>7, <1>8 DEF Doing

(* Neither are its executions, *)
LEMMA HandledRemains ==
  ASSUME Inv, Inv', Numbers, Numbers', Onward, NEW t \in Threads, Handled(t), begun'[t] = begun[t],
         handler'[t] = handler[t], attempt'[t] = attempt[t], pc'[t] = "execute" => pc[t] = "execute"
  PROVE  Handled(t)'
<1>1. /\ Had(t) \subseteq Had(t)' /\ Role(t)' = Role(t) /\ Act(t)' = Act(t)
      /\ LostCalls <= LostCalls' /\ (Caused(t) => Caused(t)')
      /\ LostCalls \in Nat /\ LostCalls' \in Nat
  BY CausesRemain DEF Numbers
<1>2. pc'[t] = "execute" =>
       /\ attempt[t] \in 1 .. MaxAttempts /\ attempt[t] <= LostCalls' + 1
       /\ handler[t][attempt[t]].stage = "none" => attempt[t] <= LostCalls'
  BY <1>1 DEF Handled
<1>3. \A k \in 1 .. MaxAttempts :
       /\ handler[t][k].stage # "none" => Role(t) = "build"
       /\ handler[t][k].stage \in {"called", "running"} => InputRoot[Act(t)] \in Had(t)' /\ Messages[Act(t)] \subseteq Had(t)'
       /\ handler[t][k].stage = "internal" => Caused(t)'
  BY <1>1 DEF Handled
<1> QED
  BY <1>1, <1>2, <1>3 DEF Handled

(* nor what it waits for.                                                  *)
LEMMA WaitingRemains ==
  ASSUME Inv, Inv', Numbers, Numbers', Onward, NEW t \in Threads, begun'[t] = begun[t],
         pc'[t] = "wait" => op'[Act(t)] # "none" \/ LostCalls' > 0 \/ Crowded'
  PROVE  Waiting(t)'
BY CausesRemain DEF Waiting

(* A step of client t: the service's executions are left alone. *)
Others(t) == \A u \in Threads : u # t => Idles(u)

LEMMA ClientStep ==
  ASSUME Inv, Inv', CauseInv, NEW t \in Threads, Onward, Numbers', ServerKept, Others(t),
         Doing(t)', Handled(t)', Waiting(t)'
  PROVE  CauseInv'
<1>1. handler' = handler /\ op' = op /\ attempt' = attempt /\ cast' = cast
  BY DEF ServerKept
<1>2. Numbers /\ \A u \in Threads : Doing(u) /\ Handled(u) /\ Waiting(u)
  BY DEF CauseInv
<1>3. ASSUME NEW u \in Threads, u # t
      PROVE  Doing(u)' /\ Handled(u)' /\ Waiting(u)'
  <2>1. Idles(u)
    BY <1>3 DEF Others
  <2>2. begun'[u] = begun[u] /\ pc'[u] = pc[u]
    BY <2>1 DEF Idles
  <2>3. Doing(u)'
    BY <1>2, <2>1, DoingRemains
  <2>4. Handled(u)'
    BY <1>1, <1>2, <2>2, HandledRemains
  <2>5. LostCalls <= LostCalls' /\ (Crowded => Crowded') /\ LostCalls \in Nat /\ LostCalls' \in Nat
    BY <1>2, <2>2, CausesRemain DEF Numbers
  <2>6. pc'[u] = "wait" => op'[Act(u)] # "none" \/ LostCalls' > 0 \/ Crowded'
    <3>1. LostCalls > 0 => LostCalls' > 0
      BY <2>5
    <3>2. pc[u] = "wait" => op[Act(u)] # "none" \/ LostCalls > 0 \/ Crowded
      BY <1>2 DEF Waiting
    <3> QED
      BY <1>1, <2>2, <2>5, <3>1, <3>2
  <2> QED
    BY <1>2, <2>2, <2>3, <2>4, <2>6, WaitingRemains
<1>4. Known(op)' \subseteq Involved'
  <2>1. \A u : Act(u)' = Act(u) /\ Role(u)' = Role(u)
    BY <1>1, RolesFixed
  <2>2. Known(op)' = Known(op) /\ Involved' = Involved
    BY <1>1, <2>1 DEF Known, Involved, Played
  <2> QED
    BY <2>2 DEF CauseInv
<1> QED
  BY <1>3, <1>4 DEF CauseInv

-----------------------------------------------------------------------------
(* Transfers. What there is after an upload of u has become one of v, or   *)
(* has ended. *)
LEMMA UploadGoesOn ==
  ASSUME NEW l \in Uploading, NEW n \in AfterUpload, NEW k \in Uploading \cup {n, "failed"},
         NEW u, NEW v, NEW H, NEW G, H \subseteq G, NEW s, NEW a, NEW r,
         k # "failed" => Open(l, u) \subseteq G \cup Open(k, v),
         Reached(l, n, u, H, a), Nested(s, l, n, u, H, r)
  PROVE  Reached(k, n, v, G, a) /\ Nested(s, k, n, v, G, r)
<1>1. /\ At(l, n) = n
      /\ l \notin {"idle", "failed"}
      /\ n \notin CasLabels \cup {"idle", "failed", "available", "level"}
  BY DEF At, Uploading, CasLabels, AfterUpload
<1>2. CASE k = "failed"
  <2>1. At(k, n) = "failed" /\ "failed" \notin InTree
    BY <1>2 DEF At, CasLabels, InTree
  <2>2. Reached(k, n, v, G, a)
    BY <1>2, <2>1 DEF Reached
  <2>3. Nested(s, l, n, u, G, r)
    BY NestedGrows
  <2>4. Nested(s, k, n, v, G, r)
    BY <1>2, <2>1, <2>3 DEF Nested, InTree
  <2> QED
    BY <2>2, <2>4
<1>3. CASE k \in Uploading \cup {n}
  <2>1. At(k, n) = n /\ k # "failed" /\ k # "idle"
    BY <1>1, <1>3 DEF At, Uploading, CasLabels
  <2>2. Open(l, u) \subseteq G \cup Open(k, v)
    BY <2>1
  <2>3. Reached(k, n, v, G, a)
    BY <1>1, <2>1, <2>2 DEF Reached
  <2>4. Nested(s, l, n, u, G, r)
    BY NestedGrows
  <2>5. n = "nodes" => Covered(LastOf(s), G \cup Open(k, v))
    BY <1>1, <2>2, <2>4 DEF Nested, Covered
  <2>6. n = "add" => /\ Covered(LastOf(s), G \cup {LastOf(s).cur})
                     /\ SubTrees(LastOf(s).cur) \subseteq G \cup Open(k, v)
    BY <1>1, <2>2, <2>4 DEF Nested
  <2>7. n \notin InTree => s = <<>>
    BY <1>1, <2>4 DEF Nested
  <2>8. Nested(s, k, n, v, G, r)
    BY <1>1, <2>1, <2>4, <2>5, <2>6, <2>7 DEF Nested
  <2> QED
    BY <2>3, <2>8
<1> QED
  BY <1>2, <1>3

(* A query for u becomes one for v, or is answered by it. *)
LEMMA QueryGoesOn ==
  ASSUME NEW n \in AfterQuery, NEW k \in {"query", n},
         NEW u, NEW v, NEW H, NEW G, H \subseteq G, NEW s, NEW a, NEW r,
         u.blobs \subseteq G \cup v.blobs, v.blobs \subseteq u.blobs,
         Reached("query", n, u, H, a), Nested(s, "query", n, u, H, r)
  PROVE  Reached(k, n, v, G, a) /\ Nested(s, k, n, v, G, r)
<1>1. /\ At("query", n) = n /\ At(k, n) = n /\ n \in {"available", "level"} /\ k # "failed" /\ k # "idle"
      /\ "query" \notin Uploading /\ k \notin Uploading
  BY DEF At, CasLabels, AfterQuery, Uploading
<1>2. Reached(k, n, v, G, a)
  BY <1>1 DEF Reached, Open
<1>3. Nested(s, "query", n, u, G, r)
  BY NestedGrows
<1>4. Nested(s, k, n, v, G, r)
  BY <1>1, <1>3 DEF Nested
<1> QED
  BY <1>2, <1>4

(* The transfer of t becomes g, its label l, its attempts k. *)
Moves(t, l, g, k) ==
  /\ pc'[t] = l /\ up'[t] = g /\ tries' = [tries EXCEPT ![t] = k]
  /\ \A u \in Threads : u # t => pc'[u] = pc[u] /\ up'[u] = up[u]

(* What calls lost, and how often, leave of the numbers. *)
LEMMA NumbersFall ==
  ASSUME Inv, Numbers, cast' = cast, collections' \in Nat, limit' \in Nat, broken' \in Nat,
         trouble' \in Nat, trouble' <= trouble, begun' \in [Threads -> Nat], tries' \in [Threads -> Nat]
  PROVE  Numbers' /\ LostCalls' = LostCalls + (trouble - trouble') /\ LostCalls \in Nat
<1>1. LostCalls = Casts[cast].lost - trouble /\ LostCalls' = Casts[cast].lost - trouble'
  BY DEF LostCalls
<1>2. Casts[cast].lost \in Nat /\ trouble \in Nat /\ LostCalls \in Nat
  BY ExecutionAssumption, CasAssumption DEF Inv, Shape, Numbers
<1>3. LostCalls' = LostCalls + (trouble - trouble') /\ LostCalls' \in Nat
  BY <1>1, <1>2
<1> QED
  BY <1>2, <1>3 DEF Numbers

LEMMA TransferCause ==
  ASSUME Inv, Inv', CauseInv, NEW t \in Threads, pc[t] \in CasLabels, Around, then' = then,
         collections' = collections, limit' \in Nat, limit' <= limit, trouble' \in Nat, trouble' <= trouble,
         \A o \in Objects : age'[o] <= age[o],
         NEW l, NEW g, NEW k \in Nat, Moves(t, l, g, k), k <= LostCalls + (trouble - trouble'),
         pc[t] \in Uploading => /\ l \in Uploading \cup {then[t], "failed"}
                                /\ l # "failed" => Open(pc[t], up[t]) \subseteq Had(t)' \cup Open(l, g),
         pc[t] = "query" => l \in {"query", then[t]} /\ g.blobs \subseteq up[t].blobs /\ up[t].blobs \subseteq Had(t)' \cup g.blobs,
         Transferred(g, l, Had(t)', Act(t), limit'),
         l = "failed" => Caused(t)',
         l = "batch" => g.blobs = g.left \cup g.updated \/ Tired(t)',
         l = "single" => Tired(t)' /\ (g.failed = TRUE => Caused(t)')
  PROVE  CauseInv'
<1>1. /\ handler' = handler /\ op' = op /\ attempt' = attempt /\ cast' = cast /\ stack' = stack
      /\ begun' = begun /\ broken' = broken /\ ServerKept
  BY AroundKept DEF Around, clientVars, ServiceUnchanged, serviceVars, ServerKept
<1>2. Numbers /\ Doing(t) /\ Handled(t)
  BY DEF CauseInv
<1>3. pc'[t] = l /\ up'[t] = g /\ tries' \in [Threads -> Nat] /\ tries'[t] = k
  BY <1>2 DEF Moves, Numbers
<1>4. Numbers' /\ LostCalls' = LostCalls + (trouble - trouble')
  BY <1>1, <1>2, <1>3, NumbersFall DEF Numbers
<1>5. Onward
  <2>1. broken \in Nat /\ collections \in Nat
    BY <1>2 DEF Numbers
  <2>2. ASSUME NEW o \in Objects
        PROVE  age'[o] + collections' <= age[o] + collections
    <3>1. age[o] \in Nat /\ age'[o] \in Nat /\ age'[o] <= age[o]
      BY CasAssumption DEF Inv, AgesInv, Ages
    <3> QED
      BY <2>1, <3>1
  <2> QED
    BY <1>1, <2>1, <2>2 DEF Onward
<1>6. /\ Had(t) \subseteq Had(t)' /\ Role(t)' = Role(t) /\ Act(t)' = Act(t)
  BY <1>1, <1>2, <1>4, <1>5, CausesRemain
<1>7. Role(t) = "build" /\ (pc[t] = "query" \/ pc[t] \in Uploading)
  <2>1. /\ PlaysRole(Role(t), pc[t], then[t])
        /\ Role(t) \in {"none", "build", "wait", "sync"}
        /\ Role(t) # "sync"
    BY <1>2, ActionTyped, NotSync DEF Doing, Inv, CasLabels, SyncPCs
  <2> QED
    BY <2>1 DEF PlaysRole, CasLabels, Uploading
<1>8. /\ Reached(pc[t], then[t], up[t], Had(t), Act(t))
      /\ Nested(stack[t], pc[t], then[t], up[t], Had(t), InputRoot[Act(t)])
      /\ PlaysRole(Role(t), pc[t], then[t]) /\ collections <= begun[t]
  BY <1>2, <1>7 DEF Doing
<1>9. /\ Reached(l, then[t], g, Had(t)', Act(t))
      /\ Nested(stack[t], l, then[t], g, Had(t)', InputRoot[Act(t)])
  <2>1. CASE pc[t] = "query"
    <3>1. /\ then[t] \in AfterQuery /\ l \in {"query", then[t]}
          /\ g.blobs \subseteq up[t].blobs /\ up[t].blobs \subseteq Had(t)' \cup g.blobs
      BY <1>8, <2>1 DEF PlaysRole
    <3>2. /\ Reached("query", then[t], up[t], Had(t), Act(t))
          /\ Nested(stack[t], "query", then[t], up[t], Had(t), InputRoot[Act(t)])
      BY <1>8, <2>1
    <3> QED
      BY <1>6, <3>1, <3>2, QueryGoesOn
  <2>2. CASE pc[t] \in Uploading
    <3>1. then[t] \in AfterUpload /\ l \in Uploading \cup {then[t], "failed"}
      BY <1>8, <2>2 DEF PlaysRole
    <3>2. l # "failed" => Open(pc[t], up[t]) \subseteq Had(t)' \cup Open(l, g)
      BY <2>2
    <3> QED
      BY <1>6, <1>8, <2>2, <3>1, <3>2, UploadGoesOn
  <2> QED
    BY <1>7, <2>1, <2>2
<1>10. PlaysRole("build", l, then[t]) /\ l # "execute" /\ l # "wait"
  BY <1>7, <1>8 DEF PlaysRole, CasLabels, Uploading, AfterQuery, AfterUpload
<1>11. Doing(t)'
  <2>1. collections' <= begun'[t] /\ tries'[t] <= LostCalls'
    BY <1>1, <1>3, <1>4, <1>8
  <2>2. Blamed(t)'
    BY <1>3, <1>6, <1>7 DEF Blamed
  <2> QED
    BY <1>1, <1>3, <1>6, <1>7, <1>9, <1>10, <2>1, <2>2 DEF Doing
<1>12. Others(t)
  BY <1>1, <1>2 DEF Others, Idles, Moves, Numbers
<1>13. Handled(t)'
  BY <1>1, <1>2, <1>3, <1>4, <1>5, <1>10, HandledRemains
<1>14. Waiting(t)'
  BY <1>3, <1>10 DEF Waiting
<1> QED
  BY <1>1, <1>4, <1>5, <1>11, <1>12, <1>13, <1>14, ClientStep

(* What is known of a transfer. *)
LEMMA TransferKnown ==
  ASSUME Inv, CauseInv, NEW t \in Threads, pc[t] \in CasLabels
  PROVE  /\ Transferred(up[t], pc[t], Had(t), Act(t), limit) /\ Blamed(t) /\ Numbers
         /\ Act(t) \in Actions /\ Needs(Act(t)) \subseteq Objects
         /\ up[t].blobs \subseteq Objects /\ up[t].left \subseteq Objects /\ up[t].batch \subseteq Objects
         /\ (pc[t] = "query" => then[t] \in AfterQuery) /\ (pc[t] # "query" => then[t] \in AfterUpload)
         /\ tries[t] \in Nat /\ tries[t] <= LostCalls /\ collections <= begun[t]
<1>1. Numbers /\ Doing(t)
  BY DEF CauseInv
<1>2. PlaysRole(Role(t), pc[t], then[t]) /\ Role(t) \in {"none", "build", "wait", "sync"} /\ Role(t) # "sync"
  BY <1>1, ActionTyped, NotSync DEF Doing, Inv, CasLabels, SyncPCs
<1>3. Role(t) = "build" /\ (pc[t] = "query" => then[t] \in AfterQuery) /\ (pc[t] # "query" => then[t] \in AfterUpload)
  BY <1>2 DEF PlaysRole, CasLabels, Uploading
<1>4. Act(t) \in Actions
  BY ActionTyped DEF Inv
<1> QED
  BY <1>1, <1>3, <1>4, NeedsTyped, TransferTyped DEF Doing, Numbers

(* With younger objects, there is at least as much to rely on. *)
LEMMA HadGrows ==
  ASSUME Inv, Inv', Numbers, NEW t \in Threads, \A o \in Objects : age'[o] <= age[o],
         collections' = collections, begun' = begun
  PROVE  Had(t) \subseteq Had(t)'
<1> SUFFICES ASSUME NEW o \in Objects, age[o] + collections <= begun[t]
             PROVE  age'[o] + collections' <= begun'[t]
  BY DEF Had
<1>1. age[o] \in Nat /\ age'[o] \in Nat /\ age'[o] <= age[o] /\ collections \in Nat /\ begun[t] \in Nat
  BY CasAssumption DEF Inv, AgesInv, Ages, Numbers
<1> QED
  BY <1>1

(* Looking objects up, or storing them, leaves nothing older, *)
LEMMA UplinkedFalls ==
  ASSUME NEW a \in Ages, NEW S \in SUBSET Objects
  PROVE  /\ \A o \in Objects : Uplinked(S, a)[o] <= a[o]
         /\ \A o \in S : a[o] < Generations => \A x \in Below[o] : a[x] < Generations => Uplinked(S, a)[x] = 0
<1>1. \A o \in Objects : a[o] \in Nat /\ Uplinked(S, a)[o] \in {0, a[o]}
  BY CasAssumption DEF Uplinked, Ages
<1>2. \A o \in Objects : Uplinked(S, a)[o] <= a[o]
  <2> SUFFICES ASSUME NEW o \in Objects
               PROVE  Uplinked(S, a)[o] <= a[o]
    OBVIOUS
  <2>1. a[o] \in Nat /\ (Uplinked(S, a)[o] = 0 \/ Uplinked(S, a)[o] = a[o])
    BY <1>1
  <2> QED
    BY <2>1
<1>3. ASSUME NEW o \in S, a[o] < Generations, NEW x \in Below[o], a[x] < Generations
      PROVE  Uplinked(S, a)[x] = 0
  <2>1. x \in Objects
    BY BelowFacts
  <2> QED
    BY <1>3, <2>1 DEF Uplinked
<1> QED
  BY <1>2, <1>3

LEMMA StoredFalls ==
  ASSUME NEW a \in Ages, NEW S \in SUBSET Objects
  PROVE  /\ \A o \in Objects : Stored(S, a)[o] <= a[o]
         /\ \A o \in S : Stored(S, a)[o] = 0
<1>1. UNION {Entries[x] : x \in S} \in SUBSET Objects
  BY CasAssumption
<1>2. \A o \in Objects : Uplinked(UNION {Entries[x] : x \in S}, a)[o] <= a[o]
  BY <1>1, UplinkedFalls
<1>3. \A o \in Objects : a[o] \in Nat
  BY CasAssumption DEF Ages
<1>4. \A o \in Objects : Stored(S, a)[o] = IF o \in S THEN 0 ELSE Uplinked(UNION {Entries[x] : x \in S}, a)[o]
  BY DEF Stored
<1>5. ASSUME NEW o \in Objects
      PROVE  Stored(S, a)[o] <= a[o]
  <2>1. Stored(S, a)[o] = 0 \/ Stored(S, a)[o] = Uplinked(UNION {Entries[x] : x \in S}, a)[o]
    BY <1>4
  <2> QED
    BY <1>2, <1>3, <2>1
<1> QED
  BY <1>4, <1>5

(* and what is young can be relied on. *)
LEMMA YoungIsHad ==
  ASSUME Numbers, NEW t \in Threads, NEW o \in Objects, age'[o] = 0,
         collections' = collections, begun' = begun, collections <= begun[t]
  PROVE  o \in Had(t)'
BY DEF Had, Numbers

(* What t can rely on is in the CAS, unless that was collected too often.  *)
LEMMA HadIsThere ==
  ASSUME Inv, Numbers, NEW t \in Threads, NEW o \in Had(t)
  PROVE  InCas(o) \/ begun[t] - collections >= Generations
<1>1. /\ age[o] \in Nat /\ collections \in Nat /\ begun[t] \in Nat /\ Generations \in Nat
      /\ age[o] + collections <= begun[t]
  BY CasAssumption DEF Inv, AgesInv, Ages, Numbers, Had
<1> QED
  BY <1>1 DEF InCas

(* What was lost before counts. *)
LEMMA NoLess ==
  ASSUME NEW x \in Nat, NEW y \in Nat, NEW z \in Nat, z <= y
  PROVE  0 <= x + (y - z)
OBVIOUS

(* All that is missing remains to be uploaded. *)
LEMMA MissingCause ==
  ASSUME Inv, Inv', CauseInv, NEW t \in Threads, pc[t] \in {"find", "query"}, Around,
         collections' = collections, limit' = limit, trouble' \in Nat, trouble' <= trouble,
         \A o \in Objects : age'[o] <= age[o],
         NEW S \in SUBSET up[t].blobs, Missing(t, S), up[t].blobs \ S \subseteq Had(t)'
  PROVE  CauseInv'
<1>0. 0 \in Nat /\ 0 <= LostCalls + (trouble - trouble') /\ limit' \in Nat /\ limit' <= limit
  <2>1. LostCalls \in Nat /\ trouble \in Nat /\ limit \in Nat
    BY DEF CauseInv, Numbers
  <2>2. 0 <= LostCalls + (trouble - trouble')
    BY <2>1, NoLess
  <2>3. limit' \in Nat /\ limit' <= limit
    BY <2>1
  <2> QED
    BY <2>2, <2>3
<1> DEFINE L == IF pc[t] = "find" THEN S ELSE {}
           g == [NoTransfer EXCEPT !.blobs = S, !.left = L]
           l == IF pc[t] = "query" \/ S = {} THEN then[t] ELSE "large"
<1>1. /\ Transferred(up[t], pc[t], Had(t), Act(t), limit) /\ Numbers /\ pc[t] \in CasLabels
      /\ (pc[t] = "query" => then[t] \in AfterQuery) /\ (pc[t] # "query" => then[t] \in AfterUpload)
  BY TransferKnown DEF CasLabels
<1>2. Moves(t, l, g, 0) /\ then' = then
  BY <1>1 DEF Missing, Goto, Moves, Inv, Shape, Numbers
<1>3. Had(t) \subseteq Had(t)'
  BY <1>1, HadGrows DEF Around, clientVars
<1>4. g.blobs = S /\ g.left = L /\ g.batch = {} /\ g.updated = {} /\ g.failed = FALSE
  BY DEF NoTransfer
<1> HIDE DEF g
<1>5. then[t] \notin Uploading \cup {"failed"}
  BY <1>1 DEF AfterQuery, AfterUpload, Uploading
<1>6. Transferred(g, l, Had(t)', Act(t), limit')
  <2>1. S \subseteq Needs(Act(t)) /\ L \subseteq S
    BY <1>1 DEF Transferred
  <2>2. l # "batch" /\ l # "single"
    BY <1>5 DEF Uploading
  <2>3. l = "large" => L = S
    BY <1>5 DEF Uploading
  <2>4. l \in Uploading => Ready(S, Had(t)')
    <3>1. l \in Uploading => pc[t] \in Uploading
      BY <1>5 DEF Uploading
    <3> QED
      BY <1>1, <1>3, <3>1 DEF Transferred, Ready
  <2> QED
    BY <1>4, <2>1, <2>2, <2>3, <2>4 DEF Transferred
<1>7. pc[t] \in Uploading => /\ l \in Uploading \cup {then[t], "failed"}
                             /\ l # "failed" => Open(pc[t], up[t]) \subseteq Had(t)' \cup Open(l, g)
  <2> SUFFICES ASSUME pc[t] \in Uploading
               PROVE  /\ l \in Uploading \cup {then[t], "failed"}
                      /\ Open(pc[t], up[t]) \subseteq Had(t)' \cup Open(l, g)
    OBVIOUS
  <2>1. l = IF S = {} THEN then[t] ELSE "large"
    BY DEF Uploading
  <2>2. Open(pc[t], up[t]) \subseteq up[t].blobs /\ (S # {} => Open(l, g) = S)
    BY <1>4, <2>1 DEF Open, Uploading
  <2> QED
    BY <2>1, <2>2 DEF Uploading
<1>8. pc[t] = "query" => l \in {"query", then[t]} /\ g.blobs \subseteq up[t].blobs /\ up[t].blobs \subseteq Had(t)' \cup g.blobs
  BY <1>4
<1>9. l # "failed" /\ l # "batch" /\ l # "single"
  BY <1>5 DEF Uploading
<1> HIDE DEF l
<1> QED
  BY <1>1, <1>2, <1>6, <1>7, <1>8, <1>9, <1>0, TransferCause

LEMMA FindMissingBlobsCause ==
  ASSUME Inv, Inv', CauseInv, NEW t \in Threads, Around, FindMissingBlobs(t)
  PROVE  CauseInv'
<1> DEFINE S == {o \in up[t].blobs : ~InCas(o)}
<1>1. /\ pc[t] \in {"find", "query"} /\ Missing(t, S) /\ age' = Uplinked(up[t].blobs, age)
      /\ collections' = collections /\ limit' = limit /\ trouble' = trouble
  BY DEF FindMissingBlobs
<1>2. Numbers /\ up[t].blobs \in SUBSET Objects /\ collections <= begun[t] /\ age \in Ages
  BY <1>1, TransferKnown DEF CasLabels, Inv, AgesInv
<1>3. \A o \in Objects : age'[o] <= age[o]
  BY <1>1, <1>2, UplinkedFalls
<1>4. ASSUME NEW o \in up[t].blobs \ S
      PROVE  o \in Had(t)'
  <2>1. o \in Objects /\ o \in Below[o] /\ age[o] < Generations
    BY <1>2, <1>4, BelowFacts DEF InCas
  <2>2. age'[o] = 0
    BY <1>1, <1>2, <2>1, UplinkedFalls
  <2> QED
    BY <1>1, <1>2, <2>1, <2>2, YoungIsHad DEF Around, clientVars
<1>5. trouble' \in Nat /\ trouble' <= trouble
  BY <1>1, <1>2 DEF Numbers
<1>6. up[t].blobs \ S \subseteq Had(t)' /\ S \in SUBSET up[t].blobs
  BY <1>4
<1> HIDE DEF S
<1> QED
  BY <1>1, <1>3, <1>5, <1>6, MissingCause

LEMMA FindMissingLostCause ==
  ASSUME Inv, Inv', CauseInv, NEW t \in Threads, Around, FindMissingLost(t)
  PROVE  CauseInv'
<1>1. /\ pc[t] \in {"find", "query"} /\ trouble >= 1 /\ trouble' = trouble - 1
      /\ age' = age /\ collections' = collections /\ limit' = limit
  BY DEF FindMissingLost, Lose, casVars
<1>2. /\ Numbers
      /\ up[t].blobs \in SUBSET Objects
      /\ tries[t] \in Nat
      /\ tries[t] <= LostCalls
      /\ pc[t] \in CasLabels
      /\ Transferred(up[t], pc[t], Had(t), Act(t), limit)
  BY <1>1, TransferKnown DEF CasLabels
<1>3. /\ trouble' \in Nat
      /\ trouble' <= trouble
      /\ LostCalls + (trouble - trouble') = LostCalls + 1
      /\ LostCalls \in Nat
  BY <1>1, <1>2 DEF Numbers
<1>4. \A o \in Objects : age'[o] <= age[o]
  BY <1>1, CasAssumption DEF Inv, AgesInv, Ages
<1>5. CASE Missing(t, up[t].blobs)
  <2>1. up[t].blobs \ up[t].blobs \subseteq Had(t)'
    OBVIOUS
  <2> QED
    BY <1>1, <1>3, <1>4, <1>5, <2>1, MissingCause
<1>6. CASE tries' = [tries EXCEPT ![t] = @ + 1] /\ UNCHANGED <<pc, then, up>>
  <2>1. tries[t] + 1 \in Nat /\ tries[t] + 1 <= LostCalls + (trouble - trouble')
    BY <1>2, <1>3
  <2>2. Moves(t, pc[t], up[t], tries[t] + 1) /\ then' = then
    BY <1>6 DEF Moves
  <2>3. Had(t) \subseteq Had(t)'
    BY <1>1, <1>2, <1>4, HadGrows DEF Around, clientVars
  <2>4. limit' \in Nat /\ limit' <= limit
    BY <1>1, <1>2 DEF Numbers
  <2>5. Transferred(up[t], pc[t], Had(t)', Act(t), limit')
    BY <1>1, <1>2, <2>3, <2>4, TransferredGrows DEF Numbers
  <2>6. pc[t] # "failed" /\ pc[t] # "batch" /\ pc[t] # "single"
    BY <1>1
  <2> QED
    BY <1>1, <1>2, <1>3, <1>4, <2>1, <2>2, <2>4, <2>5, <2>6, TransferCause
<1> QED
  BY <1>5, <1>6 DEF FindMissingLost


(* What remains when a step of a transfer changes the state, *)
LEMMA TransferOnward ==
  ASSUME Inv, Inv', CauseInv, NEW t \in Threads, Around,
         collections' = collections, limit' \in Nat, limit' <= limit, trouble' \in Nat, trouble' <= trouble,
         \A o \in Objects : age'[o] <= age[o], tries' \in [Threads -> Nat]
  PROVE  /\ Onward
         /\ Numbers'
         /\ LostCalls \in Nat
         /\ LostCalls' \in Nat
         /\ LostCalls' = LostCalls + (trouble - trouble')
         /\ Had(t) \subseteq Had(t)' /\ (Tired(t) => Tired(t)') /\ (Caused(t) => Caused(t)')
         /\ (Fragile(t) => Fragile(t)') /\ begun' = begun
<1>1. cast' = cast /\ begun' = begun /\ broken' = broken /\ Numbers
  BY DEF Around, clientVars, ServiceUnchanged, serviceVars, CauseInv
<1>2. Numbers' /\ LostCalls' = LostCalls + (trouble - trouble')
  BY <1>1, NumbersFall DEF Numbers
<1>3. LostCalls \in Nat /\ LostCalls' \in Nat /\ broken \in Nat /\ collections \in Nat
  BY <1>1, <1>2 DEF Numbers
<1>4. ASSUME NEW o \in Objects
      PROVE  age'[o] + collections' <= age[o] + collections
  <2>1. age[o] \in Nat /\ age'[o] \in Nat /\ age'[o] <= age[o]
    BY CasAssumption DEF Inv, AgesInv, Ages
  <2> QED
    BY <1>3, <2>1
<1>5. Onward
  BY <1>1, <1>3, <1>4 DEF Onward
<1> QED
  BY <1>1, <1>2, <1>3, <1>5, CausesRemain

(* and what is a cause. *)
LEMMA IsCaused ==
  ASSUME NEW t \in Threads, LostCalls \in Nat,
         \/ begun[t] - collections >= Generations
         \/ LostCalls >= MaxAttempts
         \/ Fragile(t) /\ LostCalls >= 1
  PROVE  Caused(t)
<1>1. MaxAttempts \in Nat \ {0}
  BY CasAssumption
<1> QED
  BY <1>1 DEF Caused

LEMMA IsCausedThen ==
  ASSUME NEW t \in Threads, LostCalls' \in Nat,
         \/ begun'[t] - collections' >= Generations
         \/ LostCalls' >= MaxAttempts
         \/ Fragile(t)' /\ LostCalls' >= 1
  PROVE  Caused(t)'
<1>1. MaxAttempts \in Nat \ {0}
  BY CasAssumption
<1> QED
  BY <1>1 DEF Caused

(* Nothing is refused before the build root was collected too often. *)
LEMMA RefusedMeans ==
  ASSUME Inv, CauseInv, NEW t \in Threads, pc[t] \in Uploading, NEW o \in up[t].blobs, NEW S, Refused(o, S)
  PROVE  begun[t] - collections >= Generations
<1>1. Transferred(up[t], pc[t], Had(t), Act(t), limit) /\ Numbers
  BY TransferKnown DEF Uploading, CasLabels
<1>2. PICK e \in Entries[o] : ~InCas(e)
  BY DEF Refused
<1>3. e \in Had(t)
  BY <1>1, <1>2 DEF Transferred, Ready
<1> QED
  BY <1>1, <1>2, <1>3, HadIsThere

(* A blob goes by stream. *)
LEMMA UpdateSingleBlobCause ==
  ASSUME Inv, Inv', CauseInv, NEW t \in Threads, Around, limit' = limit,
         NEW o \in up[t].left, UpdateSingleBlob(t, o),
         pc[t] = "single" \/ (pc[t] = "large" /\ Size[o] > MaxGrpc)
  PROVE  CauseInv'
<1> DEFINE u == up[t]
<1>1. /\ Transferred(u, pc[t], Had(t), Act(t), limit) /\ Numbers /\ Blamed(t) /\ Act(t) \in Actions
      /\ pc[t] \in CasLabels /\ pc[t] \in Uploading /\ pc[t] \in {"large", "single"}
      /\ then[t] \in AfterUpload /\ tries[t] \in Nat /\ tries[t] <= LostCalls /\ collections <= begun[t]
      /\ Needs(Act(t)) \subseteq Objects
  BY TransferKnown DEF Uploading, CasLabels
<1>2. /\ u.left \subseteq u.blobs /\ u.batch = {} /\ u.updated = {} /\ u.blobs \subseteq Needs(Act(t))
      /\ Ready(u.blobs, Had(t)) /\ o \in u.blobs /\ o \in Objects
      /\ (pc[t] = "large" => u.left = u.blobs /\ u.failed = FALSE)
      /\ (pc[t] = "single" => u.failed \in BOOLEAN /\ (u.failed = FALSE => u.blobs = u.left))
  BY <1>1 DEF Transferred
<1>3. /\ DOMAIN u = {"blobs", "left", "batch", "updated", "max", "failed"}
      /\ DOMAIN up = Threads
      /\ DOMAIN pc = Threads
  BY DEF Inv, Shape, CallsTyped, TransferOK
<1>4. limit' \in Nat /\ limit' <= limit /\ tries \in [Threads -> Nat] /\ trouble \in Nat
  BY <1>1 DEF Numbers
<1>5. CASE /\ ~Refused(o, {}) /\ age' = Stored({o}, age) /\ UNCHANGED <<collections, trouble>>
           /\ up' = [up EXCEPT ![t].left = @ \ {o}, ![t].blobs = @ \ {o}] /\ UNCHANGED <<pc, then, tries>>
  <2> DEFINE g == [u EXCEPT !.left = @ \ {o}, !.blobs = @ \ {o}]
  <2>1. Moves(t, pc[t], g, tries[t])
    BY <1>3, <1>4, <1>5 DEF Moves
  <2>2. /\ g.left = u.left \ {o}
        /\ g.blobs = u.blobs \ {o}
        /\ g.batch = {}
        /\ g.updated = {}
        /\ g.failed = u.failed
    BY <1>2, <1>3
  <2> HIDE DEF g
  <2>3. (\A x \in Objects : age'[x] <= age[x]) /\ age'[o] = 0
    BY <1>2, <1>5, StoredFalls DEF Inv, AgesInv
  <2>4. /\ Had(t) \subseteq Had(t)' /\ (Tired(t) => Tired(t)') /\ (Caused(t) => Caused(t)') /\ begun' = begun
    <3>1. trouble' \in Nat /\ trouble' <= trouble /\ collections' = collections /\ tries' \in [Threads -> Nat]
      BY <1>4, <1>5
    <3> QED
      BY <1>4, <2>3, <3>1, TransferOnward
  <2>5. o \in Had(t)'
    BY <1>1, <1>2, <1>5, <2>3, <2>4, YoungIsHad
  <2>6. Transferred(g, pc[t], Had(t)', Act(t), limit')
    BY <1>1, <1>2, <2>2, <2>4 DEF Transferred, Ready
  <2>7. Open(pc[t], u) \subseteq Had(t)' \cup Open(pc[t], g)
    BY <1>1, <1>2, <2>2, <2>5 DEF Open
  <2>8. /\ pc[t] = "single" => Tired(t)' /\ (g.failed = TRUE => Caused(t)')
        /\ pc[t] # "failed" /\ pc[t] # "batch" /\ pc[t] # "query"
    BY <1>1, <2>2, <2>4 DEF Blamed
  <2>9. tries[t] <= LostCalls + (trouble - trouble') /\ trouble' \in Nat /\ trouble' <= trouble
    BY <1>1, <1>4, <1>5 DEF Numbers
  <2> QED
    BY <1>1, <1>4, <1>5, <2>1, <2>3, <2>6, <2>7, <2>8, <2>9, TransferCause
<1>6. CASE /\ Refused(o, {}) \/ trouble > 0
           /\ trouble' = IF Refused(o, {}) THEN trouble ELSE trouble - 1
           /\ IF pc[t] = "large"
              THEN Fail(t)
              ELSE /\ up' = [up EXCEPT ![t].left = @ \ {o}, ![t].failed = TRUE]
                   /\ UNCHANGED <<pc, then, tries>>
           /\ UNCHANGED casVars
  <2>1. /\ collections' = collections /\ age' = age /\ trouble' \in Nat /\ trouble' <= trouble
        /\ ~Refused(o, {}) => trouble - trouble' = 1
    BY <1>4, <1>6 DEF casVars
  <2>2. \A x \in Objects : age'[x] <= age[x]
    BY <2>1, CasAssumption DEF Inv, AgesInv, Ages
  <2>3. tries' \in [Threads -> Nat] /\ then' = then
    BY <1>4, <1>6 DEF Fail
  <2>4. /\ Had(t) \subseteq Had(t)' /\ (Tired(t) => Tired(t)') /\ (Caused(t) => Caused(t)') /\ begun' = begun
        /\ (Fragile(t) => Fragile(t)') /\ LostCalls \in Nat /\ LostCalls' \in Nat
        /\ LostCalls' = LostCalls + (trouble - trouble')
    BY <1>4, <2>1, <2>2, <2>3, TransferOnward
  <2>5. Caused(t)'
    <3>1. CASE Refused(o, {})
      <4>1. begun[t] - collections >= Generations
        BY <1>1, <1>2, <3>1, RefusedMeans
      <4> QED
        BY <2>1, <2>4, <4>1, IsCausedThen
    <3>2. CASE ~Refused(o, {})
      <4>1. LostCalls' = LostCalls + 1 /\ LostCalls' >= 1
        BY <2>1, <2>4, <3>2
      <4>2. CASE pc[t] = "large"
        <5>1. Size[o] > MaxGrpc /\ o \in Needs(Act(t))
          BY <1>2, <4>2
        <5>2. Fragile(t)
          BY <1>1, <5>1, FragileMeans DEF Numbers
        <5> QED
          BY <2>4, <4>1, <5>2, IsCausedThen
      <4>3. CASE pc[t] = "single"
        <5>1. Tired(t)'
          BY <1>1, <2>4, <4>3 DEF Blamed
        <5>2. begun'[t] - collections' >= Generations \/ Fragile(t)' \/ LostCalls' >= MaxAttempts
          BY <5>1 DEF Tired
        <5> QED
          BY <2>4, <4>1, <5>2, IsCausedThen
      <4> QED
        BY <1>1, <4>2, <4>3
    <3> QED
      BY <3>1, <3>2
  <2>6. CASE pc[t] = "large"
    <3>1. Moves(t, "failed", NoTransfer, 0)
      BY <1>3, <1>4, <1>6, <2>6 DEF Moves, Fail, Goto
    <3>2. Transferred(NoTransfer, "failed", Had(t)', Act(t), limit')
      BY DEF Transferred, NoTransfer, Uploading
    <3>3. 0 \in Nat /\ 0 <= LostCalls + (trouble - trouble')
      BY <2>4
    <3> QED
      BY <1>1, <1>4, <2>1, <2>2, <2>3, <2>5, <2>6, <3>1, <3>2, <3>3, TransferCause
  <2>7. CASE pc[t] = "single"
    <3> DEFINE g == [u EXCEPT !.left = @ \ {o}, !.failed = TRUE]
    <3>1. Moves(t, "single", g, tries[t])
      BY <1>3, <1>4, <1>6, <2>7 DEF Moves
    <3>2. g.left = u.left \ {o} /\ g.blobs = u.blobs /\ g.batch = {} /\ g.updated = {} /\ g.failed = TRUE
      BY <1>2, <1>3
    <3> HIDE DEF g
    <3>3. Transferred(g, "single", Had(t)', Act(t), limit')
      BY <1>1, <1>2, <2>4, <3>2 DEF Transferred, Ready
    <3>4. Open(pc[t], u) \subseteq Open("single", g) /\ "single" \in Uploading
      BY <1>2, <3>2 DEF Open, Uploading
    <3>5. Tired(t)'
      BY <1>1, <2>4, <2>7 DEF Blamed
    <3>6. tries[t] <= LostCalls + (trouble - trouble')
      BY <1>1, <1>4, <2>1, <2>4
    <3> QED
      BY <1>1, <1>4, <2>1, <2>2, <2>3, <2>5, <2>7, <3>1, <3>3, <3>4, <3>5, <3>6, TransferCause
  <2> QED
    BY <1>1, <2>6, <2>7
<1> QED
  BY <1>5, <1>6 DEF UpdateSingleBlob

(* Blobs too large for a message come first. *)
LEMMA UploadLargeCause ==
  ASSUME Inv, Inv', CauseInv, NEW t \in Threads, Around, UploadLarge(t)
  PROVE  CauseInv'
<1>1. pc[t] = "large" /\ limit' = limit /\ pc[t] \in Uploading
  BY DEF UploadLarge, Uploading
<1>2. CASE \E o \in up[t].left : Size[o] > MaxGrpc /\ UpdateSingleBlob(t, o)
  BY <1>1, <1>2, UpdateSingleBlobCause
<1>3. CASE /\ Goto(t, "batch") /\ up' = [up EXCEPT ![t].max = limit]
           /\ UNCHANGED <<then, tries, casVars, trouble>>
  <2> DEFINE u == up[t]
             g == [u EXCEPT !.max = limit]
  <2>1. /\ Transferred(u, "large", Had(t), Act(t), limit)
        /\ Numbers
        /\ tries[t] \in Nat
        /\ tries[t] <= LostCalls
        /\ then[t] \in AfterUpload
    BY <1>1, TransferKnown DEF CasLabels
  <2>2. /\ DOMAIN u = {"blobs", "left", "batch", "updated", "max", "failed"}
        /\ DOMAIN up = Threads
        /\ DOMAIN pc = Threads
    BY DEF Inv, Shape, CallsTyped, TransferOK
  <2>3. /\ limit \in Nat
        /\ limit <= limit
        /\ tries \in [Threads -> Nat]
        /\ trouble \in Nat
        /\ trouble <= trouble
        /\ trouble' = trouble /\ age' = age /\ collections' = collections /\ tries' = tries /\ then' = then
    BY <1>3, <2>1 DEF Numbers, casVars
  <2>4. Moves(t, "batch", g, tries[t])
    BY <1>3, <2>2, <2>3 DEF Moves, Goto
  <2>5. \A x \in Objects : age'[x] <= age[x]
    BY <2>3, CasAssumption DEF Inv, AgesInv, Ages
  <2>6. Had(t) \subseteq Had(t)'
    BY <1>1, <2>3, <2>5, TransferOnward
  <2>7. /\ g.left = u.left
        /\ g.blobs = u.blobs
        /\ g.batch = u.batch
        /\ g.updated = u.updated
        /\ g.failed = u.failed
        /\ g.max = limit
    BY <2>2
  <2> HIDE DEF g
  <2>8. /\ u.left = u.blobs /\ u.batch = {} /\ u.updated = {} /\ u.failed = FALSE
    BY <2>1 DEF Transferred
  <2>9. Transferred(g, "batch", Had(t)', Act(t), limit')
    BY <1>1, <2>1, <2>3, <2>6, <2>7, <2>8 DEF Transferred, Ready, Uploading
  <2>10. Open("large", u) = Open("batch", g) /\ "batch" \in Uploading
    BY <2>7 DEF Open, Uploading
  <2>11. tries[t] <= LostCalls + (trouble - trouble') /\ g.blobs = g.left \cup g.updated
    BY <2>1, <2>3, <2>7, <2>8 DEF Numbers
  <2>12. /\ limit' \in Nat
         /\ limit' <= limit
         /\ trouble' \in Nat
         /\ trouble' <= trouble
         /\ pc[t] \in CasLabels
         /\ "batch" # "failed" /\ "batch" # "single" /\ pc[t] # "query"
    BY <1>1, <2>3 DEF CasLabels
  <2> HIDE DEF u
  <2> QED
    BY <1>1, <2>1, <2>3, <2>4, <2>5, <2>9, <2>10, <2>11, <2>12, TransferCause DEF u
<1> QED
  BY <1>2, <1>3 DEF UploadLarge

(* A step of a transfer in batches, which goes on with g. *)
LEMMA BatchCause ==
  ASSUME Inv, Inv', CauseInv, NEW t \in Threads, pc[t] = "batch", Around, then' = then, pc' = pc,
         collections' = collections, limit' \in Nat, limit' <= limit, trouble' \in Nat, trouble' <= trouble,
         \A o \in Objects : age'[o] <= age[o],
         NEW g, up' = [up EXCEPT ![t] = g],
         NEW k \in Nat, tries' = [tries EXCEPT ![t] = k], k <= LostCalls + (trouble - trouble'),
         NEW S, S \subseteq Had(t)', S \subseteq up[t].blobs,
         g.blobs = up[t].blobs, g.left \subseteq up[t].left, g.batch \subseteq g.left,
         g.updated = up[t].updated \cup S, g.failed = up[t].failed,
         g.max \in Nat, limit' <= g.max, g.batch # {} => TotalSize(g.batch) <= g.max,
         up[t].left \subseteq g.left \cup S \/ Tired(t) \/ Tired(t)'
  PROVE  CauseInv'
<1> DEFINE u == up[t]
<1>1. /\ Transferred(u, "batch", Had(t), Act(t), limit) /\ Numbers /\ Blamed(t) /\ then[t] \in AfterUpload
      /\ pc[t] \in CasLabels /\ pc[t] \in Uploading
  BY TransferKnown DEF CasLabels, Uploading
<1>2. /\ u.left \subseteq u.blobs /\ u.updated \subseteq u.blobs /\ u.blobs \subseteq Needs(Act(t))
      /\ Ready(u.blobs, Had(t)) /\ u.failed = FALSE
  BY <1>1 DEF Transferred, Uploading
<1>3. DOMAIN up = Threads /\ DOMAIN pc = Threads /\ tries' \in [Threads -> Nat]
  BY <1>1 DEF Inv, Shape, Numbers
<1>4. Had(t) \subseteq Had(t)' /\ (Tired(t) => Tired(t)')
  BY <1>3, TransferOnward
<1>5. Moves(t, "batch", g, k)
  BY <1>3 DEF Moves
<1>6. Transferred(g, "batch", Had(t)', Act(t), limit')
  <2>1. /\ g.left \subseteq g.blobs
        /\ g.batch \subseteq g.left
        /\ g.updated \subseteq g.blobs
        /\ g.blobs \subseteq Needs(Act(t))
    BY <1>2
  <2>2. Ready(g.blobs, Had(t)') /\ g.failed = FALSE
    BY <1>2, <1>4 DEF Ready
  <2> QED
    BY <2>1, <2>2 DEF Transferred
<1>7. Open("batch", u) \subseteq Had(t)' \cup Open("batch", g) /\ "batch" \in Uploading
  BY DEF Open, Uploading
<1>8. g.blobs = g.left \cup g.updated \/ Tired(t)'
  <2>1. u.blobs = u.left \cup u.updated \/ Tired(t)
    BY <1>1 DEF Blamed
  <2>2. CASE u.blobs = u.left \cup u.updated /\ u.left \subseteq g.left \cup S
    BY <1>2, <2>2
  <2> QED
    BY <1>4, <2>1, <2>2
<1> QED
  BY <1>1, <1>5, <1>6, <1>7, <1>8, TransferCause

(* What is known of a transfer in batches. *)
LEMMA BatchKnown ==
  ASSUME Inv, CauseInv, NEW t \in Threads, pc[t] = "batch"
  PROVE  /\ DOMAIN up[t] = {"blobs", "left", "batch", "updated", "max", "failed"}
         /\ Numbers
         /\ tries[t] \in Nat
         /\ tries[t] <= LostCalls
         /\ LostCalls \in Nat
         /\ trouble \in Nat
         /\ limit \in Nat
         /\ tries = [tries EXCEPT ![t] = tries[t]] /\ collections <= begun[t]
         /\ up[t].max \in Nat
         /\ limit <= up[t].max
         /\ up[t].batch \subseteq up[t].left
         /\ up[t].left \subseteq up[t].blobs
         /\ (up[t].batch # {} => TotalSize(up[t].batch) <= up[t].max)
         /\ up[t].blobs \subseteq Needs(Act(t)) /\ Act(t) \in Actions
         /\ up[t].blobs \in SUBSET Objects /\ up[t].batch \in SUBSET Objects
         /\ TotalSize(up[t].batch) \in Nat
<1>1. /\ Transferred(up[t], "batch", Had(t), Act(t), limit)
      /\ Numbers
      /\ tries[t] \in Nat
      /\ tries[t] <= LostCalls
      /\ Act(t) \in Actions /\ collections <= begun[t]
      /\ up[t].blobs \subseteq Objects /\ up[t].batch \subseteq Objects
  BY TransferKnown DEF CasLabels
<1>2. DOMAIN up[t] = {"blobs", "left", "batch", "updated", "max", "failed"}
  BY DEF Inv, CallsTyped, TransferOK
<1>3. IsFiniteSet(up[t].batch)
  BY <1>1, FS_Subset, CasAssumption
<1>4. TotalSize(up[t].batch) \in Nat
  BY <1>1, <1>3, SizesAdd
<1>5. tries = [tries EXCEPT ![t] = tries[t]]
  BY <1>1 DEF Numbers
<1>6. /\ up[t].max \in Nat
      /\ limit <= up[t].max
      /\ up[t].batch \subseteq up[t].left
      /\ up[t].left \subseteq up[t].blobs
      /\ (up[t].batch # {} => TotalSize(up[t].batch) <= up[t].max)
      /\ up[t].blobs \subseteq Needs(Act(t))
  BY <1>1 DEF Transferred
<1> QED
  BY <1>1, <1>2, <1>4, <1>5, <1>6 DEF Numbers

LEMMA InitRequestCause ==
  ASSUME Inv, Inv', CauseInv, NEW t \in Threads, Around, InitRequest(t)
  PROVE  CauseInv'
<1> DEFINE u == up[t]
           fits(S) == TotalSize(S) <= u.max /\ TotalSize(S) <= MaxGrpc
<1>1. /\ pc[t] = "batch" /\ u.batch = {} /\ UNCHANGED <<casVars, limit, trouble, pc, then, tries>>
  BY DEF InitRequest
<1>2. /\ DOMAIN u = {"blobs", "left", "batch", "updated", "max", "failed"}
      /\ Numbers
      /\ tries[t] \in Nat
      /\ tries[t] <= LostCalls
      /\ LostCalls \in Nat
      /\ trouble \in Nat
      /\ limit \in Nat
      /\ tries = [tries EXCEPT ![t] = tries[t]]
      /\ u.max \in Nat /\ limit <= u.max /\ u.batch \subseteq u.left /\ u.left \subseteq u.blobs
      /\ u.blobs \subseteq Needs(Act(t)) /\ Act(t) \in Actions
      /\ u.blobs \in SUBSET Objects
  BY <1>1, BatchKnown
<1>3. /\ limit' \in Nat
      /\ limit' <= limit
      /\ trouble' \in Nat
      /\ trouble' <= trouble
      /\ collections' = collections
      /\ limit' <= u.max
      /\ tries[t] <= LostCalls + (trouble - trouble')
      /\ tries' = [tries EXCEPT ![t] = tries[t]]
      /\ age' = age
  BY <1>1, <1>2 DEF casVars
<1>4. \A x \in Objects : age'[x] <= age[x]
  BY <1>3, CasAssumption DEF Inv, AgesInv, Ages
<1>5. \/ \E S \in (SUBSET u.left) \ {{}} : fits(S) /\ up' = [up EXCEPT ![t].batch = S]
      \/ \E o \in u.left : ~fits({o}) /\ up' = [up EXCEPT ![t].left = @ \ {o}]
  BY DEF InitRequest
<1>6. ASSUME NEW S \in (SUBSET u.left) \ {{}}, fits(S), up' = [up EXCEPT ![t].batch = S]
      PROVE  CauseInv'
  <2> DEFINE g == [u EXCEPT !.batch = S]
  <2>1. up' = [up EXCEPT ![t] = g]
    BY <1>6
  <2>2. /\ g.left = u.left
        /\ g.blobs = u.blobs
        /\ g.batch = S
        /\ g.updated = u.updated \cup {}
        /\ g.failed = u.failed
        /\ g.max = u.max
    BY <1>2
  <2>3. TotalSize(S) <= u.max
    BY <1>6
  <2> HIDE DEF g
  <2>4. /\ g.left \subseteq u.left /\ g.batch \subseteq g.left /\ g.max \in Nat /\ limit' <= g.max
        /\ (g.batch # {} => TotalSize(g.batch) <= g.max) /\ u.left \subseteq g.left \cup {}
    BY <1>2, <1>3, <2>2, <2>3
  <2>5. {} \subseteq Had(t)' /\ {} \subseteq u.blobs /\ pc' = pc /\ then' = then
    BY <1>1
  <2> QED
    BY <1>1, <1>2, <1>3, <1>4, <2>1, <2>2, <2>4, <2>5, BatchCause
<1>7. ASSUME NEW o \in u.left, ~fits({o}), up' = [up EXCEPT ![t].left = @ \ {o}]
      PROVE  CauseInv'
  <2> DEFINE g == [u EXCEPT !.left = @ \ {o}]
  <2>1. up' = [up EXCEPT ![t] = g]
    BY <1>7
  <2>2. /\ g.left = u.left \ {o}
        /\ g.blobs = u.blobs
        /\ g.batch = {}
        /\ g.updated = u.updated \cup {}
        /\ g.failed = u.failed
        /\ g.max = u.max
    BY <1>1, <1>2
  <2> HIDE DEF g
  <2>3. o \in Objects /\ o \in Needs(Act(t)) /\ TotalSize({o}) = Size[o] /\ Size[o] \in Nat /\ MaxGrpc \in Nat
    BY <1>2, SizeOfOne, CasAssumption
  <2>4. Size[o] > u.max \/ Size[o] > MaxGrpc
    BY <1>2, <1>7, <2>3
  <2>5. Size[o] > limit \/ Size[o] > MaxGrpc
    BY <1>2, <2>3, <2>4
  <2>6. Tired(t)
    BY <1>2, <2>3, <2>5, FragileMeans DEF Tired
  <2>7. /\ g.left \subseteq u.left /\ g.batch \subseteq g.left /\ g.max \in Nat /\ limit' <= g.max
        /\ (g.batch # {} => TotalSize(g.batch) <= g.max)
    BY <1>2, <1>3, <2>2
  <2>8. {} \subseteq Had(t)' /\ {} \subseteq u.blobs /\ pc' = pc /\ then' = then
    BY <1>1
  <2> QED
    BY <1>1, <1>2, <1>3, <1>4, <2>1, <2>2, <2>6, <2>7, <2>8, BatchCause
<1> QED
  BY <1>5, <1>6, <1>7

(* A batch is settled, of which S was updated. *)
LEMMA BatchedCause ==
  ASSUME Inv, Inv', CauseInv, NEW t \in Threads, pc[t] = "batch", Around,
         collections' = collections, limit' = limit, trouble' \in Nat, trouble' <= trouble,
         \A o \in Objects : age'[o] <= age[o],
         NEW S, S \subseteq up[t].batch, Batched(t, S), S \subseteq Had(t)',
         S = up[t].batch \/ Tired(t) \/ Tired(t)'
  PROVE  CauseInv'
<1> DEFINE u == up[t]
           g == [u EXCEPT !.left = @ \ u.batch, !.batch = {}, !.updated = @ \cup S]
<1>1. /\ DOMAIN u = {"blobs", "left", "batch", "updated", "max", "failed"}
      /\ LostCalls \in Nat /\ trouble \in Nat /\ limit \in Nat
      /\ u.max \in Nat /\ limit <= u.max /\ u.batch \subseteq u.left /\ u.left \subseteq u.blobs
  BY BatchKnown
<1>2. up' = [up EXCEPT ![t] = g] /\ tries' = [tries EXCEPT ![t] = 0] /\ pc' = pc /\ then' = then
  BY DEF Batched
<1>3. /\ g.left = u.left \ u.batch
      /\ g.blobs = u.blobs
      /\ g.batch = {}
      /\ g.updated = u.updated \cup S
      /\ g.failed = u.failed
      /\ g.max = u.max
  BY <1>1
<1> HIDE DEF g
<1>4. limit' \in Nat /\ limit' <= limit /\ limit' <= u.max
  BY <1>1
<1>5. 0 \in Nat /\ 0 <= LostCalls + (trouble - trouble')
  BY <1>1, NoLess
<1>6. u.left \subseteq g.left \cup S \/ Tired(t) \/ Tired(t)'
  BY <1>3
<1> QED
  BY <1>1, <1>2, <1>3, <1>4, <1>5, <1>6, BatchCause

LEMMA BatchAcceptedCause ==
  ASSUME Inv, Inv', CauseInv, NEW t \in Threads, Around, BatchAccepted(t)
  PROVE  CauseInv'
<1> DEFINE u == up[t]
<1>1. pc[t] = "batch" /\ UNCHANGED <<collections, limit, trouble>>
  BY DEF BatchAccepted
<1>2. /\ LostCalls \in Nat /\ trouble \in Nat /\ limit \in Nat /\ Numbers /\ collections <= begun[t]
      /\ u.batch \subseteq u.left /\ u.left \subseteq u.blobs /\ u.batch \in SUBSET Objects
  BY <1>1, BatchKnown
<1>3. PICK S \in SUBSET u.batch :
        /\ S # u.batch => \E o \in u.batch \ S : Refused(o, S)
        /\ age' = Stored(S, age) /\ Batched(t, IF S = u.batch THEN S ELSE {})
  BY DEF BatchAccepted
<1>4. (\A x \in Objects : age'[x] <= age[x]) /\ \A x \in S : age'[x] = 0
  BY <1>2, <1>3, StoredFalls DEF Inv, AgesInv
<1>5. trouble' \in Nat /\ trouble' <= trouble /\ begun' = begun
  BY <1>1, <1>2 DEF Around, clientVars
<1>6. CASE S = u.batch
  <2>1. S \subseteq Had(t)'
    BY <1>1, <1>2, <1>4, <1>5, <1>6, YoungIsHad
  <2> QED
    BY <1>1, <1>3, <1>4, <1>5, <1>6, <2>1, BatchedCause
<1>7. CASE S # u.batch
  <2>1. PICK o \in u.batch \ S : Refused(o, S)
    BY <1>3, <1>7
  <2>2. begun[t] - collections >= Generations
    BY <1>1, <1>2, <2>1, RefusedMeans DEF Uploading
  <2>3. Tired(t) /\ Batched(t, {})
    BY <1>3, <1>7, <2>2 DEF Tired
  <2> QED
    BY <1>1, <1>4, <1>5, <2>3, BatchedCause
<1> QED
  BY <1>6, <1>7

(* What a reduction leads to is a number no less than the limit will be. *)
LEMMA ReducedFacts ==
  ASSUME Inv, CauseInv, NEW t \in Threads, pc[t] = "batch", up[t].batch # {}, TotalSize(up[t].batch) > ServerMax
  PROVE  /\ ReducedTo(t) = {} => Tired(t)
         /\ \A new \in ReducedTo(t) : new \in Nat /\ new <= limit
<1> DEFINE content == TotalSize(up[t].batch)
           max == up[t].max
           half == Min({max, content}) \div 2
           asked == Max({half, MinBatch})
<1>1. /\ content \in Nat /\ max \in Nat /\ content <= max /\ limit \in Nat /\ limit <= max
  BY BatchKnown
<1>2. ServerMax \in Nat /\ MinBatch \in Nat
  BY CasAssumption
<1>3. ReducedTo(t) = IF content <= MinBatch THEN {} ELSE IF asked < limit THEN {asked}
                     ELSE IF limit < max THEN {limit} ELSE {}
  BY DEF ReducedTo
<1>4. Min({max, content}) = content
  <2>1. Min({max, content}) = IF max < content THEN max ELSE content
    BY <1>1, MinOfTwo
  <2> HIDE DEF max, content
  <2> QED
    BY <1>1, <2>1
<1>5. half \in Nat /\ (content > 0 => half < content)
  <2>1. \A n \in Nat : n \div 2 \in Nat /\ (n > 0 => n \div 2 < n)
    OBVIOUS
  <2> QED
    BY <1>1, <1>4, <2>1
<1>6. asked = IF half < MinBatch THEN MinBatch ELSE half
  BY <1>2, <1>5, MaxOfTwo
<1>7. content > ServerMax
  OBVIOUS
<1>8. Numbers
  BY DEF CauseInv
<1> HIDE DEF content, max, half, asked
<1>9. asked \in Nat
  BY <1>2, <1>5, <1>6
<1>10. ASSUME ReducedTo(t) = {}
       PROVE  Tired(t)
  <2>1. content <= MinBatch \/ (~(asked < limit) /\ ~(limit < max))
    BY <1>3, <1>10
  <2>2. CASE content <= MinBatch
    <3>1. ServerMax < MinBatch
      BY <1>1, <1>2, <1>7, <2>2
    <3> QED
      BY <3>1 DEF Tired, Fragile
  <2>3. CASE content > MinBatch /\ ~(asked < limit) /\ ~(limit < max)
    <3>1. limit = max /\ asked >= max
      BY <1>1, <1>9, <2>3
    <3>2. half < content /\ asked < content
      BY <1>1, <1>2, <1>5, <1>6, <2>3
    <3> QED
      BY <1>1, <1>9, <3>1, <3>2
  <2> QED
    BY <1>1, <1>2, <2>1, <2>2, <2>3
<1>11. ASSUME NEW new \in ReducedTo(t)
       PROVE  new \in Nat /\ new <= limit
  <2>1. (new = asked /\ asked < limit) \/ new = limit
    BY <1>3, <1>11
  <2> QED
    BY <1>1, <1>9, <2>1
<1> QED
  BY <1>10, <1>11

LEMMA BatchTooLargeCause ==
  ASSUME Inv, Inv', CauseInv, NEW t \in Threads, Around, BatchTooLarge(t)
  PROVE  CauseInv'
<1> DEFINE u == up[t]
<1>1. /\ pc[t] = "batch" /\ u.batch # {} /\ TotalSize(u.batch) > ServerMax
      /\ collections' = collections /\ age' = age /\ trouble' = trouble
  BY DEF BatchTooLarge, casVars
<1>2. /\ DOMAIN u = {"blobs", "left", "batch", "updated", "max", "failed"}
      /\ LostCalls \in Nat /\ trouble \in Nat /\ limit \in Nat
      /\ u.batch \subseteq u.left /\ u.left \subseteq u.blobs
  BY <1>1, BatchKnown
<1>3. trouble' \in Nat /\ trouble' <= trouble
  BY <1>1, <1>2
<1>4. \A x \in Objects : age'[x] <= age[x]
  BY <1>1, CasAssumption DEF Inv, AgesInv, Ages
<1>5. CASE ReducedTo(t) = {}
  <2>1. Tired(t) /\ Batched(t, {}) /\ limit' = limit
    BY <1>1, <1>5, ReducedFacts DEF BatchTooLarge
  <2>2. {} \subseteq u.batch /\ {} \subseteq Had(t)'
    OBVIOUS
  <2> QED
    BY <1>1, <1>3, <1>4, <2>1, <2>2, BatchedCause
<1>6. CASE ReducedTo(t) # {}
  <2>1. PICK new \in ReducedTo(t) :
          /\ limit' = Min({limit, new}) /\ up' = [up EXCEPT ![t].max = new, ![t].batch = {}]
          /\ tries' = [tries EXCEPT ![t] = 0] /\ pc' = pc /\ then' = then
    BY <1>6 DEF BatchTooLarge
  <2>2. new \in Nat /\ new <= limit
    BY <1>1, <2>1, ReducedFacts
  <2>3. limit' = IF limit < new THEN limit ELSE new
    BY <1>2, <2>1, <2>2, MinOfTwo
  <2>4. limit' \in Nat /\ limit' <= limit /\ limit' <= new
    BY <1>2, <2>2, <2>3
  <2> DEFINE g == [u EXCEPT !.max = new, !.batch = {}]
  <2>5. up' = [up EXCEPT ![t] = g]
    BY <2>1
  <2>6. /\ g.left = u.left
        /\ g.blobs = u.blobs
        /\ g.batch = {}
        /\ g.updated = u.updated \cup {}
        /\ g.failed = u.failed
        /\ g.max = new
    BY <1>2
  <2> HIDE DEF g
  <2>7. /\ g.left \subseteq u.left /\ g.batch \subseteq g.left /\ g.max \in Nat /\ limit' <= g.max
        /\ (g.batch # {} => TotalSize(g.batch) <= g.max) /\ u.left \subseteq g.left \cup {}
    BY <2>2, <2>4, <2>6
  <2>8. {} \subseteq Had(t)' /\ {} \subseteq u.blobs /\ 0 \in Nat /\ 0 <= LostCalls + (trouble - trouble')
    BY <1>2, <1>3, NoLess
  <2> QED
    BY <1>1, <1>3, <1>4, <2>1, <2>4, <2>5, <2>6, <2>7, <2>8, BatchCause
<1> QED
  BY <1>5, <1>6

LEMMA BatchLostCause ==
  ASSUME Inv, Inv', CauseInv, NEW t \in Threads, Around, BatchLost(t)
  PROVE  CauseInv'
<1> DEFINE u == up[t]
<1>1. /\ pc[t] = "batch" /\ u.batch # {} /\ trouble >= 1 /\ trouble' = trouble - 1
      /\ collections' = collections /\ limit' = limit
  BY DEF BatchLost, Lose
<1>2. /\ DOMAIN u = {"blobs", "left", "batch", "updated", "max", "failed"}
      /\ LostCalls \in Nat /\ trouble \in Nat /\ limit \in Nat /\ tries[t] \in Nat /\ tries[t] <= LostCalls
      /\ u.max \in Nat /\ limit <= u.max
      /\ u.batch \subseteq u.left /\ u.left \subseteq u.blobs /\ u.batch \in SUBSET Objects
      /\ TotalSize(u.batch) <= u.max /\ Numbers
  BY <1>1, BatchKnown
<1>3. trouble' \in Nat /\ trouble' <= trouble /\ trouble - trouble' = 1
  BY <1>1, <1>2
<1>4. \A x \in Objects : age'[x] <= age[x]
  <2>1. CASE age' = age
    BY <2>1, CasAssumption DEF Inv, AgesInv, Ages
  <2>2. CASE age' = Stored(u.batch, age)
    BY <1>2, <2>2, StoredFalls DEF Inv, AgesInv
  <2> QED
    BY <2>1, <2>2 DEF BatchLost
<1>5. CASE tries[t] + 1 < MaxAttempts
  <2>1. tries' = [tries EXCEPT ![t] = tries[t] + 1] /\ pc' = pc /\ then' = then /\ up' = up
    BY <1>5 DEF BatchLost
  <2>2. Moves(t, "batch", u, tries[t] + 1)
    BY <1>1, <2>1 DEF Moves
  <2>3. tries[t] + 1 \in Nat /\ tries[t] + 1 <= LostCalls + (trouble - trouble')
    <3>1. \A a, l \in Nat : a <= l => a + 1 \in Nat /\ a + 1 <= l + 1
      OBVIOUS
    <3>2. tries[t] \in Nat /\ LostCalls \in Nat /\ tries[t] <= LostCalls
      BY <1>2
    <3>3. tries[t] + 1 \in Nat /\ tries[t] + 1 <= LostCalls + 1
      BY <3>1, <3>2
    <3> QED BY <1>3, <3>3
  <2>4. limit' \in Nat /\ limit' <= limit /\ tries' \in [Threads -> Nat]
    BY <1>1, <1>2, <2>1 DEF Numbers
  <2>5. /\ Transferred(u, "batch", Had(t), Act(t), limit)
        /\ Blamed(t)
        /\ then[t] \in AfterUpload
        /\ pc[t] \in CasLabels
    BY <1>1, TransferKnown DEF CasLabels
  <2>6. Had(t) \subseteq Had(t)' /\ (Tired(t) => Tired(t)')
    BY <1>1, <1>3, <1>4, <2>4, TransferOnward
  <2>7. Transferred(u, "batch", Had(t)', Act(t), limit')
    BY <1>1, <1>2, <2>4, <2>5, <2>6, TransferredGrows
  <2>8. u.blobs = u.left \cup u.updated \/ Tired(t)'
    BY <1>1, <2>5, <2>6 DEF Blamed
  <2>9. "batch" \in Uploading /\ Open(pc[t], u) \subseteq Had(t)' \cup Open("batch", u)
    BY <1>1 DEF Uploading
  <2> HIDE DEF u
  <2> QED
    BY <1>1, <1>3, <1>4, <2>1, <2>2, <2>3, <2>4, <2>5, <2>7, <2>8, <2>9, TransferCause DEF u
<1>6. CASE ~(tries[t] + 1 < MaxAttempts)
  <2>1. Batched(t, {})
    BY <1>6 DEF BatchLost
  <2>2. tries' \in [Threads -> Nat]
    BY <1>2, <2>1 DEF Batched, Numbers
  <2>3. LostCalls' = LostCalls + (trouble - trouble') /\ LostCalls' \in Nat
    <3>1. limit' \in Nat /\ limit' <= limit
      BY <1>1, <1>2
    <3> QED
      BY <1>1, <1>3, <1>4, <2>2, <3>1, TransferOnward
  <2>4. LostCalls' >= MaxAttempts
    <3>1. MaxAttempts \in Nat
      BY CasAssumption
    <3> QED
      BY <1>2, <1>3, <1>6, <2>3, <3>1
  <2>5. Tired(t)'
    BY <2>4 DEF Tired
  <2>6. {} \subseteq u.batch /\ {} \subseteq Had(t)'
    OBVIOUS
  <2> QED
    BY <1>1, <1>3, <1>4, <2>1, <2>5, <2>6, BatchedCause
<1> QED
  BY <1>5, <1>6

LEMMA BatchesDoneCause ==
  ASSUME Inv, Inv', CauseInv, NEW t \in Threads, Around, BatchesDone(t)
  PROVE  CauseInv'
<1> DEFINE u == up[t]
           missing == u.blobs \ u.updated
           g == [NoTransfer EXCEPT !.blobs = missing, !.left = missing, !.max = limit]
<1>1. /\ pc[t] = "batch" /\ pc[t] \in Uploading /\ u.left = {}
      /\ collections' = collections /\ limit' = limit /\ trouble' = trouble /\ age' = age
  BY DEF BatchesDone, casVars, Uploading
<1>2. /\ LostCalls \in Nat /\ trouble \in Nat /\ limit \in Nat /\ tries[t] \in Nat /\ tries[t] <= LostCalls
      /\ tries = [tries EXCEPT ![t] = tries[t]] /\ u.blobs \subseteq Needs(Act(t)) /\ Numbers
  BY <1>1, BatchKnown
<1>3. /\ Transferred(u, "batch", Had(t), Act(t), limit)
      /\ Blamed(t)
      /\ then[t] \in AfterUpload
      /\ pc[t] \in CasLabels
  BY <1>1, TransferKnown DEF CasLabels
<1>4. /\ limit' \in Nat /\ limit' <= limit /\ trouble' \in Nat /\ trouble' <= trouble
      /\ tries[t] <= LostCalls + (trouble - trouble') /\ 0 <= LostCalls + (trouble - trouble')
  BY <1>1, <1>2
<1>5. \A x \in Objects : age'[x] <= age[x]
  BY <1>1, CasAssumption DEF Inv, AgesInv, Ages
<1>6. DOMAIN up = Threads /\ DOMAIN pc = Threads /\ tries' \in [Threads -> Nat]
  BY <1>2 DEF Inv, Shape, Numbers, BatchesDone, Finish
<1>7. Had(t) \subseteq Had(t)' /\ (Tired(t) => Tired(t)')
  BY <1>1, <1>4, <1>5, <1>6, TransferOnward
<1>8. CASE missing = {}
  <2>1. Finish(t)
    BY <1>8 DEF BatchesDone
  <2>2. Moves(t, then[t], NoTransfer, 0) /\ then' = then
    BY <1>6, <2>1 DEF Finish, Goto, Moves
  <2>3. then[t] \notin Uploading \cup {"failed"}
    BY <1>3 DEF AfterUpload, Uploading
  <2>4. Transferred(NoTransfer, then[t], Had(t)', Act(t), limit')
    BY <2>3 DEF Transferred, NoTransfer, Uploading
  <2>5. Open("batch", u) = {} /\ 0 \in Nat /\ pc[t] # "query" /\ then[t] # "batch" /\ then[t] # "single"
    BY <1>1, <1>8, <2>3 DEF Open, Uploading
  <2> QED
    BY <1>1, <1>3, <1>4, <1>5, <2>2, <2>3, <2>4, <2>5, TransferCause
<1>9. CASE missing # {}
  <2> DEFINE l == IF u.updated = {} THEN "single" ELSE "batch"
  <2>1. Moves(t, l, g, tries[t]) /\ then' = then
    BY <1>1, <1>2, <1>6, <1>9 DEF BatchesDone, Goto, Moves
  <2>2. /\ g.left = missing
        /\ g.blobs = missing
        /\ g.batch = {}
        /\ g.updated = {}
        /\ g.failed = FALSE
        /\ g.max = limit
    BY DEF NoTransfer
  <2> HIDE DEF g
  <2>3. missing \subseteq Needs(Act(t)) /\ Ready(missing, Had(t)')
    BY <1>2, <1>3, <1>7 DEF Transferred, Ready, Uploading
  <2>4. Transferred(g, l, Had(t)', Act(t), limit')
    <3>1. l # "large" /\ l # "batch" => l = "single"
      OBVIOUS
    <3>2. limit' <= g.max /\ g.max \in Nat
      BY <1>2, <1>4, <2>2, <1>1
    <3> HIDE DEF l
    <3> QED
      BY <2>2, <2>3, <3>1, <3>2 DEF Transferred
  <2>5. l \in Uploading /\ l # "failed" /\ Open("batch", u) = missing /\ Open(l, g) = missing
    BY <2>2 DEF Open, Uploading
  <2>6. l = "single" => Tired(t)'
    <3> SUFFICES ASSUME u.updated = {}
                 PROVE  Tired(t)
      BY <1>7
    <3>1. u.blobs # u.left \cup u.updated
      BY <1>1, <1>9
    <3> QED
      BY <1>1, <1>3, <3>1 DEF Blamed
  <2>7. g.blobs = g.left \cup g.updated /\ g.failed # TRUE
    BY <2>2
  <2> HIDE DEF l, missing
  <2> QED
    BY <1>1, <1>2, <1>3, <1>4, <1>5, <2>1, <2>4, <2>5, <2>6, <2>7, TransferCause
<1> QED
  BY <1>8, <1>9

LEMMA SequentiallyCause ==
  ASSUME Inv, Inv', CauseInv, NEW t \in Threads, Around, Sequentially(t)
  PROVE  CauseInv'
<1> DEFINE u == up[t]
<1>1. pc[t] = "single" /\ pc[t] \in Uploading /\ limit' = limit
  BY DEF Sequentially, Uploading
<1>2. CASE \E o \in u.left : UpdateSingleBlob(t, o)
  BY <1>1, <1>2, UpdateSingleBlobCause
<1>3. CASE u.left = {} /\ (IF u.failed THEN Fail(t) ELSE Finish(t)) /\ UNCHANGED <<casVars, trouble>>
  <2>1. /\ Transferred(u, "single", Had(t), Act(t), limit)
        /\ Blamed(t)
        /\ then[t] \in AfterUpload
        /\ pc[t] \in CasLabels
        /\ Numbers
    BY <1>1, TransferKnown DEF CasLabels
  <2>2. /\ LostCalls \in Nat /\ limit' \in Nat /\ limit' <= limit /\ trouble' \in Nat /\ trouble' <= trouble
        /\ collections' = collections /\ age' = age /\ 0 <= LostCalls + (trouble - trouble')
    BY <1>1, <1>3, <2>1 DEF Numbers, casVars
  <2>3. \A x \in Objects : age'[x] <= age[x]
    BY <2>2, CasAssumption DEF Inv, AgesInv, Ages
  <2>4. DOMAIN up = Threads /\ DOMAIN pc = Threads /\ tries' \in [Threads -> Nat] /\ then' = then
    <3>1. DOMAIN up = Threads /\ DOMAIN pc = Threads
      BY DEF Inv, Shape
    <3>2. tries' = [tries EXCEPT ![t] = 0] /\ then' = then
      BY <1>3, Zenon DEF Finish, Fail
    <3> QED
      BY <2>1, <3>1, <3>2 DEF Numbers
  <2>5. Had(t) \subseteq Had(t)' /\ (Caused(t) => Caused(t)')
    BY <2>2, <2>3, <2>4, TransferOnward
  <2>6. u.failed \in BOOLEAN /\ (u.failed = FALSE => u.blobs = u.left)
    BY <2>1 DEF Transferred
  <2>7. then[t] \notin Uploading \cup {"failed"}
    BY <2>1 DEF AfterUpload, Uploading
  <2> DEFINE l == IF u.failed THEN "failed" ELSE then[t]
  <2>8. Moves(t, l, NoTransfer, 0)
    BY <1>3, <2>4 DEF Finish, Fail, Goto, Moves
  <2>9. l \notin Uploading /\ l \in {then[t], "failed"} /\ (l = "failed" <=> u.failed = TRUE)
    BY <2>6, <2>7 DEF Uploading
  <2>10. l # "failed" => Open("single", u) = {}
    BY <1>3, <2>6, <2>9 DEF Open
  <2>11. l = "failed" => Caused(t)'
    BY <1>1, <2>1, <2>5, <2>9 DEF Blamed
  <2> HIDE DEF l
  <2>12. Transferred(NoTransfer, l, Had(t)', Act(t), limit')
    BY <2>9 DEF Transferred, NoTransfer, Uploading
  <2>13. /\ 0 \in Nat
         /\ pc[t] # "query"
         /\ l # "batch"
         /\ l # "single"
         /\ l \in Uploading \cup {then[t], "failed"}
    BY <1>1, <2>9 DEF Uploading
  <2> QED
    BY <1>1, <2>1, <2>2, <2>3, <2>4, <2>8, <2>10, <2>11, <2>12, <2>13, TransferCause
<1> QED
  BY <1>2, <1>3 DEF Sequentially

(* Every step of a transfer. *)
LEMMA EveryTransferCause ==
  ASSUME Inv, Inv', CauseInv, NEW t \in Threads, Around, Transfer(t) \/ TransferLost(t)
  PROVE  CauseInv'
BY FindMissingBlobsCause, FindMissingLostCause, UploadLargeCause, InitRequestCause, BatchAcceptedCause,
   BatchTooLargeCause, BatchLostCause, BatchesDoneCause, SequentiallyCause DEF Transfer, TransferLost

-----------------------------------------------------------------------------
(* A build goes on, with what there was before. *)
LEMMA BuildCause ==
  ASSUME Inv, Inv', CauseInv, NEW t \in Threads, Role(t) = "build", ServerKept, OthersKept(t),
         begun' = begun, broken' = broken, collections' = collections, limit' = limit,
         trouble' \in Nat, trouble' <= trouble, \A o \in Objects : age'[o] <= age[o],
         tries' = tries \/ tries' = [tries EXCEPT ![t] = 0],
         PlaysRole("build", pc'[t], then'[t]), pc'[t] \notin {"execute", "wait", "failed", "batch", "single"},
         Transferred(up'[t], pc'[t], Had(t), Act(t), limit),
         Reached(pc'[t], then'[t], up'[t], Had(t), Act(t)),
         Nested(stack'[t], pc'[t], then'[t], up'[t], Had(t), InputRoot[Act(t)])
  PROVE  CauseInv'
<1>1. handler' = handler /\ op' = op /\ attempt' = attempt /\ cast' = cast
  BY DEF ServerKept
<1>2. Numbers /\ Doing(t) /\ Handled(t) /\ tries \in [Threads -> Nat] /\ LostCalls \in Nat /\ limit \in Nat
  BY DEF CauseInv, Numbers
<1>3. tries' \in [Threads -> Nat] /\ (tries'[t] = tries[t] \/ tries'[t] = 0)
  BY <1>2
<1>4. Numbers' /\ LostCalls' \in Nat /\ broken \in Nat /\ collections \in Nat
  <2>1. limit' \in Nat /\ collections' \in Nat /\ broken' \in Nat /\ begun' \in [Threads -> Nat]
    BY <1>2 DEF Numbers
  <2>2. Numbers'
    BY <1>1, <1>2, <1>3, <2>1, NumbersFall
  <2> QED
    BY <1>2, <2>2 DEF Numbers
<1>5. Onward
  <2>1. ASSUME NEW o \in Objects
        PROVE  age'[o] + collections' <= age[o] + collections
    <3>1. age[o] \in Nat /\ age'[o] \in Nat /\ age'[o] <= age[o]
      BY CasAssumption DEF Inv, AgesInv, Ages
    <3> QED
      BY <1>4, <3>1
  <2>2. limit' <= limit /\ broken <= broken' /\ collections' <= collections
    BY <1>2, <1>4
  <2> QED
    BY <1>1, <2>1, <2>2 DEF Onward
<1>6. Had(t) \subseteq Had(t)' /\ Role(t)' = Role(t) /\ Act(t)' = Act(t) /\ LostCalls <= LostCalls'
  BY <1>2, <1>4, <1>5, CausesRemain
<1>7. /\ Transferred(up'[t], pc'[t], Had(t)', Act(t), limit')
      /\ Reached(pc'[t], then'[t], up'[t], Had(t)', Act(t))
      /\ Nested(stack'[t], pc'[t], then'[t], up'[t], Had(t)', InputRoot[Act(t)])
  <2>1. limit' \in Nat /\ limit' <= limit
    BY <1>2
  <2> QED
    BY <1>2, <1>6, <2>1, TransferredGrows, ReachedGrows, NestedGrows
<1>8. collections' <= begun'[t] /\ tries'[t] <= LostCalls'
  <2>1. collections <= begun[t] /\ tries[t] <= LostCalls /\ tries[t] \in Nat
    BY <1>2 DEF Doing
  <2>2. tries'[t] <= LostCalls'
    BY <1>2, <1>3, <1>4, <1>6, <2>1
  <2> QED
    BY <2>1, <2>2
<1>9. Blamed(t)'
  BY <1>6 DEF Blamed
<1>10. Doing(t)'
  BY <1>6, <1>7, <1>8, <1>9 DEF Doing
<1>11. Others(t)
  <2>1. \A u \in Threads : u # t => tries'[u] = tries[u]
    BY <1>2
  <2> QED
    BY <2>1 DEF Others, Idles, OthersKept
<1>12. Handled(t)'
  BY <1>1, <1>2, <1>4, <1>5, HandledRemains
<1>13. Waiting(t)'
  BY DEF Waiting
<1> QED
  BY <1>4, <1>5, <1>10, <1>11, <1>12, <1>13, ClientStep

(* The calls are closed where no tree is being uploaded. *)
LEMMA NestedEmpty ==
  ASSUME NEW l, NEW n, NEW u, NEW H, NEW r, At(l, n) \notin InTree
  PROVE  Nested(<<>>, l, n, u, H, r)
BY DEF Nested, InTree

(* It goes on by asking for S, *)
LEMMA QueryCause ==
  ASSUME Inv, Inv', CauseInv, NEW t \in Threads, Role(t) = "build", ServerKept,
         begun' = begun, broken' = broken, collections' = collections, limit' = limit,
         trouble' \in Nat, trouble' <= trouble, \A o \in Objects : age'[o] <= age[o],
         NEW S, S \subseteq Needs(Act(t)), NEW next \in AfterQuery, Query(t, S, next),
         NEW s, stack'[t] = s, DOMAIN stack' = Threads, \A u \in Threads : u # t => stack'[u] = stack[u],
         NEW v, v.blobs = S, Reached("query", next, v, Had(t), Act(t)),
         Nested(s, "query", next, v, Had(t), InputRoot[Act(t)])
  PROVE  CauseInv'
<1> DEFINE l == IF S = {} THEN next ELSE "query"
           g == [NoTransfer EXCEPT !.blobs = S]
<1>1. DOMAIN pc = Threads /\ DOMAIN then = Threads /\ DOMAIN up = Threads
  BY DEF Inv, Shape
<1>2. /\ pc' = [pc EXCEPT ![t] = l] /\ then' = [then EXCEPT ![t] = next] /\ up' = [up EXCEPT ![t] = g]
      /\ tries' = [tries EXCEPT ![t] = 0]
  BY DEF Query, Goto
<1>3. g.blobs = S /\ g.left = {} /\ g.batch = {} /\ g.updated = {} /\ g.failed = FALSE
  BY DEF NoTransfer
<1>4. l \in {"query", next}
  OBVIOUS
<1> HIDE DEF l, g
<1>5. pc'[t] = l /\ then'[t] = next /\ up'[t] = g /\ OthersKept(t)
  BY <1>1, <1>2 DEF OthersKept
<1>6. l \notin Uploading /\ l \in {"query", "available", "level"}
  BY <1>4 DEF AfterQuery, Uploading
<1>7. Transferred(g, l, Had(t), Act(t), limit)
  BY <1>3, <1>6 DEF Transferred, Uploading
<1>8. Reached(l, next, g, Had(t), Act(t)) /\ Nested(s, l, next, g, Had(t), InputRoot[Act(t)])
  <2>1. v.blobs \subseteq Had(t) \cup g.blobs /\ g.blobs \subseteq v.blobs
    BY <1>3
  <2> QED
    BY <1>4, <2>1, QueryGoesOn
<1>9. PlaysRole("build", l, next) /\ l \notin {"execute", "wait", "failed", "batch", "single"}
  BY <1>6 DEF PlaysRole, CasLabels, AfterQuery, Uploading
<1> QED
  BY <1>2, <1>5, <1>7, <1>8, <1>9, BuildCause

(* or by uploading it. *)
LEMMA UploadCause ==
  ASSUME Inv, Inv', CauseInv, NEW t \in Threads, Role(t) = "build", ServerKept,
         begun' = begun, broken' = broken, collections' = collections, limit' = limit,
         trouble' \in Nat, trouble' <= trouble, \A o \in Objects : age'[o] <= age[o],
         NEW S, S \subseteq Needs(Act(t)), Ready(S, Had(t)), NEW b \in BOOLEAN,
         NEW next \in AfterUpload, UploadBlobs(t, S, b, next),
         NEW s, stack'[t] = s, DOMAIN stack' = Threads, \A u \in Threads : u # t => stack'[u] = stack[u],
         NEW v, v.blobs = S, v.updated = {}, Reached("large", next, v, Had(t), Act(t)),
         Nested(s, "large", next, v, Had(t), InputRoot[Act(t)])
  PROVE  CauseInv'
<1> DEFINE l == IF S = {} THEN next ELSE IF b THEN "large" ELSE "find"
           L == IF b THEN S ELSE {}
           g == [NoTransfer EXCEPT !.blobs = S, !.left = L]
<1>1. DOMAIN pc = Threads /\ DOMAIN then = Threads /\ DOMAIN up = Threads
  BY DEF Inv, Shape
<1>2. /\ pc' = [pc EXCEPT ![t] = l] /\ then' = [then EXCEPT ![t] = next] /\ up' = [up EXCEPT ![t] = g]
      /\ tries' = [tries EXCEPT ![t] = 0]
  BY DEF UploadBlobs, Goto
<1>3. g.blobs = S /\ g.left = L /\ g.batch = {} /\ g.updated = {} /\ g.failed = FALSE
  BY DEF NoTransfer
<1>4. /\ l \in {"large", "find", next} /\ L \subseteq S /\ (l = "large" => L = S \/ next = "large")
      /\ S # {} => l \in {"large", "find"}
  OBVIOUS
<1> HIDE DEF l, g, L
<1>5. pc'[t] = l /\ then'[t] = next /\ up'[t] = g /\ OthersKept(t)
  BY <1>1, <1>2 DEF OthersKept
<1>6. next \notin Uploading \cup CasLabels \cup {"failed", "execute", "wait", "query"}
  BY DEF AfterUpload, Uploading, CasLabels
<1>7. l \in Uploading \cup {next, "failed"} /\ l # "failed" /\ l # "batch" /\ l # "single" /\ (l = "large" => L = S)
  BY <1>4, <1>6 DEF Uploading
<1>8. Transferred(g, l, Had(t), Act(t), limit)
  BY <1>3, <1>4, <1>7 DEF Transferred
<1>9. Open("large", v) \subseteq Had(t) \cup Open(l, g) /\ "large" \in Uploading
  BY <1>3, <1>4, <1>6 DEF Open, Uploading
<1>10. Reached(l, next, g, Had(t), Act(t)) /\ Nested(s, l, next, g, Had(t), InputRoot[Act(t)])
  BY <1>7, <1>9, UploadGoesOn
<1>11. PlaysRole("build", l, next) /\ l \notin {"execute", "wait", "failed", "batch", "single"}
  BY <1>4, <1>6 DEF PlaysRole, CasLabels, AfterUpload, Uploading
<1> QED
  BY <1>2, <1>5, <1>8, <1>10, <1>11, BuildCause

(* What is known of a build that uploads. *)
LEMMA BuildKnown ==
  ASSUME Inv, CauseInv, NEW t \in Threads, pc[t] \in AfterQuery \cup AfterUpload \cup {"execute"}
  PROVE  /\ Role(t) = "build" /\ Numbers /\ trouble \in Nat /\ limit \in Nat
         /\ PlaysRole("build", pc[t], then[t])
         /\ Transferred(up[t], pc[t], Had(t), Act(t), limit)
         /\ Reached(pc[t], then[t], up[t], Had(t), Act(t))
         /\ Nested(stack[t], pc[t], then[t], up[t], Had(t), InputRoot[Act(t)])
         /\ Act(t) \in Actions /\ InputRoot[Act(t)] \in Objects /\ Needs(Act(t)) \subseteq Objects
         /\ Leaves[Act(t)] \subseteq Had(t) /\ At(pc[t], then[t]) = pc[t] /\ Open(pc[t], up[t]) = {}
         /\ pc[t] \notin SyncPCs \cup CasLabels \cup {"idle", "ok", "failed"}
<1>1. Doing(t) /\ Numbers
  BY DEF CauseInv
<1>2. pc[t] \notin SyncPCs \cup CasLabels \cup Uploading \cup {"idle", "ok", "failed", "wait"}
  BY DEF AfterQuery, AfterUpload, SyncPCs, CasLabels, Uploading
<1>3. Act(t) \in Actions /\ Role(t) \in {"none", "build", "wait", "sync"} /\ Role(t) # "sync"
      /\ InputRoot[Act(t)] \in Objects
  BY <1>2, ActionTyped, NotSync DEF Inv
<1>4. Role(t) = "build"
  BY <1>1, <1>2, <1>3 DEF Doing, PlaysRole
<1>5. At(pc[t], then[t]) = pc[t] /\ Open(pc[t], up[t]) = {}
  BY <1>2 DEF At, Open
<1>6. Reached(pc[t], then[t], up[t], Had(t), Act(t))
  BY <1>1, <1>4 DEF Doing
<1>7. Leaves[Act(t)] \subseteq Had(t)
  BY <1>2, <1>5, <1>6 DEF Reached
<1> QED
  BY <1>1, <1>2, <1>3, <1>4, <1>5, <1>6, <1>7, NeedsTyped DEF Doing, Numbers

(* A step of the client alone leaves the rest as it is. *)
LEMMA ClientAlone ==
  ASSUME Inv, CauseInv, UNCHANGED <<casVars, limit, trouble>>, UNCHANGED clientVars, ServiceUnchanged
  PROVE  /\ ServerKept /\ begun' = begun /\ broken' = broken /\ collections' = collections /\ limit' = limit
         /\ trouble' \in Nat /\ trouble' <= trouble /\ \A o \in Objects : age'[o] <= age[o]
<1>1. /\ ServerKept /\ begun' = begun /\ broken' = broken /\ collections' = collections /\ limit' = limit
      /\ trouble' = trouble /\ age' = age
  BY ClientAround DEF clientVars, ServiceUnchanged, serviceVars, casVars
<1>2. trouble \in Nat
  BY DEF CauseInv, Numbers
<1>3. \A o \in Objects : age'[o] <= age[o]
  BY <1>1, CasAssumption DEF Inv, AgesInv, Ages
<1> QED
  BY <1>1, <1>2, <1>3

(* The root is asked for. *)
LEMMA UploadTreeCause ==
  ASSUME Inv, Inv', CauseInv, NEW t \in Threads, UNCHANGED clientVars, ServiceUnchanged,
         UploadTree(t, InputRoot[Act(t)])
  PROVE  CauseInv'
<1> DEFINE root == InputRoot[Act(t)]
           v == [NoTransfer EXCEPT !.blobs = {root}]
<1>1. /\ pc[t] = "tree"
      /\ UNCHANGED <<casVars, limit, trouble>>
      /\ stack' = stack
      /\ Query(t, {root}, "available")
  BY DEF UploadTree, transferVars
<1>2. /\ Role(t) = "build" /\ Leaves[Act(t)] \subseteq Had(t) /\ Act(t) \in Actions
      /\ Nested(stack[t], pc[t], then[t], up[t], Had(t), root) /\ At(pc[t], then[t]) = pc[t]
  BY <1>1, BuildKnown DEF AfterUpload
<1>3. stack[t] = <<>> /\ DOMAIN stack = Threads
  BY <1>1, <1>2 DEF Nested, InTree, Inv, Shape
<1>4. v.blobs = {root}
  BY DEF NoTransfer
<1> HIDE DEF v
<1>5. At("query", "available") = "available" /\ "available" \notin InTree
  BY DEF At, CasLabels, InTree
<1>6. Reached("query", "available", v, Had(t), Act(t))
  BY <1>2, <1>4, <1>5 DEF Reached
<1>7. Nested(<<>>, "query", "available", v, Had(t), root)
  BY <1>5, NestedEmpty
<1>8. {root} \subseteq Needs(Act(t)) /\ "available" \in AfterQuery
  BY <1>2, NeedsTyped DEF AfterQuery
<1>9. stack'[t] = <<>> /\ DOMAIN stack' = Threads /\ \A u \in Threads : u # t => stack'[u] = stack[u]
  BY <1>1, <1>3
<1> HIDE DEF root
<1> QED
  BY <1>1, <1>2, <1>4, <1>6, <1>7, <1>8, <1>9, ClientAlone, QueryCause DEF root

(* A frame that has just been opened. *)
Opened(o) == [node |-> o, todo |-> {}, cur |-> o, container |-> {}]

LEMMA OpenedWithin ==
  ASSUME NEW r \in Objects, NEW o \in Below[r], NEW H
  PROVE  /\ Within(Opened(o), H, r) /\ Opened(o).node = o /\ SubTrees(o) \subseteq Below[r]
         /\ Entries[o] \subseteq Below[r] /\ Opened(o) \in UploadFrame
<1>1. o \in Objects /\ Entries[o] \subseteq Below[r]
  BY BelowFacts DEF Closed
<1> QED
  BY <1>1 DEF Opened, Within, Ready, SubTrees, UploadFrame

(* The answer for the root. *)
LEMMA AvailableCause ==
  ASSUME Inv, Inv', CauseInv, NEW t \in Threads, UNCHANGED clientVars, ServiceUnchanged,
         Available(t, InputRoot[Act(t)])
  PROVE  CauseInv'
<1> DEFINE root == InputRoot[Act(t)]
<1>1. pc[t] = "available" /\ UNCHANGED <<casVars, limit, trouble>>
  BY DEF Available
<1>2. /\ Role(t) = "build" /\ Leaves[Act(t)] \subseteq Had(t) /\ Act(t) \in Actions /\ root \in Objects
      /\ Nested(stack[t], pc[t], then[t], up[t], Had(t), root) /\ At(pc[t], then[t]) = pc[t]
      /\ Reached(pc[t], then[t], up[t], Had(t), Act(t)) /\ PlaysRole("build", pc[t], then[t])
      /\ Transferred(up[t], pc[t], Had(t), Act(t), limit)
  BY <1>1, BuildKnown DEF AfterQuery
<1>3. stack[t] = <<>> /\ DOMAIN stack = Threads /\ DOMAIN pc = Threads /\ root \in Had(t) \cup up[t].blobs
  BY <1>1, <1>2 DEF Nested, Reached, InTree, Inv, Shape
<1>4. CASE up[t].blobs = {}
  <2>1. pc' = [pc EXCEPT ![t] = "uploaded"] /\ UNCHANGED <<stack, then, up, tries>>
    BY <1>4 DEF Available, Goto
  <2>2. At("uploaded", then[t]) = "uploaded" /\ "uploaded" \notin InTree \cup Uploading
    BY DEF At, CasLabels, InTree, Uploading
  <2>3. pc'[t] = "uploaded" /\ up'[t] = up[t] /\ then'[t] = then[t] /\ stack'[t] = <<>> /\ OthersKept(t)
    BY <1>3, <2>1 DEF OthersKept, Inv, Shape
  <2>4. Reached("uploaded", then[t], up[t], Had(t), Act(t))
    BY <1>2, <1>3, <1>4, <2>2 DEF Reached
  <2>5. Nested(<<>>, "uploaded", then[t], up[t], Had(t), root)
    BY <2>2, NestedEmpty
  <2>6. Transferred(up[t], "uploaded", Had(t), Act(t), limit)
    BY <1>1, <1>2, <2>2 DEF Transferred
  <2>7. PlaysRole("build", "uploaded", then[t])
    BY <1>2 DEF PlaysRole, AfterUpload, Uploading
  <2> QED
    BY <1>1, <1>2, <2>1, <2>3, <2>4, <2>5, <2>6, <2>7, ClientAlone, BuildCause
<1>5. CASE up[t].blobs # {}
  <2> DEFINE v == [NoTransfer EXCEPT !.blobs = SubTrees(root)]
             s == Append(<<>>, Opened(root))
  <2>1. Query(t, SubTrees(root), "level") /\ stack' = [stack EXCEPT ![t] = s]
    BY <1>3, <1>5 DEF Available, OpenNode, Push, Opened
  <2>2. v.blobs = SubTrees(root)
    BY DEF NoTransfer
  <2>3. /\ At("query", "level") = "level"
        /\ "level" \in AfterQuery
        /\ "level" \in InTree
        /\ "level" # "available"
    BY DEF At, CasLabels, InTree, AfterQuery
  <2>4. root \in Below[root] /\ Below[root] \subseteq Needs(Act(t))
    BY <1>2, NeedsTyped
  <2>5. Within(Opened(root), Had(t), root) /\ Opened(root).node = root /\ SubTrees(root) \subseteq Below[root]
    BY <1>2, <2>4, OpenedWithin
  <2>6. Len(s) = 1 /\ s[1] = Opened(root) /\ LastOf(s) = Opened(root)
    BY DEF LastOf
  <2> HIDE DEF v, s
  <2>7. Reached("query", "level", v, Had(t), Act(t))
    BY <1>2, <2>3 DEF Reached
  <2>8. Nested(s, "query", "level", v, Had(t), root)
    BY <2>2, <2>3, <2>5, <2>6 DEF Nested
  <2>9. stack'[t] = s /\ DOMAIN stack' = Threads /\ \A u \in Threads : u # t => stack'[u] = stack[u]
    BY <1>3, <2>1
  <2>10. SubTrees(root) \subseteq Needs(Act(t))
    BY <2>4, <2>5
  <2> QED
    BY <1>1, <1>2, <2>1, <2>2, <2>3, <2>7, <2>8, <2>9, <2>10, ClientAlone, QueryCause
<1> QED
  BY <1>4, <1>5

(* What is known of an upload of a tree. *)
LEMMA TreeKnown ==
  ASSUME Inv, CauseInv, NEW t \in Threads, pc[t] \in InTree
  PROVE  LET root == InputRoot[Act(t)]
             s == stack[t]
         IN /\ Role(t) = "build" /\ s \in Seq(UploadFrame) /\ DOMAIN stack = Threads /\ Len(s) \in Nat /\ Len(s) > 0
            /\ Top(t) = s[Len(s)] /\ LastOf(s) = Top(t) /\ Top(t) \in UploadFrame
            /\ Nested(s, pc[t], then[t], up[t], Had(t), root) /\ Within(Top(t), Had(t), root)
            /\ s[1].node = root /\ \A p \in 1 .. Len(s) : Within(s[p], Had(t), root)
            /\ \A p \in 1 .. Len(s) : p < Len(s) => s[p + 1].node = s[p].cur /\ Covered(s[p], Had(t) \cup {s[p].cur})
            /\ Act(t) \in Actions /\ root \in Objects /\ Leaves[Act(t)] \subseteq Had(t)
            /\ Below[root] \subseteq Needs(Act(t)) /\ Below[root] \subseteq Objects
<1>1. pc[t] \in AfterQuery \cup AfterUpload
  BY DEF InTree, AfterQuery, AfterUpload
<1>2. /\ Role(t) = "build" /\ Nested(stack[t], pc[t], then[t], up[t], Had(t), InputRoot[Act(t)])
      /\ Act(t) \in Actions /\ InputRoot[Act(t)] \in Objects /\ Leaves[Act(t)] \subseteq Had(t)
      /\ pc[t] \notin SyncPCs \cup {"idle", "ok", "failed"}
  BY <1>1, BuildKnown
<1>3. /\ stack[t] \in Seq(UploadFrame)
      /\ DOMAIN stack = Threads
      /\ Len(stack[t]) > 0
      /\ Top(t) \in UploadFrame
      /\ Top(t) = stack[t][Len(stack[t])] /\ LastOf(stack[t]) = Top(t) /\ Len(stack[t]) \in Nat
  BY <1>2, UploadCalls DEF Top, LastOf
<1>4. Below[InputRoot[Act(t)]] \subseteq Needs(Act(t)) /\ Below[InputRoot[Act(t)]] \subseteq Objects
  BY <1>2, NeedsTyped, BelowFacts
<1>5. /\ stack[t][1].node = InputRoot[Act(t)] /\ \A p \in 1 .. Len(stack[t]) : Within(stack[t][p], Had(t), InputRoot[Act(t)])
      /\ \A p \in 1 .. Len(stack[t]) : p < Len(stack[t]) =>
           stack[t][p + 1].node = stack[t][p].cur /\ Covered(stack[t][p], Had(t) \cup {stack[t][p].cur})
  BY <1>2, <1>3 DEF Nested
<1>6. Within(Top(t), Had(t), InputRoot[Act(t)])
  <2>1. Len(stack[t]) \in 1 .. Len(stack[t])
    BY <1>3
  <2> QED
    BY <1>3, <1>5, <2>1
<1> QED
  BY <1>2, <1>3, <1>4, <1>5, <1>6

(* The calls when the last one is changed to f, at label l. *)
LEMMA NestedSet ==
  ASSUME NEW s \in Seq(UploadFrame), Len(s) > 0, NEW f \in UploadFrame, NEW H, NEW r, NEW l, NEW n, NEW v,
         l # "failed", At(l, n) = "nodes", s[1].node = r,
         \A p \in 1 .. Len(s) : Within(s[p], H, r),
         \A p \in 1 .. Len(s) : p < Len(s) => s[p + 1].node = s[p].cur /\ Covered(s[p], H \cup {s[p].cur}),
         Within(f, H, r), f.node = s[Len(s)].node, Covered(f, H \cup Open(l, v))
  PROVE  Nested([s EXCEPT ![Len(s)] = f], l, n, v, H, r)
<1> DEFINE m == Len(s)
           q == [s EXCEPT ![m] = f]
<1>1. m \in Nat /\ m > 0
  OBVIOUS
<1>2. Len(q) = m /\ q[m] = f /\ \A p \in 1 .. m : p < m => q[p] = s[p]
  BY LastSet
<1> HIDE DEF q, m
<1>3. \A p \in 1 .. m : q[p].node = s[p].node
  <2> SUFFICES ASSUME NEW p \in 1 .. m
               PROVE  q[p].node = s[p].node
    OBVIOUS
  <2>1. CASE p = m
    BY <1>2, <2>1 DEF m
  <2>2. CASE p # m
    <3>1. p < m
      BY <1>1, <2>2
    <3> QED
      BY <1>2, <3>1
  <2> QED
    BY <2>1, <2>2
<1>4. q[1].node = r
  BY <1>1, <1>3
<1>5. \A p \in 1 .. m : Within(q[p], H, r)
  <2> SUFFICES ASSUME NEW p \in 1 .. m
               PROVE  Within(q[p], H, r)
    OBVIOUS
  <2>1. CASE p = m
    BY <1>2, <2>1
  <2>2. CASE p # m
    <3>1. p < m
      BY <1>1, <2>2
    <3> QED
      BY <1>2, <3>1 DEF m
  <2> QED
    BY <2>1, <2>2
<1>6. \A p \in 1 .. m : p < m => q[p + 1].node = q[p].cur /\ Covered(q[p], H \cup {q[p].cur})
  <2> SUFFICES ASSUME NEW p \in 1 .. m, p < m
               PROVE  q[p + 1].node = q[p].cur /\ Covered(q[p], H \cup {q[p].cur})
    OBVIOUS
  <2>1. p + 1 \in 1 .. m /\ q[p] = s[p]
    BY <1>1, <1>2
  <2>2. q[p + 1].node = s[p + 1].node /\ s[p + 1].node = s[p].cur /\ Covered(s[p], H \cup {s[p].cur})
    BY <1>3, <2>1 DEF m
  <2> QED
    BY <2>1, <2>2
<1>7. LastOf(q) = f
  BY <1>2 DEF LastOf
<1>8. Nested(q, l, n, v, H, r)
  BY <1>1, <1>2, <1>4, <1>5, <1>6, <1>7 DEF Nested, InTree
<1> QED
  BY <1>8 DEF q, m

(* The missing nodes of a level. *)
LEMMA LevelCause ==
  ASSUME Inv, Inv', CauseInv, NEW t \in Threads, UNCHANGED clientVars, ServiceUnchanged, Level(t)
  PROVE  CauseInv'
<1> DEFINE root == InputRoot[Act(t)]
           s == stack[t]
           f == [Top(t) EXCEPT !.todo = up[t].blobs]
           q == [s EXCEPT ![Len(s)] = f]
<1>1. /\ pc[t] = "level" /\ UNCHANGED <<casVars, limit, trouble>> /\ tries' = tries /\ then' = then
      /\ stack' = [stack EXCEPT ![t] = q]
      /\ pc' = [pc EXCEPT ![t] = "nodes"]
      /\ up' = [up EXCEPT ![t] = NoTransfer]
  BY DEF Level, SetTop, Goto
<1>2. /\ Role(t) = "build" /\ s \in Seq(UploadFrame) /\ DOMAIN stack = Threads /\ Len(s) > 0
      /\ Top(t) = s[Len(s)] /\ LastOf(s) = Top(t) /\ Top(t) \in UploadFrame
      /\ Nested(s, pc[t], then[t], up[t], Had(t), root) /\ Within(Top(t), Had(t), root)
      /\ s[1].node = root /\ \A p \in 1 .. Len(s) : Within(s[p], Had(t), root)
      /\ \A p \in 1 .. Len(s) : p < Len(s) => s[p + 1].node = s[p].cur /\ Covered(s[p], Had(t) \cup {s[p].cur})
      /\ Act(t) \in Actions /\ Leaves[Act(t)] \subseteq Had(t) /\ Below[root] \subseteq Objects
  BY <1>1, TreeKnown DEF InTree
<1>3. up[t].blobs \subseteq Below[root] /\ SubTrees(Top(t).node) \subseteq Had(t) \cup up[t].blobs
  BY <1>1, <1>2 DEF Nested, At, CasLabels
<1>4. f.node = Top(t).node /\ f.todo = up[t].blobs /\ f.cur = Top(t).cur /\ f.container = Top(t).container
      /\ f \in UploadFrame
  BY <1>2, <1>3 DEF UploadFrame
<1>5. At("nodes", then[t]) = "nodes" /\ "nodes" \notin Uploading \cup CasLabels
  BY DEF At, CasLabels, Uploading
<1>6. Within(f, Had(t), root) /\ Covered(f, Had(t) \cup Open("nodes", NoTransfer))
  BY <1>2, <1>3, <1>4 DEF Within, Covered
<1>7. Nested(q, "nodes", then[t], NoTransfer, Had(t), root)
  <2> HIDE DEF f
  <2> QED
    BY <1>2, <1>4, <1>5, <1>6, NestedSet
<1>8. Reached("nodes", then[t], NoTransfer, Had(t), Act(t))
  BY <1>2, <1>5 DEF Reached
<1>9. Transferred(NoTransfer, "nodes", Had(t), Act(t), limit)
  BY DEF Transferred, NoTransfer, Uploading
<1>10. PlaysRole("build", "nodes", then[t])
  BY DEF PlaysRole, AfterUpload, Uploading
<1> HIDE DEF q, root
<1>11. pc'[t] = "nodes" /\ up'[t] = NoTransfer /\ then'[t] = then[t] /\ stack'[t] = q /\ OthersKept(t)
  BY <1>1, <1>2 DEF OthersKept, Inv, Shape
<1> QED
  BY <1>1, <1>2, <1>7, <1>8, <1>9, <1>10, <1>11, ClientAlone, BuildCause DEF root

(* A node of it is opened. *)
LEMMA NodeCause ==
  ASSUME Inv, Inv', CauseInv, NEW t \in Threads, UNCHANGED clientVars, ServiceUnchanged, Node(t)
  PROVE  CauseInv'
<1> DEFINE root == InputRoot[Act(t)]
           H == Had(t)
           s == stack[t]
           m == Len(s)
<1>1. pc[t] = "nodes" /\ UNCHANGED <<casVars, limit, trouble>>
  BY DEF Node
<1>2. /\ Role(t) = "build" /\ s \in Seq(UploadFrame) /\ DOMAIN stack = Threads /\ m \in Nat /\ m > 0
      /\ Top(t) = s[m] /\ LastOf(s) = Top(t) /\ Top(t) \in UploadFrame
      /\ Nested(s, pc[t], then[t], up[t], H, root) /\ Within(Top(t), H, root)
      /\ s[1].node = root /\ \A p \in 1 .. m : Within(s[p], H, root)
      /\ \A p \in 1 .. m : p < m => s[p + 1].node = s[p].cur /\ Covered(s[p], H \cup {s[p].cur})
      /\ Act(t) \in Actions /\ root \in Objects /\ Leaves[Act(t)] \subseteq H
      /\ Below[root] \subseteq Needs(Act(t)) /\ Below[root] \subseteq Objects
  BY <1>1, TreeKnown DEF InTree
<1>3. PICK o \in Top(t).todo :
        /\ stack' = [stack EXCEPT ![t] = Append([s EXCEPT ![m] = [Top(t) EXCEPT !.todo = @ \ {o}, !.cur = o]], Opened(o))]
        /\ Query(t, SubTrees(o), "level")
  BY DEF Node, Opened
<1> DEFINE f == [Top(t) EXCEPT !.todo = @ \ {o}, !.cur = o]
           q == [s EXCEPT ![m] = f]
           z == Append(q, Opened(o))
           v == [NoTransfer EXCEPT !.blobs = SubTrees(o)]
<1>4. o \in Below[root] /\ o \in Objects
  BY <1>2, <1>3 DEF Within
<1>5. /\ f.node = Top(t).node /\ f.todo = Top(t).todo \ {o} /\ f.cur = o /\ f.container = Top(t).container
      /\ f \in UploadFrame
  BY <1>2, <1>4 DEF UploadFrame
<1>6. stack' = [stack EXCEPT ![t] = z]
  BY <1>3
<1>7. v.blobs = SubTrees(o)
  BY DEF NoTransfer
<1>8. Covered(Top(t), H)
  BY <1>1, <1>2 DEF Nested, At, CasLabels, Open, Uploading
<1> HIDE DEF f, v
<1>9. Within(f, H, root) /\ Covered(f, H \cup {o})
  BY <1>2, <1>3, <1>4, <1>5, <1>8 DEF Within, Covered
<1>10. /\ Within(Opened(o), H, root) /\ Opened(o).node = o /\ SubTrees(o) \subseteq Below[root]
       /\ Opened(o) \in UploadFrame
  BY <1>2, <1>4, OpenedWithin
<1>11. q \in Seq(UploadFrame) /\ Len(q) = m /\ q[m] = f /\ \A p \in 1 .. m : p < m => q[p] = s[p]
  BY <1>2, <1>5, LastSet
<1> HIDE DEF q
<1>12. Len(z) = m + 1 /\ z[m + 1] = Opened(o) /\ \A p \in 1 .. m : z[p] = q[p]
  BY <1>10, <1>11, LastAdded
<1> HIDE DEF z, m
<1>13. \A p \in 1 .. m : z[p].node = s[p].node /\ Within(z[p], H, root)
  <2> SUFFICES ASSUME NEW p \in 1 .. m
               PROVE  z[p].node = s[p].node /\ Within(z[p], H, root)
    OBVIOUS
  <2>1. CASE p = m
    BY <1>2, <1>5, <1>9, <1>11, <1>12, <2>1
  <2>2. CASE p # m
    <3>1. p < m
      BY <1>2, <2>2
    <3> QED
      BY <1>2, <1>11, <1>12, <3>1
  <2> QED
    BY <2>1, <2>2
<1>14. z[1].node = root /\ \A p \in 1 .. m + 1 : Within(z[p], H, root)
  <2>1. 1 \in 1 .. m /\ \A p \in 1 .. m + 1 : p = m + 1 \/ p \in 1 .. m
    BY <1>2
  <2> QED
    BY <1>2, <1>10, <1>12, <1>13, <2>1
<1>15. \A p \in 1 .. m + 1 : p < m + 1 => z[p + 1].node = z[p].cur /\ Covered(z[p], H \cup {z[p].cur})
  <2> SUFFICES ASSUME NEW p \in 1 .. m + 1, p < m + 1
               PROVE  z[p + 1].node = z[p].cur /\ Covered(z[p], H \cup {z[p].cur})
    OBVIOUS
  <2>1. p \in 1 .. m
    BY <1>2
  <2>2. CASE p = m
    <3>1. z[p] = f /\ z[p + 1] = Opened(o)
      BY <1>11, <1>12, <2>1, <2>2
    <3> QED
      BY <1>5, <1>9, <1>10, <3>1
  <2>3. CASE p # m
    <3>1. p < m /\ p + 1 \in 1 .. m
      BY <1>2, <2>1, <2>3
    <3>2. z[p] = s[p] /\ z[p + 1].node = s[p + 1].node
      BY <1>11, <1>12, <1>13, <2>1, <3>1
    <3> QED
      BY <1>2, <2>1, <3>1, <3>2
  <2> QED
    BY <2>2, <2>3
<1>16. LastOf(z) = Opened(o)
  BY <1>12 DEF LastOf
<1>17. /\ At("query", "level") = "level"
       /\ "level" \in AfterQuery
       /\ "level" \in InTree
       /\ "level" \notin {"nodes", "add", "tree", "available", "root", "uploaded", "prepare", "execute"}
  BY DEF At, CasLabels, InTree, AfterQuery
<1>18. Nested(z, "query", "level", v, H, root)
  <2>1. Len(z) = m + 1
    BY <1>12
  <2> QED
    BY <1>2, <1>7, <1>10, <1>14, <1>15, <1>16, <1>17, <2>1 DEF Nested
<1>19. Reached("query", "level", v, H, Act(t))
  BY <1>2, <1>17 DEF Reached
<1>20. stack'[t] = z /\ DOMAIN stack' = Threads /\ \A u \in Threads : u # t => stack'[u] = stack[u]
  BY <1>2, <1>6
<1>21. SubTrees(o) \subseteq Needs(Act(t))
  BY <1>2, <1>10
<1> HIDE DEF root
<1> QED
  BY <1>1, <1>2, <1>3, <1>7, <1>17, <1>18, <1>19, <1>20, <1>21, ClientAlone, QueryCause DEF root

(* What a node of an uploaded tree consists of, with its trees there. *)
LEMMA NodeReady ==
  ASSUME NEW a \in Actions, NEW H, Leaves[a] \subseteq H, NEW o \in Below[InputRoot[a]], SubTrees(o) \subseteq H
  PROVE  Entries[o] \subseteq H
<1> SUFFICES ASSUME NEW e \in Entries[o]
             PROVE  e \in H
  OBVIOUS
<1>1. InputRoot[a] \in Objects /\ Closed(Below[InputRoot[a]])
  BY NeedsTyped
<1>2. e \in Below[InputRoot[a]]
  BY <1>1 DEF Closed
<1>3. CASE e \in Trees
  BY <1>3 DEF SubTrees
<1>4. CASE e \notin Trees
  BY <1>2, <1>4, ExecutionAssumption
<1> QED
  BY <1>3, <1>4

(* A node joins the container, which may have to be uploaded before. *)
LEMMA AddNodeCause ==
  ASSUME Inv, Inv', CauseInv, NEW t \in Threads, UNCHANGED clientVars, ServiceUnchanged, AddNode(t)
  PROVE  CauseInv'
<1> DEFINE root == InputRoot[Act(t)]
           H == Had(t)
           s == stack[t]
           o == Top(t).cur
           C == Top(t).container
           kept(S) == [Top(t) EXCEPT !.container = S]
           v(S) == [NoTransfer EXCEPT !.blobs = S]
<1>1. pc[t] = "add" /\ UNCHANGED <<casVars, limit, trouble>>
  BY DEF AddNode
<1>2. /\ Role(t) = "build" /\ s \in Seq(UploadFrame) /\ DOMAIN stack = Threads /\ Len(s) \in Nat /\ Len(s) > 0
      /\ Top(t) = s[Len(s)] /\ LastOf(s) = Top(t) /\ Top(t) \in UploadFrame
      /\ Nested(s, pc[t], then[t], up[t], H, root) /\ Within(Top(t), H, root)
      /\ s[1].node = root /\ \A p \in 1 .. Len(s) : Within(s[p], H, root)
      /\ \A p \in 1 .. Len(s) : p < Len(s) => s[p + 1].node = s[p].cur /\ Covered(s[p], H \cup {s[p].cur})
      /\ Act(t) \in Actions /\ root \in Objects /\ Leaves[Act(t)] \subseteq H
      /\ Below[root] \subseteq Needs(Act(t)) /\ Below[root] \subseteq Objects
  BY <1>1, TreeKnown DEF InTree
<1>3. \/ UploadBlobs(t, {o}, TRUE, "nodes") /\ stack' = stack
      \/ UploadBlobs(t, C, TRUE, "nodes") /\ SetTop(t, kept({o}))
      \/ SetTop(t, kept(C \cup {o})) /\ Goto(t, "nodes") /\ UNCHANGED <<then, up, tries>>
  BY DEF AddNode
<1>4. Covered(Top(t), H \cup {o}) /\ SubTrees(o) \subseteq H
  BY <1>1, <1>2 DEF Nested, At, CasLabels, Open, Uploading
<1>5. o \in Below[root] /\ C \subseteq Below[root] /\ Ready(C, H) /\ Entries[o] \subseteq H
  BY <1>2, <1>4, NodeReady DEF Within
<1>6. /\ \A S \in SUBSET Below[root] : kept(S) \in UploadFrame
      /\ \A S : kept(S).node = Top(t).node /\ kept(S).todo = Top(t).todo /\ kept(S).cur = o /\ kept(S).container = S
  BY <1>2 DEF UploadFrame
<1>7. /\ Within(kept({o}), H, root) /\ kept({o}) \in UploadFrame
      /\ Within(kept(C \cup {o}), H, root) /\ kept(C \cup {o}) \in UploadFrame
      /\ kept({o}).node = s[Len(s)].node /\ kept(C \cup {o}).node = s[Len(s)].node
  <2>1. /\ {o} \in SUBSET Below[root]
        /\ C \cup {o} \in SUBSET Below[root]
        /\ Ready({o}, H)
        /\ Ready(C \cup {o}, H)
    BY <1>5 DEF Ready
  <2> HIDE DEF kept
  <2> QED
    BY <1>2, <1>6, <2>1 DEF Within
<1>8. \A S : v(S).blobs = S /\ v(S).updated = {}
  BY DEF NoTransfer
<1>9. /\ At("large", "nodes") = "nodes" /\ "nodes" \in AfterUpload /\ "large" # "failed" /\ "nodes" \in InTree
      /\ "nodes" \notin {"level", "add", "tree", "available", "root", "uploaded", "prepare", "execute"}
      /\ \A S : Open("large", v(S)) = S
  BY <1>8 DEF At, CasLabels, InTree, AfterUpload, Open, Uploading
<1>10. \A S : Reached("large", "nodes", v(S), H, Act(t))
  BY <1>2, <1>9 DEF Reached
<1> HIDE DEF v, kept
<1>11. CASE UploadBlobs(t, {o}, TRUE, "nodes") /\ stack' = stack
  <2>1. Nested(s, "large", "nodes", v({o}), H, root)
    BY <1>2, <1>4, <1>9 DEF Nested
  <2>2. {o} \subseteq Needs(Act(t)) /\ Ready({o}, H)
    BY <1>2, <1>5 DEF Ready
  <2>3. v({o}).blobs = {o} /\ v({o}).updated = {} /\ Reached("large", "nodes", v({o}), H, Act(t))
    BY <1>8, <1>10
  <2>4. stack'[t] = s /\ DOMAIN stack' = Threads /\ \A u \in Threads : u # t => stack'[u] = stack[u]
    BY <1>2, <1>11
  <2> HIDE DEF root
  <2> QED
    BY <1>1, <1>2, <1>9, <1>11, <2>1, <2>2, <2>3, <2>4, ClientAlone, UploadCause DEF root
<1>12. CASE UploadBlobs(t, C, TRUE, "nodes") /\ SetTop(t, kept({o}))
  <2> DEFINE q == [s EXCEPT ![Len(s)] = kept({o})]
  <2>1. Covered(kept({o}), H \cup Open("large", v(C)))
    BY <1>4, <1>6, <1>9 DEF Covered
  <2>2. Nested(q, "large", "nodes", v(C), H, root)
    BY <1>2, <1>7, <1>9, <2>1, NestedSet
  <2>3. C \subseteq Needs(Act(t)) /\ Ready(C, H)
    BY <1>2, <1>5
  <2>4. v(C).blobs = C /\ v(C).updated = {} /\ Reached("large", "nodes", v(C), H, Act(t))
    BY <1>8, <1>10
  <2>5. stack' = [stack EXCEPT ![t] = q]
    BY <1>12 DEF SetTop
  <2> HIDE DEF root, q
  <2>6. stack'[t] = q /\ DOMAIN stack' = Threads /\ \A u \in Threads : u # t => stack'[u] = stack[u]
    BY <1>2, <2>5
  <2> QED
    BY <1>1, <1>2, <1>9, <1>12, <2>2, <2>3, <2>4, <2>6, ClientAlone, UploadCause DEF root
<1>13. CASE SetTop(t, kept(C \cup {o})) /\ Goto(t, "nodes") /\ UNCHANGED <<then, up, tries>>
  <2> DEFINE q == [s EXCEPT ![Len(s)] = kept(C \cup {o})]
  <2>1. Covered(kept(C \cup {o}), H \cup Open("nodes", up[t]))
    BY <1>4, <1>6 DEF Covered
  <2>2. At("nodes", then[t]) = "nodes" /\ "nodes" \notin Uploading
    BY DEF At, CasLabels, Uploading
  <2>3. Nested(q, "nodes", then[t], up[t], H, root)
    BY <1>2, <1>7, <2>1, <2>2, NestedSet
  <2>4. Reached("nodes", then[t], up[t], H, Act(t))
    BY <1>2, <2>2 DEF Reached
  <2>5. Transferred(up[t], "nodes", H, Act(t), limit)
    <3>1. Transferred(up[t], "add", H, Act(t), limit)
      BY <1>1, BuildKnown DEF AfterUpload
    <3> QED
      BY <2>2, <3>1 DEF Transferred
  <2>6. PlaysRole("build", "nodes", then[t])
    BY DEF PlaysRole, AfterUpload, Uploading
  <2>7. stack' = [stack EXCEPT ![t] = q] /\ pc' = [pc EXCEPT ![t] = "nodes"]
    BY <1>13 DEF SetTop, Goto
  <2> HIDE DEF root, q
  <2>8. pc'[t] = "nodes" /\ up'[t] = up[t] /\ then'[t] = then[t] /\ stack'[t] = q /\ OthersKept(t)
    BY <1>2, <1>13, <2>7 DEF OthersKept, Inv, Shape
  <2> QED
    BY <1>1, <1>2, <1>13, <2>3, <2>4, <2>5, <2>6, <2>8, ClientAlone, BuildCause DEF root
<1> QED
  BY <1>3, <1>11, <1>12, <1>13

(* The rest of a container is uploaded, and the call returns. *)
LEMMA CloseNodeCause ==
  ASSUME Inv, Inv', CauseInv, NEW t \in Threads, UNCHANGED clientVars, ServiceUnchanged, CloseNode(t)
  PROVE  CauseInv'
<1> DEFINE root == InputRoot[Act(t)]
           H == Had(t)
           s == stack[t]
           m == Len(s)
           C == Top(t).container
           next == IF OnlyCall(t) THEN "root" ELSE "add"
           q == SubSeq(s, 1, m - 1)
           v == [NoTransfer EXCEPT !.blobs = C]
<1>1. /\ pc[t] = "nodes" /\ UNCHANGED <<casVars, limit, trouble>> /\ Top(t).todo = {}
      /\ UploadBlobs(t, C, TRUE, next) /\ stack' = [stack EXCEPT ![t] = q]
  BY DEF CloseNode, Pop
<1>2. /\ Role(t) = "build" /\ s \in Seq(UploadFrame) /\ DOMAIN stack = Threads /\ m \in Nat /\ m > 0
      /\ Top(t) = s[m] /\ LastOf(s) = Top(t) /\ Top(t) \in UploadFrame
      /\ Nested(s, pc[t], then[t], up[t], H, root) /\ Within(Top(t), H, root)
      /\ s[1].node = root /\ \A p \in 1 .. m : Within(s[p], H, root)
      /\ \A p \in 1 .. m : p < m => s[p + 1].node = s[p].cur /\ Covered(s[p], H \cup {s[p].cur})
      /\ Act(t) \in Actions /\ root \in Objects /\ Leaves[Act(t)] \subseteq H
      /\ Below[root] \subseteq Needs(Act(t)) /\ Below[root] \subseteq Objects
  BY <1>1, TreeKnown DEF InTree
<1>3. SubTrees(Top(t).node) \subseteq H \cup C
  BY <1>1, <1>2 DEF Nested, At, CasLabels, Open, Uploading, Covered
<1>4. C \subseteq Below[root] /\ Ready(C, H) /\ C \subseteq Needs(Act(t))
  BY <1>2 DEF Within
<1>5. Len(q) = m - 1 /\ (\A p \in 1 .. m - 1 : q[p] = s[p]) /\ q \in Seq(UploadFrame)
  BY <1>2, LastDropped
<1>6. v.blobs = C /\ v.updated = {} /\ Open("large", v) = C
  BY DEF NoTransfer, Open, Uploading
<1>7. (OnlyCall(t) => m = 1 /\ next = "root") /\ (~OnlyCall(t) => m # 1 /\ next = "add")
  BY DEF OnlyCall
<1> HIDE DEF v, q, m, next
<1>8. At("large", next) = next /\ next \in AfterUpload
  BY <1>7 DEF At, CasLabels, AfterUpload
<1>9. m = 1 => q = <<>>
  <2>1. m = 1 => Len(q) = 0
    BY <1>2, <1>5
  <2>2. Len(q) = 0 => q = <<>>
    BY <1>5
  <2> QED
    BY <2>1, <2>2
<1>10. Reached("large", next, v, H, Act(t)) /\ Nested(q, "large", next, v, H, root)
  <2>1. CASE OnlyCall(t)
    <3>1. m = 1 /\ next = "root" /\ q = <<>>
      BY <1>7, <1>9, <2>1
    <3>2. Top(t).node = root
      BY <1>2, <3>1
    <3>3. Reached("large", "root", v, H, Act(t))
      BY <1>2, <1>3, <1>6, <1>8, <3>1, <3>2 DEF Reached
    <3>4. Nested(<<>>, "large", "root", v, H, root)
      BY <1>8, <3>1, NestedEmpty DEF InTree
    <3> QED
      BY <3>1, <3>3, <3>4
  <2>2. CASE ~OnlyCall(t)
    <3>1. m > 1 /\ next = "add" /\ m - 1 \in 1 .. m - 1 /\ m - 1 \in 1 .. m /\ m - 1 < m /\ 1 \in 1 .. m - 1
      BY <1>2, <1>7, <2>2
    <3>2. LastOf(q) = s[m - 1] /\ q[1] = s[1]
      BY <1>5, <3>1 DEF LastOf
    <3>3. s[m].node = s[m - 1].cur /\ Covered(s[m - 1], H \cup {s[m - 1].cur})
      <4>1. PICK j \in 1 .. m : j < m /\ j = m - 1 /\ j + 1 = m
        BY <1>2, <3>1
      <4>2. s[j + 1].node = s[j].cur /\ Covered(s[j], H \cup {s[j].cur})
        BY <1>2, <4>1
      <4> QED
        BY <4>1, <4>2
    <3>4. Covered(LastOf(q), H \cup {LastOf(q).cur}) /\ SubTrees(LastOf(q).cur) \subseteq H \cup C
      BY <1>2, <1>3, <3>2, <3>3
    <3>5. \A p \in 1 .. m - 1 : Within(q[p], H, root)
      BY <1>2, <1>5
    <3>6. \A p \in 1 .. m - 1 : p < m - 1 => q[p + 1].node = q[p].cur /\ Covered(q[p], H \cup {q[p].cur})
      <4> SUFFICES ASSUME NEW p \in 1 .. m - 1, p < m - 1
                   PROVE  q[p + 1].node = q[p].cur /\ Covered(q[p], H \cup {q[p].cur})
        OBVIOUS
      <4>1. p \in 1 .. m /\ p < m /\ p + 1 \in 1 .. m - 1
        BY <1>2
      <4>2. q[p] = s[p] /\ q[p + 1] = s[p + 1]
        BY <1>5, <4>1
      <4> QED
        BY <1>2, <4>1, <4>2
    <3>7. Reached("large", "add", v, H, Act(t))
      BY <1>2, <1>8, <3>1 DEF Reached
    <3>8. Nested(q, "large", "add", v, H, root)
      BY <1>2, <1>5, <1>6, <1>8, <3>1, <3>2, <3>4, <3>5, <3>6 DEF Nested, InTree
    <3> QED
      BY <3>1, <3>7, <3>8
  <2> QED
    BY <2>1, <2>2
<1> HIDE DEF root, C
<1>11. stack'[t] = q /\ DOMAIN stack' = Threads /\ \A u \in Threads : u # t => stack'[u] = stack[u]
  BY <1>1, <1>2
<1>12. /\ Role(t) = "build" /\ UploadBlobs(t, C, TRUE, next) /\ UNCHANGED <<casVars, limit, trouble>>
       /\ C \subseteq Needs(Act(t)) /\ Ready(C, Had(t)) /\ v.blobs = C /\ v.updated = {}
       /\ Reached("large", next, v, Had(t), Act(t)) /\ Nested(q, "large", next, v, Had(t), InputRoot[Act(t)])
  BY <1>1, <1>2, <1>4, <1>6, <1>10 DEF root
<1> QED
  BY <1>8, <1>11, <1>12, ClientAlone, UploadCause

(* In the end the root itself is uploaded. *)
LEMMA RootCause ==
  ASSUME Inv, Inv', CauseInv, NEW t \in Threads, UNCHANGED clientVars, ServiceUnchanged,
         Root(t, InputRoot[Act(t)])
  PROVE  CauseInv'
<1> DEFINE root == InputRoot[Act(t)]
           v == [NoTransfer EXCEPT !.blobs = {root}]
<1>1. /\ pc[t] = "root" /\ UNCHANGED <<casVars, limit, trouble>> /\ stack' = stack
      /\ UploadBlobs(t, {root}, TRUE, "uploaded")
  BY DEF Root, transferVars
<1>2. /\ Role(t) = "build" /\ Leaves[Act(t)] \subseteq Had(t) /\ Act(t) \in Actions
      /\ Nested(stack[t], pc[t], then[t], up[t], Had(t), root) /\ At(pc[t], then[t]) = pc[t]
      /\ Reached(pc[t], then[t], up[t], Had(t), Act(t)) /\ Open(pc[t], up[t]) = {}
  BY <1>1, BuildKnown DEF AfterUpload
<1>3. stack[t] = <<>> /\ DOMAIN stack = Threads /\ SubTrees(root) \subseteq Had(t)
  BY <1>1, <1>2 DEF Nested, Reached, InTree, Inv, Shape
<1>4. v.blobs = {root} /\ v.updated = {} /\ Open("large", v) = {root}
  BY DEF NoTransfer, Open, Uploading
<1> HIDE DEF v
<1>5. At("large", "uploaded") = "uploaded" /\ "uploaded" \notin InTree /\ "uploaded" \in AfterUpload
  BY DEF At, CasLabels, InTree, AfterUpload
<1>6. Reached("large", "uploaded", v, Had(t), Act(t))
  BY <1>2, <1>4, <1>5 DEF Reached
<1>7. Nested(<<>>, "large", "uploaded", v, Had(t), root)
  BY <1>5, NestedEmpty
<1>8. root \in Below[root] /\ Below[root] \subseteq Needs(Act(t))
  BY <1>2, NeedsTyped
<1>9. {root} \subseteq Needs(Act(t)) /\ Ready({root}, Had(t))
  BY <1>2, <1>3, <1>8, NodeReady DEF Ready
<1>10. stack'[t] = <<>> /\ DOMAIN stack' = Threads /\ \A u \in Threads : u # t => stack'[u] = stack[u]
  BY <1>1, <1>3
<1> HIDE DEF root
<1> QED
  BY <1>1, <1>2, <1>4, <1>5, <1>6, <1>7, <1>9, <1>10, ClientAlone, UploadCause DEF root

(* Every step of an upload. *)
LEMMA UploadsCause ==
  ASSUME Inv, Inv', CauseInv, NEW t \in Threads, Uploads(t)
  PROVE  CauseInv'
<1>1. CASE Transfer(t) /\ UNCHANGED transferVars
  <2>1. Around
    BY <1>1 DEF Around, Uploads, transferVars, clientVars
  <2> QED
    BY <1>1, <2>1, EveryTransferCause
<1>2. CASE \/ UploadTree(t, InputRoot[Act(t)]) \/ Available(t, InputRoot[Act(t)]) \/ Level(t) \/ Node(t)
           \/ AddNode(t) \/ CloseNode(t) \/ Root(t, InputRoot[Act(t)])
  <2>1. UNCHANGED clientVars /\ ServiceUnchanged
    BY DEF Uploads
  <2> QED
    BY <1>2, <2>1, UploadTreeCause, AvailableCause, LevelCause, NodeCause, AddNodeCause,
       CloseNodeCause, RootCause
<1> QED
  BY <1>1, <1>2 DEF Uploads

-----------------------------------------------------------------------------
(* A step of thread t or of one of its executions. *)
LEMMA ServiceStep ==
  ASSUME Inv, Inv', CauseInv, NEW t \in Threads, Onward, Numbers', Others(t), Known(op)' \subseteq Involved,
         \A u \in Threads : u # t => handler'[u] = handler[u] /\ attempt'[u] = attempt[u],
         \A u \in Threads : u # t /\ pc[u] = "wait" => op'[Act(u)] # "none" \/ op[Act(u)] = "none" \/ Crowded,
         Doing(t)', Handled(t)', Waiting(t)'
  PROVE  CauseInv'
<1>1. Numbers /\ \A u \in Threads : Doing(u) /\ Handled(u) /\ Waiting(u)
  BY DEF CauseInv
<1>2. ASSUME NEW u \in Threads, u # t
      PROVE  Doing(u)' /\ Handled(u)' /\ Waiting(u)'
  <2>1. Idles(u)
    BY <1>2 DEF Others
  <2>2. begun'[u] = begun[u] /\ pc'[u] = pc[u]
    BY <2>1 DEF Idles
  <2>3. Doing(u)'
    BY <1>1, <2>1, DoingRemains
  <2>4. Handled(u)'
    BY <1>1, <1>2, <2>2, HandledRemains
  <2>5. LostCalls <= LostCalls' /\ (Crowded => Crowded') /\ LostCalls \in Nat /\ LostCalls' \in Nat
    BY <1>1, <2>2, CausesRemain DEF Numbers
  <2>6. pc'[u] = "wait" => op'[Act(u)] # "none" \/ LostCalls' > 0 \/ Crowded'
    <3>1. LostCalls > 0 => LostCalls' > 0
      BY <2>5
    <3>2. pc[u] = "wait" => op[Act(u)] # "none" \/ LostCalls > 0 \/ Crowded
      BY <1>1 DEF Waiting
    <3>3. pc[u] = "wait" => op'[Act(u)] # "none" \/ op[Act(u)] = "none" \/ Crowded
      BY <1>2
    <3> QED
      BY <2>2, <2>5, <3>1, <3>2, <3>3
  <2> QED
    BY <1>1, <2>2, <2>3, <2>4, <2>6, WaitingRemains
<1>3. Known(op)' \subseteq Involved'
  <2>1. \A u : Act(u)' = Act(u) /\ Role(u)' = Role(u)
    BY RolesFixed DEF Onward
  <2>2. Involved' = Involved
    BY <2>1 DEF Involved, Played, Onward
  <2> QED
    BY <2>2
<1> QED
  BY <1>2, <1>3 DEF CauseInv

(* The action is looked for in the cache. *)
LEMMA NotCachedCause ==
  ASSUME Inv, Inv', CauseInv, NEW t \in Threads, pc[t] = "uploaded", ServerKept, stack' = stack,
         begun' = begun, broken' = broken, collections' = collections, limit' = limit,
         trouble' \in Nat, trouble' <= trouble, \A o \in Objects : age'[o] <= age[o],
         UploadBlobs(t, Messages[Act(t)], FALSE, "prepare")
  PROVE  CauseInv'
<1> DEFINE root == InputRoot[Act(t)]
           S == Messages[Act(t)]
           v == [NoTransfer EXCEPT !.blobs = S]
<1>1. /\ Role(t) = "build" /\ Leaves[Act(t)] \subseteq Had(t) /\ Act(t) \in Actions
      /\ Nested(stack[t], pc[t], then[t], up[t], Had(t), root) /\ At(pc[t], then[t]) = pc[t]
      /\ Reached(pc[t], then[t], up[t], Had(t), Act(t)) /\ Open(pc[t], up[t]) = {}
  BY BuildKnown DEF AfterUpload
<1>2. stack[t] = <<>> /\ DOMAIN stack = Threads /\ root \in Had(t)
  BY <1>1 DEF Nested, Reached, InTree, Inv, Shape
<1>3. v.blobs = S /\ v.updated = {} /\ Open("large", v) = S
  BY DEF NoTransfer, Open, Uploading
<1> HIDE DEF v
<1>4. At("large", "prepare") = "prepare" /\ "prepare" \notin InTree /\ "prepare" \in AfterUpload
  BY DEF At, CasLabels, InTree, AfterUpload
<1>5. Reached("large", "prepare", v, Had(t), Act(t))
  BY <1>1, <1>2, <1>3, <1>4 DEF Reached
<1>6. Nested(<<>>, "large", "prepare", v, Had(t), root)
  BY <1>4, NestedEmpty
<1>7. S \subseteq Needs(Act(t)) /\ Ready(S, Had(t))
  <2>1. S \subseteq Needs(Act(t)) /\ S \subseteq Objects /\ S \cap Trees = {}
    BY <1>1, NeedsTyped, ExecutionAssumption
  <2>2. \A o \in S : Entries[o] = {}
    BY <2>1, CasAssumption
  <2> QED
    BY <2>1, <2>2 DEF Ready
<1>8. stack'[t] = <<>> /\ DOMAIN stack' = Threads /\ \A u \in Threads : u # t => stack'[u] = stack[u]
  BY <1>2
<1> HIDE DEF root
<1> QED
  BY <1>1, <1>3, <1>4, <1>5, <1>6, <1>7, <1>8, UploadCause DEF root

LEMMA GetActionResultCause ==
  ASSUME Inv, Inv', CauseInv, NEW t \in Threads, GetActionResult(t)
  PROVE  CauseInv'
<1>1. /\ pc[t] = "uploaded" /\ ServerKept /\ stack' = stack /\ begun' = begun /\ broken' = broken
      /\ collections' = collections /\ limit' = limit /\ trouble' = trouble
  BY DEF GetActionResult, NotCached, UploadBlobs, ServerKept, transferVars
<1>2. /\ Role(t) = "build" /\ Leaves[Act(t)] \subseteq Had(t) /\ Act(t) \in Actions
      /\ Nested(stack[t], pc[t], then[t], up[t], Had(t), InputRoot[Act(t)]) /\ At(pc[t], then[t]) = pc[t]
      /\ Transferred(up[t], pc[t], Had(t), Act(t), limit) /\ trouble \in Nat
  BY <1>1, BuildKnown DEF AfterUpload
<1>3. trouble' \in Nat /\ trouble' <= trouble
  BY <1>1, <1>2
<1>4. \A o \in Objects : age'[o] <= age[o]
  <2>1. CASE age' = age
    BY <2>1, CasAssumption DEF Inv, AgesInv, Ages
  <2>2. CASE age' = Uplinked({Output[Act(t)]}, age)
    <3>1. {Output[Act(t)]} \in SUBSET Objects
      BY <1>2, ExecutionAssumption
    <3> QED
      BY <2>2, <3>1, UplinkedFalls DEF Inv, AgesInv
  <2> QED
    BY <2>1, <2>2 DEF GetActionResult
<1>5. CASE UploadBlobs(t, Messages[Act(t)], FALSE, "prepare")
  BY <1>1, <1>3, <1>4, <1>5, NotCachedCause
<1>6. CASE Goto(t, "ok") /\ UNCHANGED <<then, up, tries>>
  <2>1. pc' = [pc EXCEPT ![t] = "ok"] /\ stack[t] = <<>>
    BY <1>1, <1>2, <1>6 DEF Goto, Nested, InTree
  <2>2. At("ok", then[t]) = "ok" /\ "ok" \notin InTree \cup Uploading
    BY DEF At, CasLabels, InTree, Uploading
  <2>3. pc'[t] = "ok" /\ up'[t] = up[t] /\ then'[t] = then[t] /\ stack'[t] = <<>> /\ OthersKept(t)
    BY <1>1, <1>6, <2>1 DEF OthersKept, Inv, Shape
  <2>4. Reached("ok", then[t], up[t], Had(t), Act(t))
    BY <1>2, <2>2 DEF Reached
  <2>5. Nested(<<>>, "ok", then[t], up[t], Had(t), InputRoot[Act(t)])
    BY <2>2, NestedEmpty
  <2>6. Transferred(up[t], "ok", Had(t), Act(t), limit)
    BY <1>1, <1>2, <2>2 DEF Transferred
  <2>7. PlaysRole("build", "ok", then[t])
    BY DEF PlaysRole, Uploading
  <2> QED
    BY <1>1, <1>2, <1>3, <1>4, <1>6, <2>3, <2>4, <2>5, <2>6, <2>7, BuildCause
<1> QED
  BY <1>5, <1>6 DEF GetActionResult, NotCached

LEMMA LookupLostCause ==
  ASSUME Inv, Inv', CauseInv, NEW t \in Threads, LookupLost(t)
  PROVE  CauseInv'
<1>1. /\ pc[t] = "uploaded" /\ ServerKept /\ stack' = stack /\ begun' = begun /\ broken' = broken
      /\ collections' = collections /\ limit' = limit /\ age' = age
      /\ trouble >= MaxAttempts /\ trouble' = trouble - MaxAttempts
      /\ UploadBlobs(t, Messages[Act(t)], FALSE, "prepare")
  BY DEF LookupLost, NotCached, Lose, ServiceUnchanged, serviceVars, ServerKept, casVars, transferVars
<1>2. trouble \in Nat /\ MaxAttempts \in Nat
  BY CasAssumption DEF CauseInv, Numbers
<1>3. trouble' \in Nat /\ trouble' <= trouble
  BY <1>1, <1>2
<1>4. \A o \in Objects : age'[o] <= age[o]
  BY <1>1, CasAssumption DEF Inv, AgesInv, Ages
<1> QED
  BY <1>1, <1>3, <1>4, NotCachedCause

-----------------------------------------------------------------------------
LEMMA NoneFewer ==
  ASSUME NEW x \in Nat, NEW y \in Nat, NEW z \in Nat, z <= y
  PROVE  x <= x + (y - z)
OBVIOUS

(* A step that collects nothing and reduces no limit. *)
LEMMA CalmOnward ==
  ASSUME Inv, Inv', CauseInv, cast' = cast, collections' = collections,
         limit' = limit \/ (limit' \in Nat /\ limit' <= limit),
         begun' \in [Threads -> Nat], tries' = tries, broken' \in Nat, broken <= broken',
         trouble' \in Nat, trouble' <= trouble, \A o \in Objects : age'[o] <= age[o]
  PROVE  /\ Onward /\ Numbers' /\ LostCalls \in Nat /\ LostCalls' \in Nat
         /\ LostCalls' = LostCalls + (trouble - trouble') /\ LostCalls <= LostCalls'
<1>1. Numbers /\ collections \in Nat /\ limit \in Nat /\ trouble \in Nat /\ broken \in Nat
  BY DEF CauseInv, Numbers
<1>2. collections' \in Nat /\ limit' \in Nat /\ tries' \in [Threads -> Nat]
  BY <1>1 DEF Numbers
<1>3. Numbers' /\ LostCalls' = LostCalls + (trouble - trouble') /\ LostCalls \in Nat
  BY <1>1, <1>2, NumbersFall
<1>4. LostCalls' \in Nat
  BY <1>3 DEF Numbers
<1>5. LostCalls <= LostCalls'
  <2>1. LostCalls <= LostCalls + (trouble - trouble')
    BY <1>1, <1>3, NoneFewer
  <2> QED
    BY <1>3, <2>1
<1>6. ASSUME NEW o \in Objects
      PROVE  age'[o] + collections' <= age[o] + collections
  <2>1. age[o] \in Nat /\ age'[o] \in Nat /\ age'[o] <= age[o]
    BY CasAssumption DEF Inv, AgesInv, Ages
  <2> QED
    BY <1>1, <2>1
<1>7. limit' <= limit /\ collections' <= collections
  BY <1>1
<1> QED
  BY <1>3, <1>4, <1>5, <1>6, <1>7 DEF Onward

(* A build executes, or has executed. *)
LEMMA ExecutingCause ==
  ASSUME Inv, Inv', CauseInv, NEW t \in Threads, pc[t] \in {"prepare", "execute"},
         NEW l \in {"execute", "ok", "failed"}, pc' = [pc EXCEPT ![t] = l],
         then' = then, up' = up, tries' = tries, stack' = stack, begun' = begun, age' = age,
         cast' = cast, collections' = collections, limit' = limit, broken' = broken, op' = op,
         trouble' \in Nat, trouble' <= trouble,
         \A u \in Threads : u # t => handler'[u] = handler[u] /\ attempt'[u] = attempt[u],
         l = "failed" => Caused(t)', Handled(t)'
  PROVE  CauseInv'
<1>1. /\ Role(t) = "build" /\ Numbers /\ PlaysRole("build", pc[t], then[t])
      /\ Transferred(up[t], pc[t], Had(t), Act(t), limit)
      /\ Reached(pc[t], then[t], up[t], Had(t), Act(t))
      /\ Nested(stack[t], pc[t], then[t], up[t], Had(t), InputRoot[Act(t)])
      /\ Leaves[Act(t)] \subseteq Had(t) /\ At(pc[t], then[t]) = pc[t] /\ Open(pc[t], up[t]) = {}
  BY BuildKnown DEF AfterUpload
<1>2. DOMAIN pc = Threads /\ limit \in Nat /\ broken \in Nat /\ begun \in [Threads -> Nat]
  BY <1>1 DEF Inv, Shape, Numbers
<1>3. \A o \in Objects : age'[o] <= age[o]
  BY CasAssumption DEF Inv, AgesInv, Ages
<1>4. broken' \in Nat /\ broken <= broken' /\ begun' \in [Threads -> Nat]
  BY <1>2
<1>5. /\ Onward /\ Numbers' /\ LostCalls \in Nat /\ LostCalls' \in Nat
      /\ LostCalls <= LostCalls'
  BY <1>3, <1>4, CalmOnward
<1>6. Had(t) \subseteq Had(t)' /\ Role(t)' = Role(t) /\ Act(t)' = Act(t)
  BY <1>1, <1>5, CausesRemain
<1>7. pc'[t] = l /\ \A u \in Threads : u # t => pc'[u] = pc[u]
  BY <1>2
<1>8. At(l, then[t]) = l /\ l \notin InTree \cup Uploading \cup {"query", "idle"} /\ Open(l, up[t]) = {}
  BY DEF At, CasLabels, InTree, Uploading, Open
<1>9. Reached(l, then[t], up[t], Had(t), Act(t))
  BY <1>1, <1>8 DEF Reached
<1>10. stack[t] = <<>>
  BY <1>1 DEF Nested, InTree
<1>11. Nested(stack[t], l, then[t], up[t], Had(t), InputRoot[Act(t)])
  BY <1>8, <1>10, NestedEmpty
<1>12. Transferred(up[t], l, Had(t), Act(t), limit)
  BY <1>1, <1>8 DEF Transferred, Uploading
<1>13. PlaysRole("build", l, then[t])
  BY <1>8 DEF PlaysRole
<1>14. limit' \in Nat /\ limit' <= limit
  BY <1>2
<1>15. /\ Transferred(up[t], l, Had(t)', Act(t), limit')
       /\ Reached(l, then[t], up[t], Had(t)', Act(t))
       /\ Nested(stack[t], l, then[t], up[t], Had(t)', InputRoot[Act(t)])
  BY <1>2, <1>6, <1>9, <1>11, <1>12, <1>14, TransferredGrows, ReachedGrows, NestedGrows
<1>16. collections' <= begun'[t] /\ tries'[t] <= LostCalls'
  <2>1. collections <= begun[t] /\ tries[t] <= LostCalls /\ tries[t] \in Nat
    BY <1>1 DEF CauseInv, Doing, Numbers
  <2> QED
    BY <1>5, <2>1
<1>17. Blamed(t)'
  BY <1>1, <1>6, <1>7 DEF Blamed
<1>18. Doing(t)'
  BY <1>1, <1>6, <1>7, <1>13, <1>15, <1>16, <1>17 DEF Doing
<1>19. Others(t)
  BY <1>7 DEF Others, Idles
<1>20. Known(op)' \subseteq Involved
  BY DEF CauseInv, Known
<1>21. Waiting(t)'
  BY <1>7 DEF Waiting
<1> QED
  BY <1>5, <1>18, <1>19, <1>20, <1>21, ServiceStep

(* It finds all it needs there when it asks for attempt k, after k - 1     *)
(* calls have been lost.                                                   *)
LEMMA CallExecuteCause ==
  ASSUME Inv, Inv', CauseInv, NEW t \in Threads, pc[t] \in {"prepare", "execute"},
         NEW k \in 1 .. MaxAttempts, CallExecute(t, k),
         then' = then, up' = up, tries' = tries, stack' = stack, begun' = begun, age' = age,
         cast' = cast, collections' = collections, limit' = limit, broken' = broken, op' = op,
         trouble' \in Nat, trouble' <= trouble, k <= LostCalls' + 1
  PROVE  CauseInv'
<1> DEFINE h == [stage |-> "called", exit |-> "none"]
<1>1. /\ handler' = [handler EXCEPT ![t] = [handler[t] EXCEPT ![k] = h]]
      /\ attempt' = [attempt EXCEPT ![t] = k] /\ pc' = [pc EXCEPT ![t] = "execute"]
  BY DEF CallExecute, SetHandler, Goto
<1>2. /\ attempt \in [Threads -> 0 .. MaxAttempts]
      /\ handler \in [Threads -> [1 .. MaxAttempts -> [stage : Stages, exit : Exits]]]
  BY DEF Inv, Shape
<1>3. h.stage = "called"
  OBVIOUS
<1> HIDE DEF h
<1>4. \A u \in Threads : u # t => handler'[u] = handler[u] /\ attempt'[u] = attempt[u]
  BY <1>1, <1>2
<1>5. attempt'[t] = k /\ handler'[t][k] = h /\ \A j \in 1 .. MaxAttempts : j # k => handler'[t][j] = handler[t][j]
  BY <1>1, <1>2
<1>6. /\ Role(t) = "build" /\ Numbers /\ Handled(t)
      /\ InputRoot[Act(t)] \in Had(t) /\ Messages[Act(t)] \subseteq Had(t)
  <2>1. /\ Role(t) = "build" /\ Numbers /\ Reached(pc[t], then[t], up[t], Had(t), Act(t))
        /\ At(pc[t], then[t]) = pc[t] /\ Open(pc[t], up[t]) = {}
    BY BuildKnown DEF AfterUpload
  <2> QED
    BY <2>1 DEF Reached, CauseInv
<1>7. broken' \in Nat /\ broken <= broken' /\ begun' \in [Threads -> Nat]
  BY <1>6 DEF Numbers
<1>8. \A o \in Objects : age'[o] <= age[o]
  BY CasAssumption DEF Inv, AgesInv, Ages
<1>9. Onward /\ Numbers' /\ LostCalls' \in Nat
  BY <1>7, <1>8, CalmOnward
<1>10. /\ Had(t) \subseteq Had(t)' /\ Role(t)' = Role(t) /\ Act(t)' = Act(t) /\ (Caused(t) => Caused(t)')
  BY <1>6, <1>9, CausesRemain
<1>11. ASSUME NEW j \in 1 .. MaxAttempts
       PROVE  /\ handler'[t][j].stage # "none" => Role(t) = "build"
              /\ handler'[t][j].stage \in {"called", "running"} =>
                   InputRoot[Act(t)] \in Had(t)' /\ Messages[Act(t)] \subseteq Had(t)'
              /\ handler'[t][j].stage = "internal" => Caused(t)'
  <2>1. CASE j = k
    BY <1>3, <1>5, <1>6, <1>10, <2>1
  <2>2. CASE j # k
    <3>1. handler'[t][j] = handler[t][j]
      BY <1>5, <2>2
    <3> QED
      BY <1>6, <1>10, <3>1 DEF Handled
  <2> QED
    BY <2>1, <2>2
<1>12. Handled(t)'
  BY <1>3, <1>5, <1>10, <1>11 DEF Handled
<1> QED
  BY <1>1, <1>4, <1>12, ExecutingCause

LEMMA ExecuteCause ==
  ASSUME Inv, Inv', CauseInv, NEW t \in Threads, Execute(t)
  PROVE  CauseInv'
<1>1. /\ pc[t] = "prepare"
      /\ CallExecute(t, 1)
      /\ then' = then
      /\ up' = up
      /\ tries' = tries
      /\ stack' = stack
      /\ begun' = begun /\ age' = age /\ cast' = cast /\ collections' = collections /\ limit' = limit
      /\ broken' = broken /\ op' = op /\ trouble' = trouble
  BY DEF Execute, casVars, transferVars
<1>2. trouble \in Nat /\ LostCalls \in Nat /\ 1 \in 1 .. MaxAttempts
  BY CasAssumption DEF CauseInv, Numbers
<1>3. LostCalls' = LostCalls
  BY <1>1 DEF LostCalls
<1>4. trouble' \in Nat /\ trouble' <= trouble /\ 1 <= LostCalls' + 1
  BY <1>1, <1>2, <1>3
<1> QED
  BY <1>1, <1>2, <1>4, CallExecuteCause

(* What a build knows of its execution. *)
LEMMA ExecutionKnown ==
  ASSUME Inv, CauseInv, NEW t \in Threads, pc[t] = "execute"
  PROVE  /\ Handled(t) /\ Numbers /\ trouble \in Nat /\ LostCalls \in Nat
         /\ attempt[t] \in 1 .. MaxAttempts /\ attempt[t] \in Nat /\ attempt[t] <= LostCalls + 1
         /\ (handler[t][attempt[t]].stage = "none" => attempt[t] <= LostCalls)
         /\ \A o \in Objects : age[o] <= age[o]
BY CasAssumption DEF CauseInv, Handled, Numbers, Inv, AgesInv, Ages

LEMMA UnavailableCause ==
  ASSUME Inv, Inv', CauseInv, NEW t \in Threads, Unavailable(t)
  PROVE  CauseInv'
<1>1. /\ pc[t] = "execute" /\ then' = then /\ up' = up /\ tries' = tries /\ stack' = stack
      /\ begun' = begun /\ age' = age /\ cast' = cast /\ collections' = collections /\ limit' = limit
      /\ broken' = broken /\ op' = op
      /\ IF handler[t][attempt[t]].stage = "none" THEN trouble' = trouble ELSE trouble >= 1 /\ trouble' = trouble - 1
  BY DEF Unavailable, casVars, transferVars, HandlerAt, Lose
<1>2. /\ Handled(t) /\ Numbers /\ trouble \in Nat /\ LostCalls \in Nat
      /\ attempt[t] \in 1 .. MaxAttempts /\ attempt[t] \in Nat /\ attempt[t] <= LostCalls + 1
      /\ (handler[t][attempt[t]].stage = "none" => attempt[t] <= LostCalls)
      /\ \A o \in Objects : age'[o] <= age[o]
  BY <1>1, ExecutionKnown
<1>3. trouble' \in Nat /\ trouble' <= trouble
  BY <1>1, <1>2
<1>4. broken' \in Nat /\ broken <= broken' /\ begun' \in [Threads -> Nat]
  BY <1>1, <1>2 DEF Numbers
<1>5. Onward /\ Numbers' /\ LostCalls' \in Nat /\ LostCalls' = LostCalls + (trouble - trouble')
  BY <1>1, <1>2, <1>3, <1>4, CalmOnward
<1>6. attempt[t] <= LostCalls'
  <2>1. CASE handler[t][attempt[t]].stage = "none"
    BY <1>1, <1>2, <1>5, <2>1
  <2>2. CASE handler[t][attempt[t]].stage # "none"
    <3>1. LostCalls' = LostCalls + 1
      BY <1>1, <1>2, <1>5, <2>2
    <3> QED
      BY <1>2, <3>1
  <2> QED
    BY <2>1, <2>2
<1>7. MaxAttempts \in Nat
  BY CasAssumption
<1>8. CASE attempt[t] < MaxAttempts
  <2>1. CallExecute(t, attempt[t] + 1)
    BY <1>8 DEF Unavailable
  <2>2. attempt[t] + 1 \in 1 .. MaxAttempts /\ attempt[t] + 1 <= LostCalls' + 1
    BY <1>2, <1>5, <1>6, <1>7, <1>8
  <2> QED
    BY <1>1, <1>3, <2>1, <2>2, CallExecuteCause
<1>9. CASE ~(attempt[t] < MaxAttempts)
  <2>1. pc' = [pc EXCEPT ![t] = "failed"] /\ handler' = handler /\ attempt' = attempt
    BY <1>9 DEF Unavailable, Goto
  <2>2. LostCalls' >= MaxAttempts
    BY <1>2, <1>5, <1>6, <1>7, <1>9
  <2>3. Caused(t)'
    BY <1>5, <2>2, IsCausedThen
  <2>4. DOMAIN pc = Threads /\ pc'[t] = "failed"
    BY <2>1 DEF Inv, Shape
  <2>5. Handled(t)'
    BY <1>1, <1>2, <1>5, <2>1, <2>4, HandledRemains
  <2> QED
    BY <1>1, <1>3, <2>1, <2>3, <2>5, ExecutingCause
<1> QED
  BY <1>8, <1>9

LEMMA ReadExecutionCause ==
  ASSUME Inv, Inv', CauseInv, NEW t \in Threads, ReadExecution(t)
  PROVE  CauseInv'
<1>1. /\ pc[t] = "execute" /\ then' = then /\ up' = up /\ tries' = tries /\ stack' = stack
      /\ begun' = begun /\ age' = age /\ cast' = cast /\ collections' = collections /\ limit' = limit
      /\ broken' = broken /\ op' = op /\ trouble' = trouble /\ handler' = handler /\ attempt' = attempt
  BY DEF ReadExecution, casVars, transferVars, ServiceUnchanged, serviceVars
<1>2. /\ Handled(t) /\ Numbers /\ trouble \in Nat /\ LostCalls \in Nat
      /\ attempt[t] \in 1 .. MaxAttempts /\ \A o \in Objects : age'[o] <= age[o]
  BY <1>1, ExecutionKnown
<1>3. trouble' \in Nat /\ trouble' <= trouble
  BY <1>1, <1>2
<1>4. broken' \in Nat /\ broken <= broken' /\ begun' \in [Threads -> Nat]
  BY <1>1, <1>2 DEF Numbers
<1>5. Onward /\ Numbers'
  BY <1>1, <1>2, <1>3, <1>4, CalmOnward
<1>6. PICK l \in {"ok", "failed"} :
        pc' = [pc EXCEPT ![t] = l] /\ (l = "failed" => handler[t][attempt[t]].stage = "internal")
  BY DEF ReadExecution, Goto, HandlerAt
<1>7. l = "failed" => Caused(t)'
  <2>1. l = "failed" => Caused(t)
    BY <1>2, <1>6 DEF Handled
  <2> QED
    BY <1>1, <1>2, <1>5, <2>1, CausesRemain
<1>8. DOMAIN pc = Threads /\ pc'[t] = l
  BY <1>6 DEF Inv, Shape
<1>9. Handled(t)'
  BY <1>1, <1>2, <1>5, <1>8, HandledRemains
<1> QED
  BY <1>1, <1>3, <1>6, <1>7, <1>9, ExecutingCause

(* Waiting ends with the operation, or if that has been forgotten. *)
LEMMA WaitExecutionCause ==
  ASSUME Inv, Inv', CauseInv, NEW t \in Threads, WaitExecution(t)
  PROVE  CauseInv'
<1>1. /\ pc[t] = "wait" /\ then' = then /\ up' = up /\ tries' = tries /\ stack' = stack
      /\ begun' = begun /\ age' = age /\ cast' = cast /\ collections' = collections /\ limit' = limit
      /\ broken' = broken /\ op' = op /\ trouble' = trouble /\ handler' = handler /\ attempt' = attempt
  BY DEF WaitExecution, casVars, transferVars, clientVars, ServiceUnchanged, serviceVars
<1>2. PICK l \in {"ok", "failed"} :
        pc' = [pc EXCEPT ![t] = l] /\ (l = "failed" => op[Act(t)] # "done") /\ op[Act(t)] # "ongoing"
  BY DEF WaitExecution, Goto
<1>3. /\ Numbers /\ Doing(t) /\ Handled(t) /\ Waiting(t) /\ trouble \in Nat /\ LostCalls \in Nat
      /\ Act(t) \in Actions /\ op \in [Actions -> {"none", "ongoing", "done"}] /\ DOMAIN pc = Threads
      /\ \A o \in Objects : age'[o] <= age[o]
  BY <1>1, ActionTyped, CasAssumption DEF CauseInv, Numbers, Inv, Shape, AgesInv, Ages
<1>4. Role(t) = "wait"
  <2>1. PlaysRole(Role(t), "wait", then[t]) /\ Role(t) \in {"none", "build", "wait", "sync"}
    BY <1>1, <1>3, ActionTyped DEF Doing, Inv
  <2>2. Role(t) # "sync"
    BY <1>1, NotSync DEF Inv, SyncPCs
  <2> QED
    BY <2>1, <2>2 DEF PlaysRole, CasLabels, AfterQuery, AfterUpload
<1>5. /\ trouble' \in Nat
      /\ trouble' <= trouble
      /\ broken' \in Nat
      /\ broken <= broken'
      /\ begun' \in [Threads -> Nat]
  BY <1>1, <1>3 DEF Numbers
<1>6. Onward /\ Numbers' /\ LostCalls <= LostCalls' /\ LostCalls' \in Nat
  BY <1>1, <1>3, <1>5, CalmOnward
<1>7. pc'[t] = l /\ \A u \in Threads : u # t => pc'[u] = pc[u]
  BY <1>2, <1>3
<1>8. Role(t)' = Role(t) /\ (Forgotten(t) => Forgotten(t)')
  BY <1>1, <1>3, <1>6, CausesRemain
<1>9. l = "failed" => Forgotten(t)
  BY <1>1, <1>2, <1>3, <1>4 DEF Waiting, Forgotten
<1>10. Doing(t)'
  <2>1. collections' <= begun'[t] /\ tries'[t] <= LostCalls'
    <3>1. collections <= begun[t] /\ tries[t] <= LostCalls /\ tries[t] \in Nat
      BY <1>3 DEF Doing, Numbers
    <3> QED
      BY <1>1, <1>3, <1>6, <3>1
  <2>2. PlaysRole("wait", l, then[t])
    BY DEF PlaysRole, Uploading
  <2>3. Blamed(t)'
    BY <1>4, <1>7, <1>8, <1>9 DEF Blamed
  <2> QED
    BY <1>1, <1>4, <1>7, <1>8, <2>1, <2>2, <2>3 DEF Doing
<1>11. Others(t) /\ ServerKept
  BY <1>1, <1>7 DEF Others, Idles, ServerKept
<1>12. Handled(t)'
  BY <1>1, <1>3, <1>6, <1>7, HandledRemains
<1>13. Waiting(t)'
  BY <1>7 DEF Waiting
<1> QED
  BY <1>6, <1>10, <1>11, <1>12, <1>13, ClientStep

-----------------------------------------------------------------------------
(* A job begins. It can rely on what is young by now, and has asked for    *)
(* nothing yet.                                                            *)
LEMMA BeginStep ==
  ASSUME Inv, Inv', CauseInv, NEW t \in Threads, pc[t] = "idle", ServerKept,
         begun' = [begun EXCEPT ![t] = collections], collections' = collections, limit' = limit,
         trouble' = trouble, broken' = broken, \A o \in Objects : age'[o] <= age[o],
         tries' = tries \/ tries' = [tries EXCEPT ![t] = 0], Others(t), pc'[t] # "execute"
  PROVE  /\ Onward /\ Numbers' /\ Handled(t)' /\ collections' <= begun'[t] /\ tries'[t] <= LostCalls'
         /\ Role(t)' = Role(t) /\ Act(t)' = Act(t) /\ begun'[t] = collections
         /\ (Doing(t)' /\ Waiting(t)' => CauseInv')
<1>1. handler' = handler /\ op' = op /\ attempt' = attempt /\ cast' = cast
  BY DEF ServerKept
<1>2. /\ Numbers
      /\ Doing(t)
      /\ Handled(t)
      /\ collections \in Nat
      /\ trouble \in Nat
      /\ limit \in Nat
      /\ broken \in Nat
      /\ tries \in [Threads -> Nat] /\ begun \in [Threads -> Nat] /\ LostCalls \in Nat
  BY DEF CauseInv, Numbers
<1>3. begun' \in [Threads -> Nat] /\ begun'[t] = collections /\ \A u \in Threads : u # t => begun'[u] = begun[u]
  BY <1>2
<1>4. tries' \in [Threads -> Nat] /\ (tries'[t] = tries[t] \/ tries'[t] = 0)
  BY <1>2
<1>5. LostCalls' = LostCalls
  BY <1>1 DEF LostCalls
<1>6. Numbers'
  BY <1>2, <1>3, <1>4, <1>5 DEF Numbers
<1>7. Onward
  <2>1. ASSUME NEW o \in Objects
        PROVE  age'[o] + collections' <= age[o] + collections
    <3>1. age[o] \in Nat /\ age'[o] \in Nat /\ age'[o] <= age[o]
      BY CasAssumption DEF Inv, AgesInv, Ages
    <3> QED
      BY <1>2, <3>1
  <2>2. limit' <= limit /\ collections' <= collections /\ trouble' <= trouble /\ broken <= broken'
    BY <1>2
  <2> QED
    BY <1>1, <2>1, <2>2 DEF Onward
<1>8. Role(t)' = Role(t) /\ Act(t)' = Act(t)
  BY <1>1, RolesFixed
<1>9. collections' <= begun'[t] /\ tries'[t] <= LostCalls'
  <2>1. tries[t] <= LostCalls /\ tries[t] \in Nat
    BY <1>2 DEF Doing
  <2> QED
    BY <1>2, <1>3, <1>4, <1>5, <2>1
<1>10. Handled(t)'
  <2>1. attempt[t] = 0 /\ MaxAttempts \in Nat
    BY CasAssumption DEF Inv, AttemptsInOrder, Final
  <2>2. \A k \in 1 .. MaxAttempts : handler[t][k].stage = "none"
    BY <2>1 DEF Inv, AttemptsInOrder
  <2> QED
    BY <1>1, <2>2 DEF Handled
<1>11. ASSUME Doing(t)', Waiting(t)'
       PROVE  CauseInv'
  BY <1>6, <1>7, <1>10, <1>11, ClientStep
<1> QED
  BY <1>3, <1>6, <1>7, <1>8, <1>9, <1>10, <1>11

LEMMA BeginBuildCause ==
  ASSUME Inv, Inv', CauseInv, NEW t \in Threads, Begin(t), Role(t) = "build"
  PROVE  CauseInv'
<1> DEFINE S == Leaves[Act(t)]
           v == [NoTransfer EXCEPT !.blobs = S, !.left = {}]
           l == IF S = {} THEN "tree" ELSE "find"
           root == InputRoot[Act(t)]
<1>1. /\ pc[t] = "idle"
      /\ ServerKept
      /\ begun' = [begun EXCEPT ![t] = collections]
      /\ collections' = collections
      /\ limit' = limit /\ trouble' = trouble /\ broken' = broken /\ age' = age /\ stack' = stack
      /\ UploadBlobs(t, S, FALSE, "tree")
  BY DEF Begin, ServiceUnchanged, serviceVars, ServerKept
<1>2. /\ DOMAIN pc = Threads /\ DOMAIN then = Threads /\ DOMAIN up = Threads /\ DOMAIN stack = Threads
      /\ Act(t) \in Actions /\ Doing(t) /\ Numbers /\ begun \in [Threads -> Nat] /\ tries \in [Threads -> Nat]
  BY ActionTyped DEF Inv, Shape, CauseInv, Numbers
<1>3. v.blobs = S /\ v.left = {} /\ v.batch = {} /\ v.updated = {}
  BY DEF NoTransfer
<1>4. /\ pc' = [pc EXCEPT ![t] = l] /\ then' = [then EXCEPT ![t] = "tree"]
      /\ up' = [up EXCEPT ![t] = v] /\ tries' = [tries EXCEPT ![t] = 0]
  BY <1>1 DEF UploadBlobs, Goto
<1> HIDE DEF v, S
<1>5. l \in {"tree", "find"} /\ (l = "tree" => S = {})
  OBVIOUS
<1> HIDE DEF l
<1>6. pc'[t] = l /\ then'[t] = "tree" /\ up'[t] = v /\ stack'[t] = stack[t] /\ Others(t)
  BY <1>1, <1>2, <1>4 DEF Others, Idles
<1>7. \A o \in Objects : age'[o] <= age[o]
  BY <1>1, CasAssumption DEF Inv, AgesInv, Ages
<1>8. /\ collections' <= begun'[t] /\ tries'[t] <= LostCalls' /\ Role(t)' = Role(t) /\ Act(t)' = Act(t)
      /\ (Doing(t)' /\ Waiting(t)' => CauseInv')
  <2>1. pc'[t] # "execute"
    BY <1>5, <1>6
  <2> QED
    BY <1>1, <1>4, <1>6, <1>7, <2>1, BeginStep
<1>9. At("idle", then[t]) = "idle" /\ At(l, "tree") = "tree" /\ {"idle", "tree"} \cap InTree = {}
  BY <1>5 DEF At, CasLabels, InTree
<1>10. stack[t] = <<>>
  BY <1>1, <1>2, <1>9 DEF Doing, Nested
<1>11. S \subseteq Needs(Act(t)) /\ Ready(S, Had(t)')
  <2>1. S \subseteq Needs(Act(t)) /\ S \subseteq Objects /\ S \cap Trees = {}
    BY <1>2, NeedsTyped, ExecutionAssumption DEF S
  <2>2. \A o \in S : Entries[o] = {}
    BY <2>1, CasAssumption
  <2> QED
    BY <2>1, <2>2 DEF Ready
<1>12. Transferred(v, l, Had(t)', Act(t), limit')
  BY <1>3, <1>5, <1>11 DEF Transferred
<1>13. Reached(l, "tree", v, Had(t)', Act(t))
  <2>1. S \subseteq Open(l, v)
    BY <1>3, <1>5 DEF Open, Uploading
  <2> QED
    BY <1>9, <2>1 DEF Reached, S
<1>14. Nested(<<>>, l, "tree", v, Had(t)', root)
  BY <1>9, NestedEmpty
<1>15. PlaysRole("build", l, "tree")
  BY <1>5 DEF PlaysRole, CasLabels, AfterUpload
<1>16. Blamed(t)'
  BY <1>5, <1>6, <1>8 DEF Blamed
<1>17. Doing(t)'
  BY <1>6, <1>8, <1>10, <1>12, <1>13, <1>14, <1>15, <1>16 DEF Doing
<1>18. Waiting(t)'
  BY <1>5, <1>6 DEF Waiting
<1> QED
  BY <1>8, <1>17, <1>18

LEMMA BeginWaitCause ==
  ASSUME Inv, Inv', CauseInv, NEW t \in Threads, Begin(t), Role(t) = "wait"
  PROVE  CauseInv'
<1>1. /\ pc[t] = "idle"
      /\ ServerKept
      /\ begun' = [begun EXCEPT ![t] = collections]
      /\ collections' = collections
      /\ limit' = limit /\ trouble' = trouble /\ broken' = broken /\ age' = age /\ stack' = stack
      /\ pc' = [pc EXCEPT ![t] = "wait"] /\ then' = then /\ up' = up /\ tries' = tries
      /\ op[Act(t)] # "none" /\ op' = op
  BY DEF Begin, ServiceUnchanged, serviceVars, ServerKept, Goto
<1>2. DOMAIN pc = Threads /\ Doing(t) /\ begun \in [Threads -> Nat]
  BY DEF Inv, Shape, CauseInv, Numbers
<1>3. pc'[t] = "wait" /\ Others(t)
  BY <1>1, <1>2 DEF Others, Idles
<1>4. \A o \in Objects : age'[o] <= age[o]
  BY <1>1, CasAssumption DEF Inv, AgesInv, Ages
<1>5. /\ collections' <= begun'[t] /\ tries'[t] <= LostCalls' /\ Role(t)' = Role(t) /\ Act(t)' = Act(t)
      /\ (Doing(t)' /\ Waiting(t)' => CauseInv')
  <2>1. pc'[t] # "execute"
    BY <1>3
  <2> QED
    BY <1>1, <1>3, <1>4, <2>1, BeginStep
<1>6. PlaysRole("wait", "wait", then[t])
  BY DEF PlaysRole, Uploading
<1>7. Blamed(t)'
  BY <1>3, <1>5 DEF Blamed
<1>8. Doing(t)' /\ Waiting(t)'
  BY <1>1, <1>3, <1>5, <1>6, <1>7 DEF Doing, Waiting
<1> QED
  BY <1>5, <1>8

LEMMA BeginSyncCause ==
  ASSUME Inv, Inv', CauseInv, NEW t \in Threads, Begin(t), Role(t) = "sync"
  PROVE  CauseInv'
<1> DEFINE root == InputRoot[Act(t)]
           s == Append(stack[t], Retrieve({root}))
<1>1. /\ pc[t] = "idle"
      /\ ServerKept
      /\ begun' = [begun EXCEPT ![t] = collections]
      /\ collections' = collections
      /\ limit' = limit
      /\ trouble' = trouble
      /\ broken' = broken
      /\ InCas(root)
      /\ age' = Uplinked({root}, age)
      /\ stack' = [stack EXCEPT ![t] = s] /\ pc' = [pc EXCEPT ![t] = "sync"]
      /\ then' = then /\ up' = up /\ tries' = tries
  BY DEF Begin, ServiceUnchanged, serviceVars, ServerKept, Goto, Push
<1>2. /\ DOMAIN pc = Threads /\ DOMAIN stack = Threads /\ Doing(t) /\ Numbers /\ begun \in [Threads -> Nat]
      /\ root \in Objects /\ collections \in Nat /\ age \in Ages
  BY ActionTyped DEF Inv, Shape, CauseInv, Numbers, AgesInv
<1>3. stack[t] = <<>>
  BY <1>1, <1>2 DEF Doing, Retrieved
<1>4. s = <<Retrieve({root})>> /\ Len(s) = 1 /\ s[1] = Retrieve({root})
  BY <1>3
<1>5. /\ \A o \in Objects : age'[o] <= age[o]
      /\ age'[root] = 0
  <2>1. {root} \in SUBSET Objects /\ root \in Below[root] /\ age[root] < Generations
    BY <1>1, <1>2, BelowFacts DEF InCas
  <2> QED
    BY <1>1, <1>2, <2>1, UplinkedFalls
<1> HIDE DEF s, root
<1>6. pc'[t] = "sync" /\ stack'[t] = s /\ Others(t)
  BY <1>1, <1>2 DEF Others, Idles
<1>7. /\ collections' <= begun'[t] /\ tries'[t] <= LostCalls' /\ Role(t)' = Role(t) /\ Act(t)' = Act(t)
      /\ begun'[t] = collections /\ (Doing(t)' /\ Waiting(t)' => CauseInv')
  <2>1. pc'[t] # "execute"
    BY <1>6
  <2> QED
    BY <1>1, <1>5, <1>6, <2>1, BeginStep
<1>8. root \in Had(t)'
  BY <1>1, <1>2, <1>5, <1>7 DEF Had
<1>9. root \in Below[root]
  BY <1>2, BelowFacts
<1>10. Retrieved(s, "sync", Had(t)', root)
  <2>1. \A p \in 1 .. Len(s) : p = 1
    BY <1>4
  <2>2. s[1].infos \cup s[1].missing \cup s[1].todo \cup s[1].prerequisites \subseteq Below[root]
    BY <1>4, <1>9 DEF Retrieve
  <2> QED
    BY <1>8, <2>1, <2>2 DEF Retrieved
<1>11. PlaysRole("sync", "sync", then[t])
  BY DEF PlaysRole, Uploading
<1>12. Blamed(t)'
  <2>1. \A p \in 1 .. Len(s) : s[p].failure = FALSE
    BY <1>4 DEF Retrieve
  <2> QED
    BY <1>6, <1>7, <2>1 DEF Blamed
<1>13. Doing(t)'
  BY <1>1, <1>6, <1>7, <1>10, <1>11, <1>12 DEF Doing, root
<1>14. Waiting(t)'
  BY <1>6 DEF Waiting
<1> QED
  BY <1>7, <1>13, <1>14

LEMMA BeginCause ==
  ASSUME Inv, Inv', CauseInv, NEW t \in Threads, Begin(t)
  PROVE  CauseInv'
BY BeginBuildCause, BeginWaitCause, BeginSyncCause DEF Begin

-----------------------------------------------------------------------------
(* What is known of a retrieval. *)
LEMMA SyncKnown ==
  ASSUME Inv, CauseInv, NEW t \in Threads, pc[t] \in SyncPCs
  PROVE  LET root == InputRoot[Act(t)]
             s == stack[t]
         IN /\ Role(t) = "sync" /\ Numbers /\ Doing(t) /\ Handled(t) /\ tries[t] \in Nat /\ tries[t] <= LostCalls
            /\ collections <= begun[t]
            /\ DOMAIN pc = Threads
            /\ DOMAIN stack = Threads
            /\ s \in Seq(Frame)
            /\ Len(s) \in Nat
            /\ Len(s) > 0
            /\ Top(t) = s[Len(s)] /\ Top(t) \in Frame /\ Act(t) \in Actions /\ root \in Objects
            /\ Below[root] \subseteq Objects /\ Below[root] \subseteq Needs(Act(t)) /\ Closed(Below[root])
            /\ root \in Had(t)
            /\ \A p \in 1 .. Len(s) :
                 s[p].infos \cup s[p].missing \cup s[p].todo \cup s[p].prerequisites \subseteq Below[root]
            /\ \A p \in 1 .. Len(s) : s[p].failure = TRUE => Caused(t)
            /\ Len(s) \in 1 .. Len(s)
            /\ trouble \in Nat
            /\ broken \in Nat
            /\ limit \in Nat
            /\ LostCalls \in Nat
            /\ begun \in [Threads -> Nat]
<1>1. /\ Role(t) = "sync" /\ DOMAIN pc = Threads /\ DOMAIN stack = Threads /\ stack[t] \in Seq(Frame)
      /\ Len(stack[t]) > 0 /\ Top(t) = stack[t][Len(stack[t])] /\ Top(t) \in Frame
  BY RetrievalCalls
<1>2. Numbers /\ Doing(t) /\ Handled(t) /\ Act(t) \in Actions
  BY ActionTyped DEF CauseInv, Inv
<1>3. Len(stack[t]) \in Nat /\ Len(stack[t]) \in 1 .. Len(stack[t])
  BY <1>1
<1>4. /\ InputRoot[Act(t)] \in Objects /\ Below[InputRoot[Act(t)]] \subseteq Needs(Act(t))
      /\ Below[InputRoot[Act(t)]] \subseteq Objects /\ Closed(Below[InputRoot[Act(t)]])
  BY <1>2, NeedsTyped, BelowFacts
<1> QED
  BY <1>1, <1>2, <1>3, <1>4 DEF Doing, Retrieved, Blamed, Numbers

(* The open calls s of a retrieval of root by t only fail for a reason. *)
Inside(s, root) ==
  \A p \in 1 .. Len(s) : s[p].infos \cup s[p].missing \cup s[p].todo \cup s[p].prerequisites \subseteq Below[root]
FailsFor(t, s) == \A p \in 1 .. Len(s) : s[p].failure = TRUE => Caused(t) \/ Caused(t)'

(* A retrieval goes on to l with the open calls s. *)
LEMMA SyncGoesOn ==
  ASSUME Inv, Inv', CauseInv, NEW t \in Threads, pc[t] \in SyncPCs, UNCHANGED clientVars, ServiceUnchanged,
         then' = then, up' = up, tries' = tries, collections' = collections,
         limit' = limit \/ (limit' \in Nat /\ limit' <= limit),
         trouble' \in Nat, trouble' <= trouble, \A o \in Objects : age'[o] <= age[o],
         NEW l \in SyncPCs \cup {"ok", "failed"}, pc'[t] = l, \A u \in Threads : u # t => pc'[u] = pc[u],
         NEW s, stack'[t] = s, \A u \in Threads : u # t => stack'[u] = stack[u],
         Inside(s, InputRoot[Act(t)]), FailsFor(t, s),
         l = "failed" => Caused(t) \/ Caused(t)'
  PROVE  CauseInv'
<1>1. /\ ServerKept
      /\ begun' = begun
      /\ broken' = broken
      /\ handler' = handler
      /\ attempt' = attempt
      /\ cast' = cast
  BY DEF clientVars, ServiceUnchanged, serviceVars, ServerKept
<1>2. /\ Role(t) = "sync" /\ Numbers /\ Handled(t) /\ tries[t] \in Nat /\ tries[t] <= LostCalls
      /\ collections <= begun[t]
      /\ InputRoot[Act(t)] \in Had(t)
      /\ broken \in Nat
      /\ begun \in [Threads -> Nat]
  BY SyncKnown
<1>3. broken' \in Nat /\ broken <= broken' /\ begun' \in [Threads -> Nat]
  BY <1>1, <1>2
<1>4. Onward /\ Numbers' /\ LostCalls \in Nat /\ LostCalls' \in Nat /\ LostCalls <= LostCalls'
  BY <1>1, <1>3, CalmOnward
<1>5. Had(t) \subseteq Had(t)' /\ Role(t)' = Role(t) /\ Act(t)' = Act(t) /\ (Caused(t) => Caused(t)')
  BY <1>1, <1>2, <1>4, CausesRemain
<1>6. Retrieved(s, l, Had(t)', InputRoot[Act(t)])
  BY <1>2, <1>5 DEF Retrieved, SyncPCs, Inside
<1>7. collections' <= begun'[t] /\ tries'[t] <= LostCalls'
  BY <1>1, <1>2, <1>4
<1>8. PlaysRole("sync", l, then[t])
  BY DEF PlaysRole, SyncPCs, Uploading
<1>9. Blamed(t)'
  BY <1>2, <1>5 DEF Blamed, SyncPCs, FailsFor
<1>10. Doing(t)'
  BY <1>2, <1>5, <1>6, <1>7, <1>8, <1>9 DEF Doing
<1>11. Others(t)
  BY <1>1 DEF Others, Idles
<1>12. Handled(t)'
  <2>1. pc'[t] # "execute"
    BY DEF SyncPCs
  <2> QED
    BY <1>1, <1>2, <1>4, <2>1, HandledRemains
<1>13. Waiting(t)'
  BY DEF Waiting, SyncPCs
<1> QED
  BY <1>1, <1>4, <1>10, <1>11, <1>12, <1>13, ClientStep

(* Its last call goes on as f. *)
LEMMA SyncSets ==
  ASSUME Inv, Inv', CauseInv, NEW t \in Threads, pc[t] \in SyncPCs, UNCHANGED clientVars, ServiceUnchanged,
         then' = then, up' = up, tries' = tries, collections' = collections, limit' = limit,
         trouble' \in Nat, trouble' <= trouble, \A o \in Objects : age'[o] <= age[o],
         NEW l \in SyncPCs, pc'[t] = l, \A u \in Threads : u # t => pc'[u] = pc[u],
         NEW f, SetTop(t, f),
         f.infos \cup f.missing \cup f.todo \cup f.prerequisites \subseteq Below[InputRoot[Act(t)]],
         f.failure = TRUE => Caused(t) \/ Caused(t)'
  PROVE  CauseInv'
<1> DEFINE s == [stack[t] EXCEPT ![Len(stack[t])] = f]
<1>1. /\ DOMAIN stack = Threads /\ stack[t] \in Seq(Frame) /\ Len(stack[t]) \in Nat
      /\ \A p \in 1 .. Len(stack[t]) :
           stack[t][p].infos \cup stack[t][p].missing \cup stack[t][p].todo \cup stack[t][p].prerequisites
             \subseteq Below[InputRoot[Act(t)]]
      /\ \A p \in 1 .. Len(stack[t]) : stack[t][p].failure = TRUE => Caused(t)
  BY SyncKnown
<1>2. stack'[t] = s /\ \A u \in Threads : u # t => stack'[u] = stack[u]
  BY <1>1 DEF SetTop
<1>3. Len(s) = Len(stack[t]) /\ \A p \in 1 .. Len(s) : s[p] = stack[t][p] \/ s[p] = f
  BY <1>1
<1> HIDE DEF s
<1>4. Inside(s, InputRoot[Act(t)]) /\ FailsFor(t, s)
  BY <1>1, <1>3 DEF Inside, FailsFor
<1>5. l \in SyncPCs \cup {"ok", "failed"} /\ l # "failed"
  BY DEF SyncPCs
<1> QED
  BY <1>2, <1>4, <1>5, SyncGoesOn

(* Its last call returns. *)
LEMMA SyncPops ==
  ASSUME Inv, Inv', CauseInv, NEW t \in Threads, pc[t] \in SyncPCs, UNCHANGED clientVars, ServiceUnchanged,
         then' = then, up' = up, tries' = tries, UNCHANGED <<casVars, limit, trouble>>,
         NEW l \in SyncPCs \cup {"ok", "failed"}, Goto(t, l), Pop(t), l = "failed" => Caused(t)
  PROVE  CauseInv'
<1> DEFINE s == SubSeq(stack[t], 1, Len(stack[t]) - 1)
<1>1. /\ DOMAIN stack = Threads /\ DOMAIN pc = Threads /\ stack[t] \in Seq(Frame) /\ Len(stack[t]) \in Nat
      /\ Len(stack[t]) > 0 /\ trouble \in Nat
      /\ \A p \in 1 .. Len(stack[t]) :
           stack[t][p].infos \cup stack[t][p].missing \cup stack[t][p].todo \cup stack[t][p].prerequisites
             \subseteq Below[InputRoot[Act(t)]]
      /\ \A p \in 1 .. Len(stack[t]) : stack[t][p].failure = TRUE => Caused(t)
  BY SyncKnown
<1>2. stack'[t] = s /\ \A u \in Threads : u # t => stack'[u] = stack[u]
  BY <1>1 DEF Pop
<1>3. pc'[t] = l /\ \A u \in Threads : u # t => pc'[u] = pc[u]
  BY <1>1 DEF Goto
<1>4. Len(s) = Len(stack[t]) - 1 /\ \A p \in 1 .. Len(stack[t]) - 1 : s[p] = stack[t][p]
  BY <1>1, LastDropped
<1> HIDE DEF s
<1>5. \A p \in 1 .. Len(s) : p \in 1 .. Len(stack[t]) /\ s[p] = stack[t][p]
  BY <1>1, <1>4
<1>6. Inside(s, InputRoot[Act(t)]) /\ FailsFor(t, s)
  BY <1>1, <1>5 DEF Inside, FailsFor
<1>7. \A o \in Objects : age'[o] <= age[o]
  BY CasAssumption DEF casVars, Inv, AgesInv, Ages
<1>8. collections' = collections /\ limit' = limit /\ trouble' \in Nat /\ trouble' <= trouble
  BY <1>1 DEF casVars
<1> QED
  BY <1>2, <1>3, <1>6, <1>7, <1>8, SyncGoesOn

(* What is missing locally is taken from what is below the root. *)
LEMMA EnterCause ==
  ASSUME Inv, Inv', CauseInv, NEW t \in Threads, UNCHANGED clientVars, ServiceUnchanged, Enter(t)
  PROVE  CauseInv'
<1> DEFINE infos == Top(t).infos \ done[t]
           missing == infos \ local
           f == [Top(t) EXCEPT !.infos = infos, !.missing = missing, !.todo = missing \cap Trees]
           root == InputRoot[Act(t)]
<1>1. /\ pc[t] = "sync" /\ pc[t] \in SyncPCs /\ then' = then /\ up' = up /\ tries' = tries
      /\ UNCHANGED <<casVars, limit, trouble>> /\ collections' = collections /\ age' = age
      /\ limit' = limit /\ trouble' = trouble
  BY DEF Enter, SyncPCs, casVars
<1>2. /\ DOMAIN pc = Threads /\ Top(t) \in Frame /\ trouble \in Nat
      /\ Top(t).infos \cup Top(t).missing \cup Top(t).todo \cup Top(t).prerequisites \subseteq Below[root]
      /\ (Top(t).failure = TRUE => Caused(t))
  BY <1>1, SyncKnown
<1>3. CASE Pop(t) /\ Goto(t, IF OnlyCall(t) THEN "ok" ELSE "copy")
  <2>1. PICK l \in SyncPCs \cup {"ok", "failed"} : Goto(t, l) /\ l # "failed"
    BY <1>3 DEF SyncPCs
  <2> QED
    BY <1>1, <1>3, <2>1, SyncPops
<1>4. CASE SetTop(t, f) /\ Goto(t, "read")
  <2>1. /\ f.infos = infos /\ f.missing = missing /\ f.todo = missing \cap Trees
        /\ f.prerequisites = Top(t).prerequisites /\ f.failure = Top(t).failure
    BY <1>2 DEF Frame
  <2>2. f.infos \cup f.missing \cup f.todo \cup f.prerequisites \subseteq Below[root]
    BY <1>2, <2>1
  <2>3. SetTop(t, f) /\ pc'[t] = "read" /\ \A u \in Threads : u # t => pc'[u] = pc[u]
    BY <1>2, <1>4 DEF Goto
  <2> HIDE DEF f, infos, missing
  <2>4. f.failure = TRUE => Caused(t) \/ Caused(t)'
    BY <1>2, <2>1
  <2>5. "read" \in SyncPCs /\ trouble' \in Nat /\ trouble' <= trouble /\ \A o \in Objects : age'[o] <= age[o]
    BY <1>1, <1>2, CasAssumption DEF SyncPCs, Inv, AgesInv, Ages
  <2> QED
    BY <1>1, <2>2, <2>3, <2>4, <2>5, SyncSets
<1> QED
  BY <1>3, <1>4 DEF Enter

(* Entries of what is below the root are below it. *)
LEMMA ReadEntriesCause ==
  ASSUME Inv, Inv', CauseInv, NEW t \in Threads, UNCHANGED clientVars, ServiceUnchanged, ReadEntries(t)
  PROVE  CauseInv'
<1> DEFINE root == InputRoot[Act(t)]
<1>1. /\ pc[t] = "read" /\ pc[t] \in SyncPCs /\ pc' = pc /\ then' = then /\ up' = up /\ tries' = tries
      /\ collections' = collections /\ limit' = limit
  BY DEF ReadEntries, SyncPCs, upVars
<1>2. /\ Top(t) \in Frame /\ trouble \in Nat /\ Below[root] \subseteq Objects /\ Closed(Below[root])
      /\ Top(t).infos \cup Top(t).missing \cup Top(t).todo \cup Top(t).prerequisites \subseteq Below[root]
      /\ (Top(t).failure = TRUE => Caused(t))
  BY <1>1, SyncKnown
<1>3. PICK o \in Top(t).todo :
        \/ /\ age' = Uplinked({o}, age) /\ trouble' = trouble
           /\ SetTop(t, [Top(t) EXCEPT !.todo = @ \ {o}, !.prerequisites = @ \cup Entries[o]])
        \/ /\ SetTop(t, [Top(t) EXCEPT !.todo = @ \ {o}]) /\ age' = age
           /\ ~InCas(o) \/ trouble > 0
           /\ trouble' = IF InCas(o) THEN trouble - 1 ELSE trouble
  BY DEF ReadEntries
<1>4. o \in Below[root] /\ o \in Objects /\ Entries[o] \subseteq Below[root]
  BY <1>2 DEF Closed
<1>5. trouble' \in Nat /\ trouble' <= trouble
  BY <1>2, <1>3
<1>6. \A x \in Objects : age'[x] <= age[x]
  <2>1. CASE age' = Uplinked({o}, age)
    <3>1. {o} \in SUBSET Objects
      BY <1>4
    <3> QED
      BY <2>1, <3>1, UplinkedFalls DEF Inv, AgesInv
  <2>2. CASE age' = age
    BY <2>2, CasAssumption DEF Inv, AgesInv, Ages
  <2> QED
    BY <1>3, <2>1, <2>2
<1>7. PICK f : /\ SetTop(t, f) /\ f.failure = Top(t).failure
               /\ f.infos \cup f.missing \cup f.todo \cup f.prerequisites \subseteq Below[root]
  <2> DEFINE g == [Top(t) EXCEPT !.todo = @ \ {o}, !.prerequisites = @ \cup Entries[o]]
             h == [Top(t) EXCEPT !.todo = @ \ {o}]
  <2>1. /\ g.infos = Top(t).infos /\ g.missing = Top(t).missing /\ g.failure = Top(t).failure
        /\ g.todo = Top(t).todo \ {o} /\ g.prerequisites = Top(t).prerequisites \cup Entries[o]
    BY <1>2 DEF Frame
  <2>2. /\ h.infos = Top(t).infos /\ h.missing = Top(t).missing /\ h.failure = Top(t).failure
        /\ h.todo = Top(t).todo \ {o} /\ h.prerequisites = Top(t).prerequisites
    BY <1>2 DEF Frame
  <2>3. SetTop(t, g) \/ SetTop(t, h)
    BY <1>3
  <2> HIDE DEF g, h
  <2>4. g.infos \cup g.missing \cup g.todo \cup g.prerequisites \subseteq Below[root]
    BY <1>2, <1>4, <2>1
  <2>5. h.infos \cup h.missing \cup h.todo \cup h.prerequisites \subseteq Below[root]
    BY <1>2, <1>4, <2>2
  <2> QED
    BY <2>1, <2>2, <2>3, <2>4, <2>5
<1>8. f.failure = TRUE => Caused(t) \/ Caused(t)'
  BY <1>2, <1>7
<1> QED
  BY <1>1, <1>5, <1>6, <1>7, <1>8, SyncSets

LEMMA PrerequisitesCause ==
  ASSUME Inv, Inv', CauseInv, NEW t \in Threads, UNCHANGED clientVars, ServiceUnchanged, Prerequisites(t)
  PROVE  CauseInv'
<1> DEFINE root == InputRoot[Act(t)]
           f == Retrieve(Top(t).prerequisites)
           s == Append(stack[t], f)
<1>1. /\ pc[t] = "read" /\ pc[t] \in SyncPCs /\ then' = then /\ up' = up /\ tries' = tries
      /\ collections' = collections /\ age' = age /\ limit' = limit /\ trouble' = trouble
      /\ stack' = [stack EXCEPT ![t] = s] /\ pc' = [pc EXCEPT ![t] = "sync"]
  BY DEF Prerequisites, SyncPCs, casVars, Push, Goto
<1>2. /\ DOMAIN pc = Threads /\ DOMAIN stack = Threads /\ stack[t] \in Seq(Frame) /\ Len(stack[t]) \in Nat
      /\ trouble \in Nat /\ Top(t).prerequisites \subseteq Below[root]
      /\ \A p \in 1 .. Len(stack[t]) :
           stack[t][p].infos \cup stack[t][p].missing \cup stack[t][p].todo \cup stack[t][p].prerequisites
             \subseteq Below[root]
      /\ \A p \in 1 .. Len(stack[t]) : stack[t][p].failure = TRUE => Caused(t)
  BY <1>1, SyncKnown
<1>3. /\ f.infos = Top(t).prerequisites
      /\ f.missing = {}
      /\ f.todo = {}
      /\ f.prerequisites = {}
      /\ f.failure = FALSE
  BY DEF Retrieve
<1> HIDE DEF f
<1>4. Len(s) = Len(stack[t]) + 1 /\ \A p \in 1 .. Len(s) : s[p] = f \/ (p \in 1 .. Len(stack[t]) /\ s[p] = stack[t][p])
  BY <1>2
<1> HIDE DEF s
<1>5. Inside(s, root) /\ FailsFor(t, s)
  BY <1>2, <1>3, <1>4 DEF Inside, FailsFor
<1>6. /\ stack'[t] = s /\ \A u \in Threads : u # t => stack'[u] = stack[u]
      /\ pc'[t] = "sync" /\ \A u \in Threads : u # t => pc'[u] = pc[u]
  BY <1>1, <1>2
<1>7. /\ "sync" \in SyncPCs \cup {"ok", "failed"} /\ trouble' \in Nat /\ trouble' <= trouble
      /\ \A o \in Objects : age'[o] <= age[o]
  BY <1>1, <1>2, CasAssumption DEF SyncPCs, Inv, AgesInv, Ages
<1> QED
  BY <1>1, <1>5, <1>6, <1>7, SyncGoesOn

(* A tree is there with all below it. *)
LEMMA BelowIsThere ==
  ASSUME Inv, NEW r \in Objects, InCas(r)
  PROVE  \A o \in Below[r] : InCas(o)
<1> DEFINE S == {o \in Objects : InCas(o)}
<1>1. Closed(S)
  <2> SUFFICES ASSUME NEW o \in Objects, InCas(o), NEW e \in Entries[o]
               PROVE  e \in Objects /\ InCas(e)
    BY DEF Closed
  <2>1. o \in Trees /\ e \in Objects
    BY CasAssumption
  <2>2. age[e] <= age[o] /\ age[o] < Generations
    BY <2>1 DEF Inv, AgesInv, TreesOK, InCas
  <2>3. age[e] \in Nat /\ age[o] \in Nat /\ Generations \in Nat
    BY <2>1, CasAssumption DEF Inv, AgesInv, Ages
  <2> QED
    BY <2>1, <2>2, <2>3 DEF InCas
<1>2. S \in SUBSET Objects /\ r \in S
  OBVIOUS
<1>3. Below[r] \subseteq S
  BY <1>1, <1>2, BelowFacts
<1> QED
  BY <1>3

(* If it can be relied on, but something below it is not there, the build  *)
(* root has been collected too often.                                      *)
LEMMA GoneMeans ==
  ASSUME Inv, Numbers, NEW t \in Threads, NEW r \in Had(t), NEW o \in Below[r], ~InCas(o)
  PROVE  begun[t] - collections >= Generations
<1>1. r \in Objects
  BY DEF Had
<1>2. ~InCas(r)
  BY <1>1, BelowIsThere
<1> QED
  BY <1>2, HadIsThere

(* What can not be copied has been collected, or the calls were lost. *)
LEMMA ReadTooLargeCause ==
  ASSUME Inv, Inv', CauseInv, NEW t \in Threads, UNCHANGED clientVars, ServiceUnchanged, ReadTooLarge(t)
  PROVE  CauseInv'
<1>1. /\ pc[t] \in SyncPCs /\ pc' = pc /\ then' = then /\ up' = up /\ tries' = tries
      /\ collections' = collections /\ age' = age /\ trouble' = trouble /\ stack' = stack
  BY DEF ReadTooLarge, SyncPCs, casVars, upVars, transferVars
<1>2. /\ Numbers /\ trouble \in Nat /\ limit \in Nat /\ Top(t) \in Frame
      /\ \A p \in 1 .. Len(stack[t]) :
           stack[t][p].infos \cup stack[t][p].missing \cup stack[t][p].todo \cup stack[t][p].prerequisites
             \subseteq Below[InputRoot[Act(t)]]
      /\ \A p \in 1 .. Len(stack[t]) : stack[t][p].failure = TRUE => Caused(t)
      /\ Top(t).missing \subseteq Objects
  BY <1>1, SyncKnown
<1>3. PICK o \in Top(t).missing : TooLarge(o) /\ limit' = Max({Size[o] \div 2, MinBatch})
  BY DEF ReadTooLarge
<1>4. Size[o] \in Nat /\ MinBatch \in Nat /\ MaxGrpc \in Nat
  BY <1>2, <1>3, CasAssumption
<1>5. Size[o] > MinBatch /\ Size[o] <= limit
  <2>1. Min({MaxGrpc, limit}) = IF MaxGrpc < limit THEN MaxGrpc ELSE limit
    BY <1>2, <1>4, MinOfTwo
  <2> QED
    BY <1>2, <1>3, <1>4, <2>1 DEF TooLarge, Streamed
<1>6. limit' \in Nat /\ limit' <= limit
  <2>1. Size[o] \div 2 \in Nat /\ Size[o] \div 2 <= Size[o]
    BY <1>4
  <2>2. limit' = IF Size[o] \div 2 > MinBatch THEN Size[o] \div 2 ELSE MinBatch
    BY <1>3, <1>4, <2>1, MaxOfTwo
  <2> QED
    BY <1>2, <1>4, <1>5, <2>1, <2>2
<1>7. \A x \in Objects : age'[x] <= age[x]
  BY <1>1, CasAssumption DEF Inv, AgesInv, Ages
<1>8. Inside(stack[t], InputRoot[Act(t)]) /\ FailsFor(t, stack[t])
  BY <1>2 DEF Inside, FailsFor
<1>9. pc[t] \in SyncPCs \cup {"ok", "failed"} /\ pc[t] # "failed" /\ trouble' \in Nat /\ trouble' <= trouble
  BY <1>1, <1>2 DEF SyncPCs
<1> QED
  BY <1>1, <1>6, <1>7, <1>8, <1>9, SyncGoesOn

LEMMA CopyCause ==
  ASSUME Inv, Inv', CauseInv, NEW t \in Threads, UNCHANGED clientVars, ServiceUnchanged, Copy(t)
  PROVE  CauseInv'
<1> DEFINE root == InputRoot[Act(t)]
<1>1. /\ pc[t] = "copy" /\ pc[t] \in SyncPCs /\ pc' = pc /\ then' = then /\ up' = up /\ tries' = tries
      /\ collections' = collections /\ limit' = limit
  BY DEF Copy, SyncPCs, upVars
<1>2. /\ Top(t) \in Frame
      /\ trouble \in Nat
      /\ Below[root] \subseteq Objects
      /\ Below[root] \subseteq Needs(Act(t))
      /\ Top(t).infos \cup Top(t).missing \cup Top(t).todo \cup Top(t).prerequisites \subseteq Below[root]
      /\ (Top(t).failure = TRUE => Caused(t)) /\ root \in Had(t) /\ Numbers /\ limit \in Nat /\ Act(t) \in Actions
      /\ broken \in Nat /\ begun \in [Threads -> Nat]
  BY <1>1, SyncKnown
<1>3. PICK o \in Top(t).missing :
        \/ /\ age' = Uplinked({o}, age) /\ trouble' = trouble
           /\ SetTop(t, [Top(t) EXCEPT !.missing = @ \ {o}])
        \/ /\ SetTop(t, [Top(t) EXCEPT !.missing = @ \ {o}, !.failure = TRUE]) /\ age' = age
           /\ IF InCas(o) THEN ~TooLarge(o) /\ Lose(LostToFail(o)) ELSE trouble' = trouble
  BY DEF Copy
<1>4. /\ o \in Below[root] /\ o \in Objects /\ o \in Needs(Act(t)) /\ Size[o] \in Nat /\ MaxAttempts \in Nat
      /\ MaxGrpc \in Nat /\ ServerMax \in Nat /\ MinBatch \in Nat
  BY <1>2, CasAssumption
<1>5. CASE /\ age' = Uplinked({o}, age) /\ trouble' = trouble
           /\ SetTop(t, [Top(t) EXCEPT !.missing = @ \ {o}])
  <2> DEFINE f == [Top(t) EXCEPT !.missing = @ \ {o}]
  <2>1. /\ f.infos = Top(t).infos /\ f.missing = Top(t).missing \ {o} /\ f.failure = Top(t).failure
        /\ f.todo = Top(t).todo /\ f.prerequisites = Top(t).prerequisites
    BY <1>2 DEF Frame
  <2>2. SetTop(t, f)
    BY <1>5
  <2> HIDE DEF f
  <2>3. f.infos \cup f.missing \cup f.todo \cup f.prerequisites \subseteq Below[root]
    BY <1>2, <2>1
  <2>4. f.failure = TRUE => Caused(t) \/ Caused(t)'
    BY <1>2, <2>1
  <2>5. \A x \in Objects : age'[x] <= age[x]
    <3>1. {o} \in SUBSET Objects
      BY <1>4
    <3> QED
      BY <1>5, <3>1, UplinkedFalls DEF Inv, AgesInv
  <2>6. trouble' \in Nat /\ trouble' <= trouble
    BY <1>2, <1>5
  <2> QED
    BY <1>1, <2>2, <2>3, <2>4, <2>5, <2>6, SyncSets
<1>6. CASE /\ SetTop(t, [Top(t) EXCEPT !.missing = @ \ {o}, !.failure = TRUE]) /\ age' = age
           /\ IF InCas(o) THEN ~TooLarge(o) /\ Lose(LostToFail(o)) ELSE trouble' = trouble
  <2> DEFINE f == [Top(t) EXCEPT !.missing = @ \ {o}, !.failure = TRUE]
         hard == Streamed(o) \/ Size[o] > ServerMax
  <2>1. /\ f.infos = Top(t).infos /\ f.missing = Top(t).missing \ {o}
        /\ f.todo = Top(t).todo /\ f.prerequisites = Top(t).prerequisites
    BY <1>2 DEF Frame
  <2>2. SetTop(t, f)
    BY <1>6
  <2> HIDE DEF f
  <2>3. f.infos \cup f.missing \cup f.todo \cup f.prerequisites \subseteq Below[root]
    BY <1>2, <2>1
  <2>4. \A x \in Objects : age'[x] <= age[x]
    BY <1>6, CasAssumption DEF Inv, AgesInv, Ages
  <2>5. /\ trouble' \in Nat /\ trouble' <= trouble
        /\ InCas(o) => /\ trouble - trouble' = IF hard THEN 1 ELSE MaxAttempts + 1
                       /\ ~TooLarge(o)
    BY <1>2, <1>4, <1>6 DEF Lose, LostToFail
  <2>6. begun' = begun /\ broken' = broken /\ cast' = cast
    BY DEF clientVars, ServiceUnchanged, serviceVars
  <2>7. broken' \in Nat /\ broken <= broken' /\ begun' \in [Threads -> Nat]
    BY <1>2, <2>6
  <2>8. /\ Onward /\ Numbers' /\ LostCalls \in Nat /\ LostCalls' \in Nat
        /\ LostCalls' = LostCalls + (trouble - trouble')
    BY <1>1, <2>4, <2>5, <2>6, <2>7, CalmOnward
  <2>9. Fragile(t) => Fragile(t)'
    BY <1>2, <2>6, <2>8, CausesRemain
  <2>10. Caused(t) \/ Caused(t)'
    <3>1. CASE ~InCas(o)
      <4>1. begun[t] - collections >= Generations
        BY <1>2, <1>4, <3>1, GoneMeans
      <4> QED
        BY <2>8, <4>1, IsCaused
    <3>2. CASE InCas(o) /\ hard
      <4>1. Fragile(t)
        <5>1. Min({MaxGrpc, limit}) = IF MaxGrpc < limit THEN MaxGrpc ELSE limit
          BY <1>2, <1>4, MinOfTwo
        <5>2. CASE Streamed(o)
          BY <1>2, <1>4, <5>1, <5>2, FragileMeans DEF Streamed
        <5>3. CASE ~Streamed(o)
          <6>1. Size[o] > ServerMax /\ ~(Size[o] > MinBatch)
            BY <2>5, <3>2, <5>3 DEF TooLarge
          <6>2. ServerMax < MinBatch
            BY <1>4, <6>1
          <6> QED
            BY <1>2, <6>2, FragileMeans
        <5> QED
          BY <5>2, <5>3
      <4>2. LostCalls' >= 1
        BY <2>5, <2>8, <3>2
      <4> QED
        BY <2>8, <2>9, <4>1, <4>2, IsCausedThen
    <3>3. CASE InCas(o) /\ ~hard
      <4>1. LostCalls' = LostCalls + (MaxAttempts + 1)
        BY <2>5, <2>8, <3>3
      <4>2. LostCalls' >= MaxAttempts
        BY <1>4, <2>8, <4>1
      <4> QED
        BY <2>8, <4>2, IsCausedThen
    <3> QED
      BY <3>1, <3>2, <3>3
  <2> QED
    BY <1>1, <2>2, <2>3, <2>4, <2>5, <2>10, SyncSets
<1> QED
  BY <1>3, <1>5, <1>6

LEMMA CopiedCause ==
  ASSUME Inv, Inv', CauseInv, NEW t \in Threads, UNCHANGED clientVars, ServiceUnchanged, Copied(t)
  PROVE  CauseInv'
<1>1. /\ pc[t] = "copy" /\ pc[t] \in SyncPCs /\ then' = then /\ up' = up /\ tries' = tries /\ Pop(t)
      /\ UNCHANGED <<casVars, limit, trouble>>
  BY DEF Copied, SyncPCs
<1>2. Top(t) \in Frame /\ (Top(t).failure = TRUE => Caused(t))
  BY <1>1, SyncKnown
<1>3. PICK l \in SyncPCs \cup {"ok", "failed"} : Goto(t, l) /\ (l = "failed" => Top(t).failure)
  BY DEF Copied, SyncPCs
<1>4. l = "failed" => Caused(t)
  BY <1>2, <1>3 DEF Frame
<1> QED
  BY <1>1, <1>3, <1>4, SyncPops

LEMMA SynchronizesCause ==
  ASSUME Inv, Inv', CauseInv, NEW t \in Threads, Synchronizes(t)
  PROVE  CauseInv'
BY EnterCause, ReadEntriesCause, PrerequisitesCause, ReadTooLargeCause, CopyCause, CopiedCause
   DEF Synchronizes, SyncStep

-----------------------------------------------------------------------------
(* Operations that get dropped are of a crowd. *)
LEMMA SetKnown ==
  ASSUME Inv, Known(op) \subseteq Involved, NEW a \in Involved, NEW state \in {"ongoing", "done"}, Set(a, state)
  PROVE  /\ Known(op)' \subseteq Involved
         /\ \A x \in Actions : op'[x] # "none" \/ op[x] = "none" \/ Crowded
<1>1. PICK S \in Dropped : op' = [x \in Actions |-> IF x = a THEN state ELSE IF x \in S THEN "none" ELSE op[x]]
  BY DEF Set
<1>2. Involved \subseteq Actions
  BY ActionTyped, ExecutionAssumption DEF Involved, Played, Inv, Shape
<1>3. Known(op)' \subseteq Involved
  BY <1>1, <1>2 DEF Known
<1>4. CASE Cardinality(Known(op)) <= 2 * Threshold
  <2>1. S = {}
    BY <1>1, <1>4 DEF Dropped
  <2> QED
    BY <1>1, <1>3, <2>1
<1>5. CASE ~(Cardinality(Known(op)) <= 2 * Threshold)
  <2>1. /\ IsFiniteSet(Involved) /\ Cardinality(Known(op)) <= Cardinality(Involved)
        /\ Cardinality(Involved) \in Nat /\ Cardinality(Known(op)) \in Nat /\ 2 * Threshold \in Nat
    <3>1. IsFiniteSet(Involved)
      BY <1>2, ExecutionAssumption, FS_Subset
    <3>2. Known(op) \in SUBSET Involved
      OBVIOUS
    <3> QED
      BY <3>1, <3>2, FS_Subset, FS_CardinalityType, ExecutionAssumption
  <2>2. Cardinality(Involved) > 2 * Threshold
    BY <1>5, <2>1
  <2>3. Crowded
    BY <2>2 DEF Crowded, Involved
  <2> QED
    BY <1>3, <2>3
<1> QED
  BY <1>4, <1>5

(* An execution goes on to stage g. *)
LEMMA HandlerCause ==
  ASSUME Inv, Inv', CauseInv, NEW t \in Threads, NEW k \in 1 .. MaxAttempts, ExecuteUnchanged,
         broken' \in Nat, broken <= broken', \A o \in Objects : age'[o] <= age[o],
         NEW g \in {"running", "ran", "ok", "internal"}, NEW x, SetHandler(t, k, g, x),
         handler[t][k].stage \in {"called"} \cup Working,
         g = "internal" => Caused(t) \/ broken' > 0,
         g = "running" => handler[t][k].stage = "called",
         op' = op \/ \E state \in {"ongoing", "done"} : Set(Act(t), state)
  PROVE  CauseInv'
<1> DEFINE h == [stage |-> g, exit |-> x]
<1>1. /\ pc' = pc /\ then' = then /\ up' = up /\ tries' = tries /\ stack' = stack /\ begun' = begun
      /\ collections' = collections
      /\ limit' = limit
      /\ trouble' = trouble
      /\ cast' = cast
      /\ attempt' = attempt
  BY DEF ExecuteUnchanged, upVars, transferVars, clientVars
<1>2. /\ Numbers /\ trouble \in Nat /\ begun \in [Threads -> Nat] /\ Known(op) \subseteq Involved
      /\ Doing(t)
      /\ Handled(t)
      /\ handler \in [Threads -> [1 .. MaxAttempts -> [stage : Stages, exit : Exits]]]
  BY DEF CauseInv, Numbers, Inv, Shape
<1>3. Onward /\ Numbers' /\ LostCalls \in Nat /\ LostCalls' \in Nat /\ LostCalls <= LostCalls'
  BY <1>1, <1>2, CalmOnward
<1>4. /\ Had(t) \subseteq Had(t)' /\ Role(t)' = Role(t) /\ Act(t)' = Act(t) /\ (Caused(t) => Caused(t)')
  BY <1>1, <1>2, <1>3, CausesRemain
<1>5. handler' = [handler EXCEPT ![t] = [handler[t] EXCEPT ![k] = h]]
  BY DEF SetHandler
<1>6. h.stage = g
  OBVIOUS
<1> HIDE DEF h
<1>7. /\ handler'[t][k] = h /\ \A j \in 1 .. MaxAttempts : j # k => handler'[t][j] = handler[t][j]
      /\ \A u \in Threads : u # t => handler'[u] = handler[u] /\ attempt'[u] = attempt[u]
  BY <1>1, <1>2, <1>5
<1>8. Role(t) = "build" /\ Act(t) \in Involved
  <2>1. Role(t) = "build"
    BY <1>2 DEF Handled, Working
  <2> QED
    BY <2>1 DEF Involved, Played
<1>9. g = "internal" => Caused(t)'
  <2>1. broken' > 0 => Caused(t)'
    BY DEF Caused
  <2> QED
    BY <1>4, <2>1
<1>10. ASSUME NEW j \in 1 .. MaxAttempts
       PROVE  /\ handler'[t][j].stage # "none" => Role(t) = "build"
              /\ handler'[t][j].stage \in {"called", "running"} =>
                   InputRoot[Act(t)] \in Had(t)' /\ Messages[Act(t)] \subseteq Had(t)'
              /\ handler'[t][j].stage = "internal" => Caused(t)'
  <2>1. CASE j = k
    <3>1. g = "running" => InputRoot[Act(t)] \in Had(t) /\ Messages[Act(t)] \subseteq Had(t)
      BY <1>2 DEF Handled
    <3> QED
      BY <1>4, <1>6, <1>7, <1>8, <1>9, <2>1, <3>1
  <2>2. CASE j # k
    <3>1. handler'[t][j] = handler[t][j]
      BY <1>7, <2>2
    <3> QED
      BY <1>2, <1>4, <1>8, <3>1 DEF Handled
  <2> QED
    BY <2>1, <2>2
<1>11. pc[t] = "execute" =>
         /\ attempt[t] \in 1 .. MaxAttempts /\ attempt[t] <= LostCalls' + 1
         /\ handler'[t][attempt[t]].stage = "none" => attempt[t] <= LostCalls'
  <2> SUFFICES ASSUME pc[t] = "execute"
               PROVE  /\ attempt[t] \in 1 .. MaxAttempts /\ attempt[t] <= LostCalls' + 1
                      /\ handler'[t][attempt[t]].stage = "none" => attempt[t] <= LostCalls'
    OBVIOUS
  <2>1. /\ attempt[t] \in 1 .. MaxAttempts /\ attempt[t] <= LostCalls + 1
        /\ handler[t][attempt[t]].stage = "none" => attempt[t] <= LostCalls
    BY <1>2 DEF Handled
  <2>2. handler'[t][attempt[t]].stage = "none" => handler[t][attempt[t]].stage = "none"
    BY <1>6, <1>7, <2>1
  <2> QED
    BY <1>3, <2>1, <2>2
<1>12. Handled(t)'
  BY <1>1, <1>4, <1>10, <1>11 DEF Handled
<1>13. Others(t) /\ Idles(t)
  BY <1>1 DEF Others, Idles
<1>14. Doing(t)'
  BY <1>2, <1>3, <1>13, DoingRemains
<1>15. Waiting(t)'
  <2>1. pc[t] # "wait"
    BY <1>2, <1>8 DEF Doing, PlaysRole, CasLabels, AfterQuery, AfterUpload
  <2> QED
    BY <1>1, <2>1 DEF Waiting
<1>16. /\ Known(op)' \subseteq Involved
       /\ \A y \in Actions : op'[y] # "none" \/ op[y] = "none" \/ Crowded
  <2>1. CASE op' = op
    BY <1>2, <2>1 DEF Known
  <2>2. CASE \E state \in {"ongoing", "done"} : Set(Act(t), state)
    BY <1>2, <1>8, <2>2, SetKnown
  <2> QED
    BY <2>1, <2>2
<1>17. \A u \in Threads : u # t /\ pc[u] = "wait" => op'[Act(u)] # "none" \/ op[Act(u)] = "none" \/ Crowded
  BY <1>16, ActionTyped DEF Inv
<1> QED
  BY <1>3, <1>7, <1>12, <1>13, <1>14, <1>15, <1>16, <1>17, ServiceStep

(* The action, its command and its input root are there when it is asked for, *)
LEMMA PrepareCause ==
  ASSUME Inv, Inv', CauseInv, NEW t \in Threads, NEW k \in 1 .. MaxAttempts, Prepare(t, k)
  PROVE  CauseInv'
<1> DEFINE read == Messages[Act(t)] \cup {InputRoot[Act(t)]}
<1>1. /\ handler[t][k].stage = "called" /\ ExecuteUnchanged /\ broken' = broken
      /\ age' = Uplinked(read, age)
      /\ \/ SetHandler(t, k, "running", "none") /\ Set(Act(t), "ongoing")
         \/ /\ SetHandler(t, k, "internal", "none") /\ op' = op
            /\ ~ \A o \in read : InCas(o)
  BY DEF Prepare, HandlerAt
<1>2. Numbers /\ Handled(t) /\ broken \in Nat /\ LostCalls \in Nat /\ read \in SUBSET Objects
  BY ActionTyped, ExecutionAssumption DEF Inv, CauseInv, Numbers
<1>3. \A o \in Objects : age'[o] <= age[o]
  BY <1>1, <1>2, UplinkedFalls DEF Inv, AgesInv
<1>4. broken' \in Nat /\ broken <= broken' /\ handler[t][k].stage \in {"called"} \cup Working
  BY <1>1, <1>2
<1>5. CASE SetHandler(t, k, "running", "none") /\ Set(Act(t), "ongoing")
  BY <1>1, <1>3, <1>4, <1>5, HandlerCause
<1>6. CASE /\ SetHandler(t, k, "internal", "none") /\ op' = op
           /\ ~ \A o \in read : InCas(o)
  <2>1. PICK o \in read : ~InCas(o)
    BY <1>6
  <2>2. o \in Had(t)
    BY <1>1, <1>2, <2>1 DEF Handled
  <2>3. Caused(t)
    BY <1>2, <2>1, <2>2, HadIsThere, IsCaused
  <2> QED
    BY <1>1, <1>3, <1>4, <1>6, <2>3, HandlerCause
<1> QED
  BY <1>1, <1>5, <1>6

LEMMA FromCacheCause ==
  ASSUME Inv, Inv', CauseInv, NEW t \in Threads, NEW k \in 1 .. MaxAttempts, FromCache(t, k)
  PROVE  CauseInv'
<1>1. /\ handler[t][k].stage = "running" /\ ExecuteUnchanged /\ op' = op /\ broken' = broken
      /\ age' = Uplinked({Output[Act(t)]}, age) /\ SetHandler(t, k, "ran", "0")
  BY DEF FromCache, HandlerAt
<1>2. {Output[Act(t)]} \in SUBSET Objects /\ broken \in Nat
  BY ActionTyped, ExecutionAssumption DEF Inv, CauseInv, Numbers
<1>3. \A o \in Objects : age'[o] <= age[o]
  BY <1>1, <1>2, UplinkedFalls DEF Inv, AgesInv
<1>4. broken' \in Nat /\ broken <= broken' /\ handler[t][k].stage \in {"called"} \cup Working
  BY <1>1, <1>2 DEF Working
<1> QED
  BY <1>1, <1>3, <1>4, HandlerCause

(* and so is what is below it.                                             *)
LEMMA RunCause ==
  ASSUME Inv, Inv', CauseInv, NEW t \in Threads, NEW k \in 1 .. MaxAttempts, Run(t, k)
  PROVE  CauseInv'
<1> DEFINE root == InputRoot[Act(t)]
           a == Uplinked({root}, age)
           S == Below[Output[Act(t)]]
<1>1. handler[t][k].stage = "running" /\ ExecuteUnchanged /\ op' = op /\ broken' = broken
  BY DEF Run, HandlerAt
<1>2. \/ age' = Stored(S, a) /\ \E x \in {"0", "1"} : SetHandler(t, k, "ran", x)
      \/ age' = age /\ SetHandler(t, k, "internal", "none") /\ ~ \A o \in Below[root] : InCas(o)
  BY DEF Run
<1>3. /\ Numbers
      /\ Handled(t)
      /\ broken \in Nat
      /\ LostCalls \in Nat
      /\ root \in Objects
      /\ age \in Ages
      /\ TreesOK(age)
      /\ {root} \in SUBSET Objects /\ S \in SUBSET Objects
  BY ActionTyped, ExecutionAssumption, BelowFacts DEF Inv, CauseInv, Numbers, AgesInv
<1>4. broken' \in Nat /\ broken <= broken' /\ handler[t][k].stage \in {"called"} \cup Working
  BY <1>1, <1>3 DEF Working
<1>5. CASE age' = Stored(S, a) /\ \E x \in {"0", "1"} : SetHandler(t, k, "ran", x)
  <2>1. a \in Ages /\ \A o \in Objects : a[o] <= age[o]
    BY <1>3, UplinkedTrees, UplinkedFalls
  <2>2. \A o \in Objects : Stored(S, a)[o] <= a[o]
    BY <1>3, <2>1, StoredFalls
  <2> HIDE DEF a, S
  <2>3. \A o \in Objects : age'[o] <= age[o]
    <3> SUFFICES ASSUME NEW o \in Objects
                 PROVE  age'[o] <= age[o]
      OBVIOUS
    <3>1. age'[o] \in Nat /\ a[o] \in Nat /\ age[o] \in Nat
      BY <1>3, <2>1, CasAssumption DEF Inv, AgesInv, Ages
    <3>2. age'[o] <= a[o] /\ a[o] <= age[o]
      BY <1>5, <2>1, <2>2
    <3> QED
      BY <3>1, <3>2
  <2> QED
    BY <1>1, <1>4, <1>5, <2>3, HandlerCause
<1>6. CASE age' = age /\ SetHandler(t, k, "internal", "none") /\ ~ \A o \in Below[root] : InCas(o)
  <2>1. PICK o \in Below[root] : ~InCas(o)
    BY <1>6
  <2>2. root \in Had(t)
    BY <1>1, <1>3 DEF Handled
  <2>3. Caused(t)
    BY <1>3, <2>1, <2>2, GoneMeans, IsCaused
  <2>4. \A x \in Objects : age'[x] <= age[x]
    BY <1>6, CasAssumption DEF Inv, AgesInv, Ages
  <2> QED
    BY <1>1, <1>4, <1>6, <2>3, <2>4, HandlerCause
<1> QED
  BY <1>2, <1>5, <1>6

LEMMA BreaksCause ==
  ASSUME Inv, Inv', CauseInv, NEW t \in Threads, NEW k \in 1 .. MaxAttempts, Breaks(t, k)
  PROVE  CauseInv'
<1>1. /\ handler[t][k].stage \in {"called"} \cup Working /\ ExecuteUnchanged /\ op' = op /\ age' = age
      /\ SetHandler(t, k, "internal", "none") /\ broken = 0 /\ broken' = 1
  BY DEF Breaks
<1>2. broken' \in Nat /\ broken <= broken' /\ broken' > 0 /\ \A o \in Objects : age'[o] <= age[o]
  BY <1>1, CasAssumption DEF Inv, AgesInv, Ages
<1> QED
  BY <1>1, <1>2, HandlerCause

LEMMA RespondCause ==
  ASSUME Inv, Inv', CauseInv, NEW t \in Threads, NEW k \in 1 .. MaxAttempts, Respond(t, k)
  PROVE  CauseInv'
<1>1. /\ handler[t][k].stage = "ran" /\ ExecuteUnchanged /\ age' = age /\ broken' = broken
      /\ SetHandler(t, k, "ok", handler[t][k].exit) /\ Set(Act(t), "done")
  BY DEF Respond, HandlerAt
<1>2. broken \in Nat /\ \A o \in Objects : age'[o] <= age[o]
  BY <1>1, CasAssumption DEF Inv, AgesInv, Ages, CauseInv, Numbers
<1>3. broken' \in Nat /\ broken <= broken' /\ handler[t][k].stage \in {"called"} \cup Working
  BY <1>1, <1>2 DEF Working
<1> QED
  BY <1>1, <1>2, <1>3, HandlerCause

-----------------------------------------------------------------------------
(* Clients are not disturbed where nobody does anything. *)
LEMMA NobodyCause ==
  ASSUME Inv, Inv', CauseInv, Onward, Numbers', ServerKept, \A u \in Threads : Idles(u)
  PROVE  CauseInv'
<1>1. handler' = handler /\ op' = op /\ attempt' = attempt /\ cast' = cast
  BY DEF ServerKept
<1>2. Numbers /\ \A u \in Threads : Doing(u) /\ Handled(u) /\ Waiting(u)
  BY DEF CauseInv
<1>3. ASSUME NEW u \in Threads
      PROVE  Doing(u)' /\ Handled(u)' /\ Waiting(u)'
  <2>1. begun'[u] = begun[u] /\ pc'[u] = pc[u]
    BY DEF Idles
  <2>2. Doing(u)'
    BY <1>2, DoingRemains
  <2>3. Handled(u)'
    BY <1>1, <1>2, <2>1, HandledRemains
  <2>4. LostCalls <= LostCalls' /\ (Crowded => Crowded') /\ LostCalls \in Nat /\ LostCalls' \in Nat
    BY <1>2, <2>1, CausesRemain DEF Numbers
  <2>5. LostCalls > 0 => LostCalls' > 0
    BY <2>4
  <2>6. pc'[u] = "wait" => op'[Act(u)] # "none" \/ LostCalls' > 0 \/ Crowded'
    BY <1>1, <1>2, <2>1, <2>4, <2>5 DEF Waiting
  <2> QED
    BY <1>2, <2>1, <2>2, <2>3, <2>6, WaitingRemains
<1>4. Known(op)' \subseteq Involved'
  <2>1. \A u : Act(u)' = Act(u) /\ Role(u)' = Role(u)
    BY <1>1, RolesFixed
  <2>2. Known(op)' = Known(op) /\ Involved' = Involved
    BY <1>1, <2>1 DEF Known, Involved, Played
  <2> QED
    BY <2>2 DEF CauseInv
<1> QED
  BY <1>3, <1>4 DEF CauseInv

(* Each collection makes objects older by one, but is one less to come. *)
LEMMA CollectCause ==
  ASSUME Inv, Inv', CauseInv, Collect
  PROVE  CauseInv'
<1>1. /\ collections > 0 /\ collections' = collections - 1
      /\ age' = [o \in Objects |-> Min({age[o] + 1, Generations})]
      /\ ServerKept
      /\ limit' = limit
      /\ trouble' = trouble
      /\ broken' = broken
      /\ begun' = begun
      /\ tries' = tries
      /\ \A u \in Threads : Idles(u)
  BY DEF Collect, upVars, transferVars, clientVars, ServerKept, Idles
<1>2. /\ collections \in Nat /\ trouble \in Nat /\ limit \in Nat /\ broken \in Nat /\ LostCalls \in Nat
      /\ begun \in [Threads -> Nat] /\ tries \in [Threads -> Nat] /\ cast' = cast
  BY <1>1 DEF CauseInv, Numbers, ServerKept
<1>3. LostCalls' = LostCalls
  BY <1>1, <1>2 DEF LostCalls
<1>4. collections' \in Nat /\ collections' <= collections
  BY <1>1, <1>2
<1>5. Numbers'
  BY <1>1, <1>2, <1>3, <1>4 DEF Numbers
<1>6. ASSUME NEW o \in Objects
      PROVE  age'[o] + collections' <= age[o] + collections
  <2>1. age[o] \in Nat /\ age[o] + 1 \in Nat /\ Generations \in Nat
    BY CasAssumption DEF Inv, AgesInv, Ages
  <2>2. age'[o] = IF age[o] + 1 < Generations THEN age[o] + 1 ELSE Generations
    BY <1>1, <2>1, MinOfTwo
  <2>3. age'[o] <= age[o] + 1 /\ age'[o] \in Nat
    BY <2>1, <2>2
  <2> QED
    BY <1>1, <1>2, <2>1, <2>3
<1>7. Onward
  <2>1. limit' <= limit /\ trouble' <= trouble /\ broken <= broken'
    BY <1>1, <1>2
  <2> QED
    BY <1>2, <1>4, <1>6, <2>1 DEF Onward
<1> QED
  BY <1>1, <1>5, <1>7, NobodyCause

(* A restart is one more call lost, for all that were being executed. *)
LEMMA RestartCause ==
  ASSUME Inv, Inv', CauseInv, Restart
  PROVE  CauseInv'
<1> DEFINE none == [stage |-> "none", exit |-> "none"]
           H(u, k) == IF handler[u][k].stage \in {"called"} \cup Working THEN none ELSE handler[u][k]
<1>1. /\ trouble >= 1 /\ trouble' = trouble - 1 /\ op' = [a \in Actions |-> "none"]
      /\ handler' = [u \in Threads |-> [k \in 1 .. MaxAttempts |-> H(u, k)]]
      /\ collections' = collections /\ limit' = limit /\ broken' = broken /\ begun' = begun /\ tries' = tries
      /\ age' = age /\ cast' = cast /\ attempt' = attempt /\ pc' = pc
      /\ \A u \in Threads : Idles(u)
  BY DEF Restart, Lose, casVars, upVars, transferVars, clientVars, Idles
<1>2. /\ Numbers /\ trouble \in Nat /\ broken \in Nat /\ begun \in [Threads -> Nat]
      /\ \A u \in Threads : Doing(u) /\ Handled(u)
  BY DEF CauseInv, Numbers
<1>3. /\ trouble' \in Nat /\ trouble' <= trouble /\ broken' \in Nat /\ broken <= broken'
      /\ begun' \in [Threads -> Nat] /\ \A o \in Objects : age'[o] <= age[o]
  BY <1>1, <1>2, CasAssumption DEF Inv, AgesInv, Ages
<1>4. /\ Onward /\ Numbers' /\ LostCalls \in Nat /\ LostCalls' \in Nat
      /\ LostCalls' = LostCalls + (trouble - trouble')
  BY <1>1, <1>3, CalmOnward
<1>5. LostCalls' = LostCalls + 1
  BY <1>1, <1>2, <1>4
<1>6. \A u \in Threads, k \in 1 .. MaxAttempts : handler'[u][k].stage = "none" \/ handler'[u][k] = handler[u][k]
  BY <1>1
<1>7. \A u \in Threads, k \in 1 .. MaxAttempts : handler'[u][k].stage \notin {"called", "running"}
  BY <1>1 DEF Working
<1> HIDE DEF H, none
<1>8. ASSUME NEW u \in Threads
      PROVE  Doing(u)' /\ Handled(u)' /\ Waiting(u)'
  <2>1. Doing(u)'
    BY <1>1, <1>2, <1>4, DoingRemains
  <2>2. Role(u)' = Role(u) /\ (Caused(u) => Caused(u)') /\ begun'[u] = begun[u]
    BY <1>1, <1>2, <1>4, CausesRemain
  <2>3. \A k \in 1 .. MaxAttempts :
          /\ handler'[u][k].stage # "none" => Role(u) = "build"
          /\ handler'[u][k].stage = "internal" => Caused(u)'
    BY <1>2, <1>6, <2>2 DEF Handled
  <2>4. pc[u] = "execute" => attempt[u] \in 1 .. MaxAttempts /\ attempt[u] <= LostCalls'
    BY <1>2, <1>5 DEF Handled
  <2>5. attempt[u] <= LostCalls' => attempt[u] <= LostCalls' + 1
    BY <1>4, CasAssumption DEF Inv, Shape
  <2>6. Handled(u)'
    BY <1>1, <1>7, <2>2, <2>3, <2>4, <2>5 DEF Handled
  <2>7. LostCalls' > 0
    BY <1>4, <1>5
  <2> QED
    BY <2>1, <2>6, <2>7 DEF Waiting
<1>9. Known(op)' \subseteq Involved'
  BY <1>1 DEF Known
<1> QED
  BY <1>4, <1>8, <1>9 DEF CauseInv

-----------------------------------------------------------------------------
(* In the beginning nothing is relied on, and nothing lost. *)
LEMMA InitCause ==
  ASSUME Init
  PROVE  CauseInv
<1>1. /\ cast \in DOMAIN Casts /\ trouble = Casts[cast].lost /\ collections = Casts[cast].collections
      /\ limit = ReportedMax /\ broken = 0
      /\ pc = [t \in Threads |-> "idle"] /\ then = [t \in Threads |-> "idle"]
      /\ up = [t \in Threads |-> NoTransfer] /\ tries = [t \in Threads |-> 0]
      /\ stack = [t \in Threads |-> <<>>] /\ begun = [t \in Threads |-> collections]
      /\ op = [a \in Actions |-> IF a \in Casts[cast].executed THEN "done" ELSE "none"]
      /\ handler = [t \in Threads |-> [k \in 1 .. MaxAttempts |-> [stage |-> "none", exit |-> "none"]]]
      /\ attempt = [t \in Threads |-> 0]
  BY DEF Init, CasInit, TransferInit
<1>2. collections \in Nat /\ trouble \in Nat /\ limit \in Nat
  BY <1>1, ExecutionAssumption, CasAssumption
<1>3. LostCalls = 0
  BY <1>1, <1>2 DEF LostCalls
<1>4. Numbers
  BY <1>1, <1>2, <1>3 DEF Numbers
<1>5. Known(op) \subseteq Involved
  BY <1>1 DEF Known, Involved
<1>6. ASSUME NEW t \in Threads
      PROVE  Doing(t) /\ Handled(t) /\ Waiting(t)
  <2>1. /\ pc[t] = "idle" /\ then[t] = "idle" /\ up[t] = NoTransfer /\ tries[t] = 0 /\ stack[t] = <<>>
        /\ begun[t] = collections /\ attempt[t] = 0
        /\ \A k \in 1 .. MaxAttempts : handler[t][k].stage = "none"
    BY <1>1
  <2>2. PlaysRole(Role(t), "idle", "idle")
    <3>1. Role(t) \in {"none", "build", "wait", "sync"}
      BY <1>1, ExecutionAssumption DEF Role
    <3> QED
      BY DEF PlaysRole, Uploading
  <2>3. At("idle", "idle") = "idle" /\ "idle" \notin InTree
    BY DEF At, CasLabels, InTree
  <2>4. /\ NoTransfer.blobs = {} /\ NoTransfer.left = {} /\ NoTransfer.batch = {} /\ NoTransfer.updated = {}
        /\ "idle" \notin Uploading
    BY DEF NoTransfer, Uploading
  <2>5. Transferred(NoTransfer, "idle", Had(t), Act(t), limit)
    BY <2>4 DEF Transferred
  <2>6. Reached("idle", "idle", NoTransfer, Had(t), Act(t))
    BY <2>3 DEF Reached
  <2>7. Nested(<<>>, "idle", "idle", NoTransfer, Had(t), InputRoot[Act(t)])
    BY <2>3, NestedEmpty
  <2>8. Retrieved(<<>>, "idle", Had(t), InputRoot[Act(t)])
    BY DEF Retrieved, SyncPCs
  <2>9. Blamed(t)
    BY <2>1 DEF Blamed
  <2>10. collections <= begun[t] /\ tries[t] <= LostCalls
    BY <1>2, <1>3, <2>1
  <2>11. Doing(t)
    BY <2>1, <2>2, <2>5, <2>6, <2>7, <2>8, <2>9, <2>10 DEF Doing
  <2>12. Handled(t) /\ Waiting(t)
    BY <2>1 DEF Handled, Waiting
  <2> QED
    BY <2>11, <2>12
<1> QED
  BY <1>4, <1>5, <1>6 DEF CauseInv

LEMMA StutterCause ==
  ASSUME Inv, Inv', CauseInv, UNCHANGED vars
  PROVE  CauseInv'
<1>1. /\ ServerKept /\ collections' = collections /\ limit' = limit /\ trouble' = trouble /\ broken' = broken
      /\ begun' = begun /\ tries' = tries /\ age' = age /\ cast' = cast /\ \A u \in Threads : Idles(u)
  BY DEF vars, casVars, upVars, transferVars, serviceVars, clientVars, ServerKept, Idles
<1>2. trouble \in Nat /\ broken \in Nat /\ begun \in [Threads -> Nat]
  BY DEF CauseInv, Numbers
<1>3. /\ trouble' \in Nat /\ trouble' <= trouble /\ broken' \in Nat /\ broken <= broken'
      /\ begun' \in [Threads -> Nat] /\ \A o \in Objects : age'[o] <= age[o]
  BY <1>1, <1>2, CasAssumption DEF Inv, AgesInv, Ages
<1>4. Onward /\ Numbers'
  BY <1>1, <1>3, CalmOnward
<1> QED
  BY <1>1, <1>4, NobodyCause

LEMMA LostCause ==
  ASSUME Inv, Inv', CauseInv, NEW t \in Threads, Lost(t)
  PROVE  CauseInv'
<1>1. CASE TransferLost(t) /\ UNCHANGED <<transferVars, clientVars>> /\ ServiceUnchanged
  <2>1. Around
    BY <1>1 DEF Around
  <2> QED
    BY <1>1, <2>1, EveryTransferCause
<1> QED
  BY <1>1, LookupLostCause, UnavailableCause DEF Lost

(* Every step keeps the invariant. *)
LEMMA NextCause ==
  ASSUME Inv, Inv', CauseInv, [Next]_vars
  PROVE  CauseInv'
<1>1. CASE \E t \in Threads : Begin(t) \/ Client(t) \/ Lost(t)
  BY <1>1, BeginCause, UploadsCause, SynchronizesCause, GetActionResultCause, ExecuteCause,
     ReadExecutionCause, WaitExecutionCause, UnavailableCause, LostCause DEF Client
<1>2. CASE \E t \in Threads, k \in 1 .. MaxAttempts : Handles(t, k) \/ Breaks(t, k)
  BY <1>2, PrepareCause, FromCacheCause, RunCause, RespondCause, BreaksCause DEF Handles
<1>3. CASE Collect \/ Restart
  BY <1>3, CollectCause, RestartCause
<1>4. CASE UNCHANGED vars
  BY <1>4, StutterCause
<1> QED
  BY <1>1, <1>2, <1>3, <1>4 DEF Next

(* A job only fails if the connection was lost as often as a call is       *)
(* tried, an execution broke, or the build root was collected too often;   *)
(* waiting also if the operation got forgotten: what the client uploads,   *)
(* in whatever batches, by whatever threads and between whatever           *)
(* collections, is accepted, and found again when it is needed.            *)
THEOREM FailuresCaused == Spec => []FailureHasCause
<1>1. Init => CauseInv
  BY InitCause
<1>2. Inv /\ Inv' /\ CauseInv /\ [Next]_vars => CauseInv'
  BY NextCause
<1>3. CauseInv => FailureHasCause
  BY DEF CauseInv, Doing, Blamed, Forgotten, FailureHasCause
<1> QED
  BY <1>1, <1>2, <1>3, InvariantHolds, PTL DEF Spec

=============================================================================
