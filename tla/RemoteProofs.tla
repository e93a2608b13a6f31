---------------------------- MODULE RemoteProofs ----------------------------
(***************************************************************************)
(* Safety of remote execution, for all objects, trees, actions, threads    *)
(* and limits: what the CAS of the service keeps, that whoever waits finds *)
(* what is running, and what a retrieval leaves in the local CAS.          *)
(***************************************************************************)
EXTENDS RemoteExecution, FiniteSetTheorems, TLAPS

-----------------------------------------------------------------------------
(* The inductive invariant. *)
SyncPCs == {"sync", "read", "copy"}
Final == {"execute", "ok", "failed"}
Exits == {"none", "0", "1"}

Shape ==
  /\ cast \in DOMAIN Casts
  /\ DOMAIN pc = Threads /\ DOMAIN then = Threads /\ DOMAIN up = Threads
  /\ DOMAIN stack = Threads /\ DOMAIN done = Threads
  /\ attempt \in [Threads -> 0 .. MaxAttempts]
  /\ op \in [Actions -> {"none", "ongoing", "done"}]
  /\ handler \in [Threads -> [1 .. MaxAttempts -> [stage : Stages, exit : Exits]]]

(* Ages of the service's objects, of which no tree is younger than one of  *)
(* its entries.                                                            *)
Ages == [Objects -> 0 .. Generations]
TreesOK(a) == \A o \in Trees : a[o] < Generations => \A e \in Entries[o] : a[e] <= a[o]
AgesInv == age \in Ages /\ TreesOK(age)

(* Only threads that synchronize are, or will be, at its labels.           *)
RolesKept ==
  \A t \in Threads :
    IF Role(t) = "sync" THEN pc[t] \in SyncPCs \cup {"idle", "ok", "failed"}
    ELSE pc[t] \notin SyncPCs /\ then[t] \notin SyncPCs

(* Transfers are of objects, and so are the open calls of uploads and of  *)
(* retrievals.                                                             *)
InTree == {"level", "nodes", "add"}
UploadFrame == [node : Objects, todo : SUBSET Objects, cur : Objects, container : SUBSET Objects]

TransferOK(u) ==
  /\ DOMAIN u = {"blobs", "left", "batch", "updated", "max", "failed"}
  /\ u.blobs \subseteq Objects /\ u.left \subseteq Objects
  /\ u.batch \subseteq Objects /\ u.updated \subseteq Objects

UploadOK(s, label, next) ==
  /\ s \in Seq(UploadFrame)
  /\ label \in InTree \/ (label \in CasLabels /\ next \in InTree) => Len(s) > 0

Frame == [infos : SUBSET Objects, missing : SUBSET Objects, todo : SUBSET Objects,
          prerequisites : SUBSET Objects, failure : BOOLEAN]

RetrievalOK(s, label) == s \in Seq(Frame) /\ (label \in SyncPCs => Len(s) > 0)

CallsTyped ==
  \A t \in Threads :
    /\ TransferOK(up[t])
    /\ IF Role(t) = "sync" THEN RetrievalOK(stack[t], pc[t]) ELSE UploadOK(stack[t], pc[t], then[t])

(* Attempts come one after the other, the first one after all uploads.     *)
AttemptsInOrder ==
  \A t \in Threads :
    /\ attempt[t] # 0 => pc[t] \in Final
    /\ \A k \in 1 .. MaxAttempts : k > attempt[t] => handler[t][k].stage = "none"

(* What runs is ongoing, unless another execution of it has finished.      *)
Finished(t, k) ==
  \E u \in Threads, j \in 1 .. MaxAttempts :
    Act(u) = Act(t) /\ <<u, j>> # <<t, k>> /\ handler[u][j].stage = "ok"
RunningOngoing ==
  \A t \in Threads, k \in 1 .. MaxAttempts :
    handler[t][k].stage \in Working => op[Act(t)] = "ongoing" \/ Finished(t, k)

(* The open calls s of a thread that retrieves root, knows d to be         *)
(* synchronized and is at label l, while loc is in the local CAS.          *)
Pursued(f) == \A o \in f.missing : o \in f.todo \/ Entries[o] \subseteq f.prerequisites
Taken(f, loc) == f.failure \/ f.infos \subseteq loc \cup f.missing
Above(f, g, d) == f.todo = {} /\ f.prerequisites \subseteq g.infos \cup d

Calls(s, d, l, loc, root) ==
  /\ s \in Seq(Frame) /\ Len(s) > 0 /\ root \in s[1].infos \cup d
  /\ \A p \in 1 .. Len(s) : Pursued(s[p])
  /\ \A p \in 1 .. Len(s) : p < Len(s) => Taken(s[p], loc) /\ Above(s[p], s[p + 1], d)
  /\ l # "sync" => Taken(s[Len(s)], loc)
  /\ l = "copy" => \A o \in s[Len(s)].missing : Entries[o] \subseteq loc

Synced(s, d, l, loc, root) ==
  /\ d \subseteq loc
  /\ l = "idle" => s = <<>>
  /\ l = "ok" => root \in loc
  /\ l \in SyncPCs => Calls(s, d, l, loc, root)

SyncInv ==
  unread = {} =>
    /\ local \subseteq Objects /\ Closed(local)
    /\ \A t \in Threads : Role(t) = "sync" => Synced(stack[t], done[t], pc[t], local, InputRoot[Act(t)])

Inv ==
  /\ Shape /\ AgesInv /\ RolesKept /\ CallsTyped /\ AttemptsInOrder
  /\ RunningOngoing /\ OperationsBounded /\ SyncInv

-----------------------------------------------------------------------------
(* What is below an object is the least closed set with it. *)
LEMMA BelowFacts ==
  /\ \A o \in Objects : Below[o] \subseteq Objects /\ o \in Below[o] /\ Closed(Below[o])
  /\ \A o \in Objects, S \in SUBSET Objects : o \in S /\ Closed(S) => Below[o] \subseteq S
<1>1. \A o \in Objects : Below[o] = {x \in Objects : \A S \in SUBSET Objects : (o \in S /\ Closed(S)) => x \in S}
  BY DEF Below
<1>2. ASSUME NEW o \in Objects PROVE  Closed(Below[o])
  <2> SUFFICES ASSUME NEW p \in Below[o], NEW e \in Entries[p]
               PROVE  e \in Below[o]
    BY DEF Closed
  <2>1. p \in Objects
    BY <1>1
  <2>2. e \in Objects
    BY <2>1, CasAssumption
  <2>3. ASSUME NEW S \in SUBSET Objects, o \in S, Closed(S)
        PROVE  e \in S
    <3>1. p \in S
      BY <1>1, <2>3
    <3> QED
      BY <2>3, <3>1 DEF Closed
  <2> QED
    BY <1>1, <2>2, <2>3
<1>3. ASSUME NEW o \in Objects
      PROVE  /\ Below[o] \subseteq Objects /\ o \in Below[o]
             /\ \A S \in SUBSET Objects : o \in S /\ Closed(S) => Below[o] \subseteq S
  BY <1>1
<1> QED
  BY <1>2, <1>3

(* Looking objects up leaves trees no younger than their entries. *)
LEMMA UplinkedTrees ==
  ASSUME NEW a \in Ages, TreesOK(a), NEW S \in SUBSET Objects
  PROVE  Uplinked(S, a) \in Ages /\ TreesOK(Uplinked(S, a))
<1> DEFINE u == Uplinked(S, a)
           found(o) == a[o] < Generations /\ \E x \in S : a[x] < Generations /\ o \in Below[x]
<1>1. /\ \A o \in Objects : a[o] \in 0 .. Generations /\ u[o] = IF found(o) THEN 0 ELSE a[o]
      /\ DOMAIN u = Objects
  BY DEF Uplinked, Ages
<1>2. Generations \in Nat \ {0} /\ \A o \in Trees : o \in Objects /\ Entries[o] \subseteq Objects
  BY CasAssumption
<1>3. u \in Ages
  <2>1. \A o \in Objects : u[o] \in 0 .. Generations
    BY <1>1, <1>2
  <2>2. u = [o \in Objects |-> u[o]]
    BY DEF Uplinked
  <2> HIDE DEF u
  <2> QED
    BY <2>1, <2>2 DEF Ages
<1>4. ASSUME NEW o \in Trees, u[o] < Generations, NEW e \in Entries[o]
      PROVE  u[e] <= u[o]
  <2>1. o \in Objects /\ e \in Objects
    BY <1>2
  <2>2. a[o] \in 0 .. Generations /\ a[e] \in 0 .. Generations
    BY <1>1, <2>1
  <2>3. a[o] < Generations
    BY <1>1, <1>4, <2>1
  <2>4. a[e] <= a[o]
    BY <2>3 DEF TreesOK
  <2>5. CASE found(o)
    <3>1. PICK x \in S : a[x] < Generations /\ o \in Below[x]
      BY <2>5
    <3>2. e \in Below[x]
      BY <3>1, BelowFacts DEF Closed
    <3>3. found(e)
      BY <1>2, <2>2, <2>3, <2>4, <3>1, <3>2
    <3> QED
      BY <1>1, <2>1, <2>5, <3>3
  <2>6. CASE ~found(o)
    <3>1. u[o] = a[o] /\ (u[e] = 0 \/ u[e] = a[e])
      BY <1>1, <2>1, <2>6
    <3> HIDE DEF u, found
    <3> QED
      BY <2>2, <2>4, <3>1
  <2> QED
    BY <2>5, <2>6
<1> HIDE DEF u
<1>5. TreesOK(u)
  BY <1>4 DEF TreesOK
<1> QED
  BY <1>3, <1>5 DEF u

(* Storing a set that is complete with what is there does so, too. *)
LEMMA StoredTrees ==
  ASSUME NEW a \in Ages, TreesOK(a), NEW S \in SUBSET Objects,
         \A o \in S : \A e \in Entries[o] : e \in S \/ a[e] < Generations
  PROVE  Stored(S, a) \in Ages /\ TreesOK(Stored(S, a))
<1> DEFINE E == UNION {Entries[x] : x \in S}
           u == Uplinked(E, a)
           s == Stored(S, a)
<1>1. E \in SUBSET Objects
  BY CasAssumption
<1>2. u \in Ages /\ TreesOK(u)
  BY <1>1, UplinkedTrees
<1>3. s = [o \in Objects |-> IF o \in S THEN 0 ELSE u[o]]
  BY DEF Stored
<1>4. \A e \in E : a[e] < Generations => u[e] = 0
  <2> SUFFICES ASSUME NEW e \in E, a[e] < Generations
               PROVE  u[e] = 0
    OBVIOUS
  <2>1. e \in Objects /\ e \in Below[e]
    BY <1>1, BelowFacts
  <2> QED
    BY <2>1 DEF Uplinked
<1>5. \A o \in S : \A e \in Entries[o] : e \in E
  OBVIOUS
<1> HIDE DEF u, s, E
<1>6. Generations \in Nat \ {0} /\ \A o \in Trees : o \in Objects /\ Entries[o] \subseteq Objects
  BY CasAssumption
<1>7. \A o \in Objects : u[o] \in 0 .. Generations /\ s[o] = IF o \in S THEN 0 ELSE u[o]
  BY <1>2, <1>3 DEF Ages
<1>8. s \in Ages
  BY <1>3, <1>6, <1>7 DEF Ages
<1>9. ASSUME NEW o \in Trees, s[o] < Generations, NEW e \in Entries[o]
      PROVE  s[e] <= s[o]
  <2>1. o \in Objects /\ e \in Objects
    BY <1>6
  <2>2. CASE o \in S
    <3>1. s[e] = 0
      BY <1>4, <1>5, <1>7, <2>1, <2>2
    <3> QED
      BY <1>6, <1>7, <2>1, <3>1
  <2>3. CASE o \notin S
    <3>1. s[o] = u[o] /\ u[e] <= u[o] /\ (s[e] = 0 \/ s[e] = u[e])
      BY <1>2, <1>7, <1>9, <2>1, <2>3 DEF TreesOK
    <3> QED
      BY <1>7, <2>1, <3>1
  <2> QED
    BY <2>2, <2>3
<1> QED
  BY <1>8, <1>9 DEF TreesOK, s

(* A collection ages everything alike. *)
LEMMA AgedTrees ==
  ASSUME NEW a \in Ages, TreesOK(a)
  PROVE  LET n == [o \in Objects |-> Min({a[o] + 1, Generations})]
         IN n \in Ages /\ TreesOK(n)
<1> DEFINE n == [o \in Objects |-> Min({a[o] + 1, Generations})]
<1>1. Generations \in Nat \ {0} /\ \A o \in Trees : o \in Objects /\ Entries[o] \subseteq Objects
  BY CasAssumption
<1>2. \A x \in 0 .. Generations :
        Min({x + 1, Generations}) = IF x < Generations THEN x + 1 ELSE Generations
  <2> SUFFICES ASSUME NEW x \in 0 .. Generations
               PROVE  Min({x + 1, Generations}) = IF x < Generations THEN x + 1 ELSE Generations
    OBVIOUS
  <2> DEFINE m == IF x < Generations THEN x + 1 ELSE Generations
             P(y) == y \in {x + 1, Generations} /\ \A z \in {x + 1, Generations} : y <= z
  <2>1. P(m) /\ \A y : P(y) => y = m
    BY <1>1
  <2>2. Min({x + 1, Generations}) = CHOOSE y \in {x + 1, Generations} : \A z \in {x + 1, Generations} : y <= z
    BY DEF Min
  <2> QED
    BY <2>1, <2>2
<1>3. \A o \in Objects : a[o] \in 0 .. Generations /\ n[o] = IF a[o] < Generations THEN a[o] + 1 ELSE Generations
  BY <1>2 DEF Ages
<1>4. n \in Ages
  <2>1. \A o \in Objects : n[o] \in 0 .. Generations
    BY <1>1, <1>3
  <2>2. n = [o \in Objects |-> n[o]]
    OBVIOUS
  <2> HIDE DEF n
  <2> QED
    BY <2>1, <2>2 DEF Ages
<1> HIDE DEF n
<1>5. ASSUME NEW o \in Trees, n[o] < Generations, NEW e \in Entries[o]
      PROVE  n[e] <= n[o]
  <2>1. o \in Objects /\ e \in Objects
    BY <1>1
  <2>2. a[o] < Generations
    BY <1>1, <1>3, <1>5, <2>1
  <2>3. a[e] <= a[o]
    BY <2>2 DEF TreesOK
  <2> QED
    BY <1>1, <1>3, <2>1, <2>2, <2>3
<1> QED
  BY <1>4, <1>5 DEF TreesOK, n

-----------------------------------------------------------------------------
(* The larger of two numbers. *)
LEMMA MaxOfTwo ==
  ASSUME NEW x \in Nat, NEW y \in Nat
  PROVE  Max({x, y}) = IF x < y THEN y ELSE x
<1> DEFINE m == IF x < y THEN y ELSE x
           P(z) == z \in {x, y} /\ \A w \in {x, y} : z >= w
<1>1. P(m) /\ \A z : P(z) => z = m
  OBVIOUS
<1>2. Max({x, y}) = CHOOSE z \in {x, y} : \A w \in {x, y} : z >= w
  BY DEF Max
<1> QED
  BY <1>1, <1>2

(* The smaller of two numbers. *)
LEMMA MinOfTwo ==
  ASSUME NEW x \in Nat, NEW y \in Nat
  PROVE  Min({x, y}) = IF x < y THEN x ELSE y
<1> DEFINE m == IF x < y THEN x ELSE y
           P(z) == z \in {x, y} /\ \A w \in {x, y} : z <= w
<1>1. P(m) /\ \A z : P(z) => z = m
  OBVIOUS
<1>2. Min({x, y}) = CHOOSE z \in {x, y} : \A w \in {x, y} : z <= w
  BY DEF Min
<1> QED
  BY <1>1, <1>2

(* Sets of operations are finite. *)
LEMMA OperationSets ==
  ASSUME NEW S \in SUBSET Actions
  PROVE  IsFiniteSet(S) /\ Cardinality(S) \in Nat
BY ExecutionAssumption, FS_Subset, FS_CardinalityType

(* The bound in terms of what is known and what is not done. *)
LEMMA BoundMeans ==
  OperationsBounded <=> \/ Cardinality(Known(op)) <= 2 * Threshold + 1
                        \/ Cardinality(Known(op)) <= Cardinality(Known(op) \ DoneOps) + 1
<1>1. Known(op) \in SUBSET Actions /\ Known(op) \ DoneOps \in SUBSET Actions
  BY DEF Known
<1>2. Cardinality(Known(op)) \in Nat /\ Cardinality(Known(op) \ DoneOps) + 1 \in Nat /\ 2 * Threshold + 1 \in Nat
  BY <1>1, OperationSets, ExecutionAssumption
<1> DEFINE k == Cardinality(Known(op))
           x == 2 * Threshold + 1
           y == Cardinality(Known(op) \ DoneOps) + 1
<1>3. OperationsBounded <=> k <= Max({x, y})
  BY DEF OperationsBounded
<1>4. k \in Nat /\ x \in Nat /\ y \in Nat
  BY <1>2
<1> HIDE DEF k, x, y
<1>5. OperationsBounded <=> k <= x \/ k <= y
  BY <1>3, <1>4, MaxOfTwo
<1> QED
  BY <1>5 DEF k, x, y

(* Setting an operation keeps the others that are not done, and the bound. *)
LEMMA SetBounded ==
  ASSUME op \in [Actions -> {"none", "ongoing", "done"}], OperationsBounded,
         NEW a \in Actions, NEW state \in {"ongoing", "done"}, Set(a, state)
  PROVE  /\ op' \in [Actions -> {"none", "ongoing", "done"}] /\ op'[a] = state
         /\ \A x \in Actions : x # a /\ op[x] = "ongoing" => op'[x] = "ongoing"
         /\ OperationsBounded'
<1> DEFINE K == Known(op)
           D == DoneOps
           G == K \ D
           KN == Known(op')
           GN == KN \ (DoneOps')
<1>1. PICK S \in Dropped : op' = [x \in Actions |-> IF x = a THEN state ELSE IF x \in S THEN "none" ELSE op[x]]
  BY DEF Set
<1>2. /\ K \in SUBSET Actions /\ D \in SUBSET K /\ G \in SUBSET Actions
      /\ KN \in SUBSET Actions /\ GN \in SUBSET Actions
  BY DEF Known, DoneOps
<1>3. /\ \A X \in SUBSET Actions : IsFiniteSet(X) /\ Cardinality(X) \in Nat
      /\ Threshold \in Nat \ {0}
  BY OperationSets, ExecutionAssumption
<1>4. IF Cardinality(K) <= 2 * Threshold THEN S = {}
      ELSE S \in SUBSET D /\ Cardinality(S) = Min({Threshold, Cardinality(D)})
  BY <1>1 DEF Dropped
<1>5. S \in SUBSET D
  BY <1>4
<1>6. op' \in [Actions -> {"none", "ongoing", "done"}] /\ op'[a] = state
  BY <1>1
<1>7. \A x \in Actions : x # a /\ op[x] = "ongoing" => op'[x] = "ongoing"
  BY <1>1, <1>5 DEF DoneOps
<1>8. KN = (K \ S) \cup {a} /\ G \ {a} \subseteq GN
  BY <1>1, <1>5 DEF Known, DoneOps
<1> HIDE DEF K, D, G, KN, GN
<1>9. Cardinality(KN) <= Cardinality(K \ S) + 1
  <2>1. K \ S \in SUBSET Actions
    BY <1>2
  <2> QED
    BY <1>3, <1>8, <2>1, FS_AddElement
<1>10. Cardinality(KN) <= 2 * Threshold + 1 \/ Cardinality(KN) <= Cardinality(GN) + 1
  <2>1. CASE Cardinality(K) <= 2 * Threshold
    <3>1. S = {} /\ K \ S = K
      BY <1>4, <2>1
    <3> QED
      BY <1>2, <1>3, <1>9, <2>1, <3>1
  <2>2. CASE Cardinality(K) > 2 * Threshold /\ S = D
    <3>1. KN \ {a} \subseteq GN
      BY <1>8, <2>2 DEF G
    <3>2. KN \ {a} \in SUBSET GN
      BY <3>1
    <3>3. Cardinality(KN \ {a}) <= Cardinality(GN)
      BY <1>2, <1>3, <3>2, FS_Subset
    <3>4. a \in KN
      BY <1>8
    <3>5. Cardinality(KN \ {a}) = Cardinality(KN) - 1
      BY <1>2, <1>3, <3>4, FS_RemoveElement
    <3> QED
      BY <1>2, <1>3, <3>3, <3>5
  <2>3. CASE Cardinality(K) > 2 * Threshold /\ S # D
    <3>1. D \in SUBSET Actions /\ S \in SUBSET Actions
      BY <1>2, <1>5
    <3>2. S \in SUBSET D /\ Cardinality(S) = Min({Threshold, Cardinality(D)})
      <4>1. ~(Cardinality(K) <= 2 * Threshold)
        BY <1>2, <1>3, <2>3
      <4> QED
        BY <1>4, <4>1
    <3>3. Cardinality(S) # Cardinality(D) /\ Cardinality(S) <= Cardinality(D)
      BY <1>3, <2>3, <3>1, <3>2, FS_Subset
    <3>4. Cardinality(S) = Threshold /\ Threshold < Cardinality(D)
      BY <1>3, <3>1, <3>2, <3>3, MinOfTwo
    <3>5. Cardinality(K \ S) = Cardinality(K) - Threshold
      <4>1. K \cap S = S
        BY <1>2, <3>2
      <4> QED
        BY <1>2, <1>3, <3>4, <4>1, FS_Difference
    <3>6. Cardinality(KN) <= Cardinality(K)
      BY <1>2, <1>3, <1>9, <3>5
    <3>7. Cardinality(G) = Cardinality(K) - Cardinality(D)
      <4>1. K \cap D = D
        BY <1>2
      <4> QED
        BY <1>2, <1>3, <4>1, FS_Difference DEF G
    <3>8. ~(Cardinality(K) <= Cardinality(G) + 1)
      BY <1>2, <1>3, <3>1, <3>4, <3>7
    <3>9. Cardinality(K) <= 2 * Threshold + 1
      BY <3>8, BoundMeans DEF K, G, D
    <3> QED
      BY <1>2, <1>3, <3>6, <3>9
  <2>4. Cardinality(K) \in Nat /\ Threshold \in Nat
    BY <1>2, <1>3
  <2>5. Cardinality(K) <= 2 * Threshold \/ Cardinality(K) > 2 * Threshold
    BY <2>4
  <2> QED
    BY <2>1, <2>2, <2>3, <2>5
<1>11. OperationsBounded' <=> Cardinality(KN) <= 2 * Threshold + 1 \/ Cardinality(KN) <= Cardinality(GN) + 1
  <2>1. Cardinality(KN) \in Nat /\ Cardinality(GN) + 1 \in Nat /\ 2 * Threshold + 1 \in Nat
    BY <1>2, <1>3
  <2> DEFINE k == Cardinality(KN)
             x == 2 * Threshold + 1
             y == Cardinality(GN) + 1
  <2>2. OperationsBounded' <=> k <= Max({x, y})
    BY DEF OperationsBounded, KN, GN
  <2> HIDE DEF k, x, y
  <2>3. OperationsBounded' <=> k <= x \/ k <= y
    BY <2>1, <2>2, MaxOfTwo DEF k, x, y
  <2> QED
    BY <2>3 DEF k, x, y
<1> QED
  BY <1>6, <1>7, <1>10, <1>11

-----------------------------------------------------------------------------
(* The open calls when the last one is changed, *)
LEMMA LastSet ==
  ASSUME NEW S, NEW s \in Seq(S), Len(s) > 0, NEW f \in S
  PROVE  LET r == [s EXCEPT ![Len(s)] = f]
         IN /\ r \in Seq(S) /\ Len(r) = Len(s) /\ r[Len(s)] = f
            /\ \A p \in 1 .. Len(s) : p < Len(s) => r[p] = s[p]
OBVIOUS

(* when one is added, *)
LEMMA LastAdded ==
  ASSUME NEW S, NEW s \in Seq(S), NEW f \in S
  PROVE  LET r == Append(s, f)
         IN /\ r \in Seq(S) /\ Len(r) = Len(s) + 1 /\ r[Len(r)] = f
            /\ \A p \in 1 .. Len(s) : r[p] = s[p]
OBVIOUS

(* and when the last one returns. *)
LEMMA LastDropped ==
  ASSUME NEW S, NEW s \in Seq(S), Len(s) > 0
  PROVE  LET r == SubSeq(s, 1, Len(s) - 1)
         IN /\ r \in Seq(S) /\ Len(r) = Len(s) - 1
            /\ \A p \in 1 .. Len(s) - 1 : r[p] = s[p]
<1> DEFINE n == Len(s)
           r == SubSeq(s, 1, n - 1)
<1>1. n \in Nat /\ n > 0 /\ n - 1 \in Nat /\ 1 .. n - 1 \subseteq 1 .. n
  OBVIOUS
<1>2. \A p \in 1 .. n : s[p] \in S
  OBVIOUS
<1> HIDE DEF n
<1>3. r = [p \in 1 .. n - 1 |-> s[p]]
  <2>1. 1 \in Int /\ n - 1 \in Int
    BY <1>1
  <2> QED
    BY <1>1, <2>1
<1>4. r \in Seq(S) /\ Len(r) = n - 1 /\ \A p \in 1 .. n - 1 : r[p] = s[p]
  BY <1>1, <1>2, <1>3
<1> QED
  BY <1>4 DEF n

(* More in the local CAS disturbs no retrieval. *)
LEMMA SyncedMonotone ==
  ASSUME NEW s, NEW d, NEW l, NEW a, NEW b, NEW root, a \subseteq b, Synced(s, d, l, a, root)
  PROVE  Synced(s, d, l, b, root)
<1>1. ASSUME l \in SyncPCs
      PROVE  Calls(s, d, l, b, root)
  <2>1. Calls(s, d, l, a, root)
    BY <1>1 DEF Synced
  <2>2. \A f : Taken(f, a) => Taken(f, b)
    BY DEF Taken
  <2>3. l = "copy" => \A o \in s[Len(s)].missing : Entries[o] \subseteq b
    BY <2>1 DEF Calls
  <2> QED
    BY <2>1, <2>2, <2>3 DEF Calls
<1> QED
  BY <1>1 DEF Synced

(* A call goes on, to label m, with what it has to retrieve but for d. *)
LEMMA CallGoesOn ==
  ASSUME NEW s, NEW d, NEW l, NEW a, NEW b, NEW root, a \subseteq b, Calls(s, d, l, a, root),
         NEW f \in Frame, NEW m, Pursued(f), s[Len(s)].infos \subseteq f.infos \cup d,
         m # "sync" => Taken(f, b), m = "copy" => \A o \in f.missing : Entries[o] \subseteq b
  PROVE  Calls([s EXCEPT ![Len(s)] = f], d, m, b, root)
<1> DEFINE r == [s EXCEPT ![Len(s)] = f]
           n == Len(s)
<1>1. s \in Seq(Frame) /\ n > 0 /\ n \in Nat
  BY DEF Calls
<1>2. r \in Seq(Frame) /\ Len(r) = n /\ r[n] = f /\ \A p \in 1 .. n : p < n => r[p] = s[p]
  BY <1>1, LastSet
<1>3. s[n].infos \subseteq f.infos \cup d
  OBVIOUS
<1> HIDE DEF r, n
<1>4. root \in r[1].infos \cup d
  <2>1. root \in s[1].infos \cup d
    BY DEF Calls
  <2>2. CASE n = 1
    BY <1>2, <1>3, <2>1, <2>2
  <2>3. CASE n # 1
    <3>1. r[1] = s[1]
      BY <1>1, <1>2, <2>3
    <3> QED
      BY <2>1, <3>1
  <2> QED
    BY <2>2, <2>3
<1>5. \A p \in 1 .. n : Pursued(r[p])
  <2> TAKE p \in 1 .. n
  <2>1. p = n \/ p < n
    BY <1>1
  <2>2. Pursued(s[p])
    BY DEF Calls, n
  <2> QED
    BY <1>2, <2>1, <2>2
<1>6. ASSUME NEW p \in 1 .. n, p < n
      PROVE  Taken(r[p], b) /\ Above(r[p], r[p + 1], d)
  <2>1. Taken(s[p], a) /\ Above(s[p], s[p + 1], d)
    BY <1>6 DEF Calls, n
  <2>2. Taken(s[p], b)
    BY <2>1 DEF Taken
  <2>3. r[p] = s[p]
    BY <1>2, <1>6
  <2>4. CASE p + 1 = n
    <3>1. s[p].todo = {} /\ s[p].prerequisites \subseteq s[n].infos \cup d
      BY <2>1, <2>4 DEF Above
    <3>2. s[p].prerequisites \subseteq f.infos \cup d
      BY <1>3, <3>1
    <3> QED
      BY <1>2, <2>2, <2>3, <2>4, <3>1, <3>2 DEF Above
  <2>5. CASE p + 1 # n
    <3>1. p + 1 \in 1 .. n /\ p + 1 < n
      BY <1>1, <1>6, <2>5
    <3>2. r[p + 1] = s[p + 1]
      BY <1>2, <3>1
    <3> QED
      BY <2>1, <2>2, <2>3, <3>2
  <2> QED
    BY <2>4, <2>5
<1> QED
  BY <1>1, <1>2, <1>4, <1>5, <1>6 DEF Calls, r

(* A call for the prerequisites of the last one. *)
LEMMA CallOpens ==
  ASSUME NEW s, NEW d, NEW a, NEW root, Calls(s, d, "read", a, root), s[Len(s)].todo = {}
  PROVE  Calls(Append(s, Retrieve(s[Len(s)].prerequisites)), d, "sync", a, root)
<1> DEFINE n == Len(s)
           f == Retrieve(s[n].prerequisites)
           r == Append(s, f)
<1>1. s \in Seq(Frame) /\ n > 0 /\ n \in Nat
  BY DEF Calls
<1>2. s[n] \in Frame
  BY <1>1
<1>3. f \in Frame /\ f.infos = s[n].prerequisites /\ f.missing = {}
  BY <1>2 DEF Retrieve, Frame
<1>4. Taken(s[n], a) /\ s[n].todo = {}
  BY DEF Calls
<1> HIDE DEF f
<1>5. r \in Seq(Frame) /\ Len(r) = n + 1 /\ r[n + 1] = f /\ \A p \in 1 .. n : r[p] = s[p]
  BY <1>1, <1>3, LastAdded
<1> HIDE DEF r, n
<1>6. root \in r[1].infos \cup d
  <2>1. root \in s[1].infos \cup d
    BY DEF Calls
  <2>2. r[1] = s[1]
    BY <1>1, <1>5
  <2> QED
    BY <2>1, <2>2
<1>7. \A p \in 1 .. n + 1 : Pursued(r[p])
  <2> TAKE p \in 1 .. n + 1
  <2>1. p = n + 1 \/ p \in 1 .. n
    BY <1>1
  <2>2. CASE p \in 1 .. n
    BY <1>5, <2>2 DEF Calls, n
  <2>3. CASE p = n + 1
    BY <1>3, <1>5, <2>3 DEF Pursued
  <2> QED
    BY <2>1, <2>2, <2>3
<1>8. ASSUME NEW p \in 1 .. n + 1, p < n + 1
      PROVE  Taken(r[p], a) /\ Above(r[p], r[p + 1], d)
  <2>1. p \in 1 .. n /\ r[p] = s[p]
    BY <1>1, <1>5, <1>8
  <2>2. CASE p = n
    <3>1. r[p] = s[n] /\ r[p + 1] = f
      BY <1>5, <2>1, <2>2
    <3> QED
      BY <1>3, <1>4, <3>1 DEF Above
  <2>3. CASE p # n
    <3>1. p < n /\ p + 1 \in 1 .. n
      BY <1>1, <2>1, <2>3
    <3>2. Taken(s[p], a) /\ Above(s[p], s[p + 1], d)
      BY <2>1, <3>1 DEF Calls, n
    <3>3. r[p + 1] = s[p + 1]
      BY <1>5, <3>1
    <3> QED
      BY <2>1, <3>2, <3>3
  <2> QED
    BY <2>2, <2>3
<1>9. n + 1 > 0
  BY <1>1
<1> QED
  BY <1>5, <1>6, <1>7, <1>8, <1>9 DEF Calls, r, f, n

(* A call returns, all of its objects known to be synchronized. *)
LEMMA CallReturns ==
  ASSUME NEW s, NEW d, NEW e, NEW l, NEW a, NEW root, Calls(s, d, l, a, root), Len(s) # 1,
         d \subseteq e, e \subseteq a, s[Len(s)].infos \subseteq e
  PROVE  Calls(SubSeq(s, 1, Len(s) - 1), e, "copy", a, root)
<1> DEFINE n == Len(s)
           r == SubSeq(s, 1, n - 1)
<1>0. s \in Seq(Frame) /\ Len(s) > 0
  BY DEF Calls
<1>m. n \in Nat
  BY <1>0
<1>1. s \in Seq(Frame) /\ n > 0 /\ n \in Nat /\ n # 1 /\ n > 1
  <2>1. n > 0 /\ n # 1
    BY <1>0
  <2> HIDE DEF n
  <2>2. n > 1
    BY <1>m, <2>1
  <2> QED
    BY <1>0, <1>m, <2>1, <2>2
<1>2. r \in Seq(Frame) /\ Len(r) = n - 1 /\ \A p \in 1 .. n - 1 : r[p] = s[p]
  BY <1>1, LastDropped
<1>3. s[n].infos \subseteq e
  OBVIOUS
<1> HIDE DEF r, n
<1>4. \A p \in 1 .. n : Pursued(s[p]) /\ (p < n => Taken(s[p], a) /\ Above(s[p], s[p + 1], d))
  BY DEF Calls, n
<1>5. root \in r[1].infos \cup e
  <2>1. root \in s[1].infos \cup d
    BY DEF Calls
  <2>2. r[1] = s[1]
    BY <1>1, <1>2
  <2> QED
    BY <2>1, <2>2
<1>6. \A p \in 1 .. n - 1 : p \in 1 .. n /\ p < n
  BY <1>1
<1>7. \A p \in 1 .. n - 1 : Pursued(r[p]) /\ Taken(r[p], a) /\ Above(s[p], s[p + 1], d)
  BY <1>2, <1>4, <1>6
<1>8. ASSUME NEW p \in 1 .. n - 1, p < n - 1
      PROVE  Above(r[p], r[p + 1], e)
  <2>1. p + 1 \in 1 .. n - 1
    BY <1>1, <1>8
  <2>2. r[p] = s[p] /\ r[p + 1] = s[p + 1]
    BY <1>2, <2>1
  <2> QED
    BY <1>7, <2>2 DEF Above
<1>9. n - 1 \in 1 .. n - 1 /\ n - 1 > 0 /\ n - 1 + 1 = n
  BY <1>1
<1>10. \A o \in r[n - 1].missing : Entries[o] \subseteq a
  <2> DEFINE g == s[n - 1]
  <2>1. Pursued(g) /\ Above(g, s[n], d) /\ r[n - 1] = g
    <3>1. Above(s[n - 1], s[n - 1 + 1], d) /\ Pursued(r[n - 1]) /\ r[n - 1] = s[n - 1]
      BY <1>2, <1>7, <1>9
    <3> QED
      BY <1>9, <3>1
  <2> HIDE DEF g
  <2>2. g.todo = {} /\ g.prerequisites \subseteq a
    BY <1>3, <2>1 DEF Above
  <2> QED
    BY <2>1, <2>2 DEF Pursued
<1> QED
  BY <1>2, <1>5, <1>7, <1>8, <1>9, <1>10 DEF Calls, r, n

-----------------------------------------------------------------------------
(* What a step of a client does to the rest of the state: the thread only  *)
(* moves on with an upload or an execution.                                *)
OthersKept(t) ==
  /\ DOMAIN pc' = Threads /\ DOMAIN then' = Threads /\ DOMAIN up' = Threads /\ DOMAIN stack' = Threads
  /\ \A u \in Threads : u # t => pc'[u] = pc[u] /\ then'[u] = then[u] /\ up'[u] = up[u] /\ stack'[u] = stack[u]

ServerKept == handler' = handler /\ op' = op /\ attempt' = attempt /\ cast' = cast
RetrievalsKept == local' = local /\ done' = done /\ unread' = unread

ClientMoves(t) ==
  /\ OthersKept(t) /\ ServerKept /\ RetrievalsKept
  /\ Role(t) # "sync" /\ pc'[t] \notin SyncPCs /\ then'[t] \notin SyncPCs
  /\ pc[t] \in Final => pc'[t] \in Final
  /\ TransferOK(up'[t]) /\ UploadOK(stack'[t], pc'[t], then'[t])

(* The invariant without what the objects of the service look like.        *)
Rest ==
  /\ Shape /\ RolesKept /\ CallsTyped /\ AttemptsInOrder
  /\ RunningOngoing /\ OperationsBounded /\ SyncInv

(* Roles do not change. *)
LEMMA RolesFixed ==
  ASSUME cast' = cast
  PROVE  \A t : Role(t)' = Role(t) /\ Act(t)' = Act(t)
BY DEF Role, Act

(* The action of a thread is one. *)
LEMMA ActionTyped ==
  ASSUME Shape, NEW t \in Threads
  PROVE  Act(t) \in Actions /\ Role(t) \in {"none", "build", "wait", "sync"} /\ InputRoot[Act(t)] \in Objects
BY ExecutionAssumption DEF Shape, Act, Role

(* Whoever uploads or executes does not synchronize. *)
LEMMA NotSync ==
  ASSUME RolesKept, NEW t \in Threads, pc[t] \notin SyncPCs \cup {"idle", "ok", "failed"}
  PROVE  Role(t) # "sync"
BY DEF RolesKept

(* What handlers do is not disturbed by a client that leaves them alone. *)
LEMMA ServerKeptInv ==
  ASSUME RunningOngoing, OperationsBounded, ServerKept
  PROVE  RunningOngoing' /\ OperationsBounded'
<1>1. \A t : Act(t)' = Act(t)
  BY RolesFixed DEF ServerKept
<1>2. \A t, k : Finished(t, k)' <=> Finished(t, k)
  BY <1>1 DEF Finished, ServerKept
<1>3. RunningOngoing'
  BY <1>1, <1>2 DEF RunningOngoing, ServerKept
<1>4. Known(op)' = Known(op) /\ DoneOps' = DoneOps
  BY DEF ServerKept, Known, DoneOps
<1>5. OperationsBounded'
  BY <1>4 DEF OperationsBounded, ServerKept
<1> QED
  BY <1>3, <1>5

(* A client that moves on keeps the invariant. *)
LEMMA ClientMovesInv ==
  ASSUME Inv, NEW t \in Threads, ClientMoves(t)
  PROVE  Rest'
<1>1. /\ cast' = cast /\ handler' = handler /\ op' = op /\ attempt' = attempt
      /\ local' = local /\ done' = done /\ unread' = unread
  BY DEF ClientMoves, ServerKept, RetrievalsKept
<1>2. /\ DOMAIN pc' = Threads /\ DOMAIN then' = Threads /\ DOMAIN up' = Threads
      /\ DOMAIN stack' = Threads
      /\ \A u \in Threads : u # t =>
           pc'[u] = pc[u] /\ then'[u] = then[u] /\ up'[u] = up[u] /\ stack'[u] = stack[u]
  BY DEF ClientMoves, OthersKept
<1>3. /\ Role(t) # "sync" /\ pc'[t] \notin SyncPCs /\ then'[t] \notin SyncPCs
      /\ pc[t] \in Final => pc'[t] \in Final
      /\ TransferOK(up'[t]) /\ UploadOK(stack'[t], pc'[t], then'[t])
  BY DEF ClientMoves
<1>4. \A u : Role(u)' = Role(u) /\ Act(u)' = Act(u)
  BY <1>1, RolesFixed
<1>5. Shape'
  BY <1>1, <1>2 DEF Inv, Shape
<1>6. RolesKept'
  <2> SUFFICES ASSUME NEW u \in Threads
               PROVE  IF Role(u) = "sync" THEN pc'[u] \in SyncPCs \cup {"idle", "ok", "failed"}
                      ELSE pc'[u] \notin SyncPCs /\ then'[u] \notin SyncPCs
    BY <1>4 DEF RolesKept
  <2>1. CASE u = t
    BY <1>3, <2>1
  <2>2. CASE u # t
    BY <1>2, <2>2 DEF Inv, RolesKept
  <2> QED
    BY <2>1, <2>2
<1>7. CallsTyped'
  <2> SUFFICES ASSUME NEW u \in Threads
               PROVE  /\ TransferOK(up'[u])
                      /\ IF Role(u) = "sync" THEN RetrievalOK(stack'[u], pc'[u])
                         ELSE UploadOK(stack'[u], pc'[u], then'[u])
    BY <1>4 DEF CallsTyped
  <2>1. CASE u = t
    BY <1>3, <2>1
  <2>2. CASE u # t
    BY <1>2, <2>2 DEF Inv, CallsTyped
  <2> QED
    BY <2>1, <2>2
<1>8. AttemptsInOrder'
  <2> SUFFICES ASSUME NEW u \in Threads
               PROVE  /\ attempt[u] # 0 => pc'[u] \in Final
                      /\ \A k \in 1 .. MaxAttempts : k > attempt[u] => handler[u][k].stage = "none"
    BY <1>1 DEF AttemptsInOrder
  <2>1. /\ attempt[u] # 0 => pc[u] \in Final
        /\ \A k \in 1 .. MaxAttempts : k > attempt[u] => handler[u][k].stage = "none"
    BY DEF Inv, AttemptsInOrder
  <2> QED
    BY <1>2, <1>3, <2>1
<1>9. RunningOngoing' /\ OperationsBounded'
  BY ServerKeptInv DEF Inv, ClientMoves
<1>10. SyncInv'
  <2> SUFFICES ASSUME unread = {}
               PROVE  /\ local \subseteq Objects /\ Closed(local)
                      /\ \A u \in Threads : Role(u) = "sync" =>
                           Synced(stack'[u], done[u], pc'[u], local, InputRoot[Act(u)])
    BY <1>1, <1>4 DEF SyncInv
  <2>1. /\ local \subseteq Objects /\ Closed(local)
        /\ \A u \in Threads : Role(u) = "sync" => Synced(stack[u], done[u], pc[u], local, InputRoot[Act(u)])
    BY DEF Inv, SyncInv
  <2>2. \A u \in Threads : Role(u) = "sync" => stack'[u] = stack[u] /\ pc'[u] = pc[u]
    BY <1>2, <1>3
  <2> QED
    BY <2>1, <2>2
<1> QED
  BY <1>5, <1>6, <1>7, <1>8, <1>9, <1>10 DEF Rest

(* A thread that retrieves moves on, or begins to. *)
LEMMA RetrievalMovesInv ==
  ASSUME Inv, NEW t \in Threads, Role(t) = "sync", ServerKept, then' = then, up' = up,
         DOMAIN pc' = Threads, DOMAIN stack' = Threads, DOMAIN done' = Threads,
         \A u \in Threads : u # t => pc'[u] = pc[u] /\ stack'[u] = stack[u] /\ done'[u] = done[u],
         pc[t] \notin Final, pc'[t] \in SyncPCs \cup {"ok", "failed"},
         RetrievalOK(stack'[t], pc'[t]), unread \subseteq unread', local \subseteq local',
         unread' = {} => /\ local' \subseteq Objects /\ Closed(local')
                         /\ Synced(stack'[t], done'[t], pc'[t], local', InputRoot[Act(t)])
  PROVE  Rest'
<1>1. cast' = cast /\ handler' = handler /\ op' = op /\ attempt' = attempt
  BY DEF ServerKept
<1>2. \A u : Role(u)' = Role(u) /\ Act(u)' = Act(u)
  BY <1>1, RolesFixed
<1>3. Shape'
  BY <1>1 DEF Inv, Shape
<1>4. RolesKept'
  <2> SUFFICES ASSUME NEW u \in Threads
               PROVE  IF Role(u) = "sync" THEN pc'[u] \in SyncPCs \cup {"idle", "ok", "failed"}
                      ELSE pc'[u] \notin SyncPCs /\ then[u] \notin SyncPCs
    BY <1>2 DEF RolesKept
  <2>1. CASE u = t
    BY <2>1
  <2>2. CASE u # t
    BY <2>2 DEF Inv, RolesKept
  <2> QED
    BY <2>1, <2>2
<1>5. CallsTyped'
  <2> SUFFICES ASSUME NEW u \in Threads
               PROVE  /\ TransferOK(up[u])
                      /\ IF Role(u) = "sync" THEN RetrievalOK(stack'[u], pc'[u])
                         ELSE UploadOK(stack'[u], pc'[u], then[u])
    BY <1>2 DEF CallsTyped
  <2>1. /\ TransferOK(up[u])
        /\ IF Role(u) = "sync" THEN RetrievalOK(stack[u], pc[u]) ELSE UploadOK(stack[u], pc[u], then[u])
    BY DEF Inv, CallsTyped
  <2> QED
    BY <2>1
<1>6. AttemptsInOrder'
  <2> SUFFICES ASSUME NEW u \in Threads
               PROVE  /\ attempt[u] # 0 => pc'[u] \in Final
                      /\ \A k \in 1 .. MaxAttempts : k > attempt[u] => handler[u][k].stage = "none"
    BY <1>1 DEF AttemptsInOrder
  <2>1. /\ attempt[u] # 0 => pc[u] \in Final
        /\ \A k \in 1 .. MaxAttempts : k > attempt[u] => handler[u][k].stage = "none"
    BY DEF Inv, AttemptsInOrder
  <2> QED
    BY <2>1
<1>7. RunningOngoing' /\ OperationsBounded'
  BY ServerKeptInv DEF Inv
<1>8. SyncInv'
  <2> SUFFICES ASSUME unread' = {}
               PROVE  /\ local' \subseteq Objects /\ Closed(local')
                      /\ \A u \in Threads : Role(u) = "sync" =>
                           Synced(stack'[u], done'[u], pc'[u], local', InputRoot[Act(u)])
    <3>1. Closed(local') <=> Closed(local)'
      BY DEF Closed
    <3>2. \A u : Synced(stack'[u], done'[u], pc'[u], local', InputRoot[Act(u)'])
                 <=> Synced(stack[u], done[u], pc[u], local, InputRoot[Act(u)])'
      BY DEF Synced, Calls, Pursued, Taken, Above
    <3> QED
      BY <1>2, <3>1, <3>2 DEF SyncInv
  <2>1. unread = {}
    OBVIOUS
  <2>2. \A u \in Threads : Role(u) = "sync" => Synced(stack[u], done[u], pc[u], local, InputRoot[Act(u)])
    BY <2>1 DEF Inv, SyncInv
  <2>3. ASSUME NEW u \in Threads, u # t, Role(u) = "sync"
        PROVE  Synced(stack'[u], done'[u], pc'[u], local', InputRoot[Act(u)])
    <3>1. Synced(stack[u], done[u], pc[u], local', InputRoot[Act(u)])
      BY <2>2, <2>3, SyncedMonotone
    <3> QED
      BY <2>3, <3>1
  <2> QED
    BY <2>3
<1> QED
  BY <1>3, <1>4, <1>5, <1>6, <1>7, <1>8 DEF Rest

-----------------------------------------------------------------------------
(* The objects of the service: nothing happens to them, *)
LEMMA AgesKept ==
  ASSUME AgesInv, age' = age
  PROVE  AgesInv'
BY DEF AgesInv, TreesOK

(* some are looked up, *)
LEMMA AgesLooked ==
  ASSUME AgesInv, NEW S \in SUBSET Objects, age' = Uplinked(S, age)
  PROVE  AgesInv'
<1>1. Uplinked(S, age) \in Ages /\ TreesOK(Uplinked(S, age))
  BY UplinkedTrees DEF AgesInv
<1> QED
  BY <1>1 DEF AgesInv, TreesOK

(* or stored, which the service refuses for trees without their entries.   *)
LEMMA AgesStored ==
  ASSUME AgesInv, NEW S \in SUBSET Objects, Storable(S), age' = Stored(S, age)
  PROVE  AgesInv'
<1>1. ASSUME NEW o \in S, NEW e \in Entries[o]
      PROVE  e \in S \/ age[e] < Generations
  <2>1. o \in Trees
    BY CasAssumption
  <2>2. ~Refused(o, S)
    BY DEF Storable
  <2> QED
    BY <2>1, <2>2 DEF Refused, InCas
<1>2. \A o \in S : \A e \in Entries[o] : e \in S \/ age[e] < Generations
  BY <1>1
<1>3. Stored(S, age) \in Ages /\ TreesOK(Stored(S, age))
  BY <1>2, StoredTrees DEF AgesInv
<1> QED
  BY <1>3 DEF AgesInv, TreesOK

(* The invariant by its two parts. *)
LEMMA InvParts == Inv' <=> Rest' /\ AgesInv'
BY DEF Inv, Rest

-----------------------------------------------------------------------------
(* A transfer of t has begun, after which it goes on at next. *)
TransferBegun(t, next) ==
  /\ DOMAIN pc' = Threads /\ DOMAIN then' = Threads /\ DOMAIN up' = Threads
  /\ \A u \in Threads : u # t => pc'[u] = pc[u] /\ then'[u] = then[u] /\ up'[u] = up[u]
  /\ pc'[t] \in CasLabels \cup {next} /\ then'[t] = next /\ TransferOK(up'[t])

(* It does so with a query or with an upload of S.                         *)
LEMMA TransferBegins ==
  ASSUME Shape, NEW t \in Threads, NEW S \in SUBSET Objects, NEW b \in BOOLEAN, NEW next,
         Query(t, S, next) \/ UploadBlobs(t, S, b, next)
  PROVE  TransferBegun(t, next)
<1>1. DOMAIN pc = Threads /\ DOMAIN then = Threads /\ DOMAIN up = Threads
  BY DEF Shape
<1>2. /\ then' = [then EXCEPT ![t] = next]
      /\ \E l \in CasLabels \cup {next} : pc' = [pc EXCEPT ![t] = l]
      /\ \E g : TransferOK(g) /\ up' = [up EXCEPT ![t] = g]
  <2>1. CASE Query(t, S, next)
    <3> DEFINE g == [NoTransfer EXCEPT !.blobs = S]
    <3>1. TransferOK(g)
      BY DEF NoTransfer, TransferOK
    <3>2. up' = [up EXCEPT ![t] = g]
      BY <2>1 DEF Query
    <3> QED
      BY <2>1, <3>1, <3>2 DEF Query, Goto, CasLabels
  <2>2. CASE UploadBlobs(t, S, b, next)
    <3> DEFINE g(L) == [NoTransfer EXCEPT !.blobs = S, !.left = L]
    <3>1. TransferOK(g(S)) /\ TransferOK(g({}))
      BY DEF NoTransfer, TransferOK
    <3>2. up' = [up EXCEPT ![t] = g(IF b THEN S ELSE {})]
      BY <2>2 DEF UploadBlobs
    <3>3. g(IF b THEN S ELSE {}) = IF b THEN g(S) ELSE g({})
      OBVIOUS
    <3> HIDE DEF g
    <3>4. \E h : TransferOK(h) /\ up' = [up EXCEPT ![t] = h]
      BY <3>1, <3>2, <3>3
    <3> QED
      BY <2>2, <3>4 DEF UploadBlobs, Goto, CasLabels
  <2> QED
    BY <2>1, <2>2
<1>3. PICK g : TransferOK(g) /\ up' = [up EXCEPT ![t] = g]
  BY <1>2
<1>5. up'[t] = g /\ DOMAIN up' = Threads /\ \A u \in Threads : u # t => up'[u] = up[u]
  BY <1>1, <1>3
<1>6. then'[t] = next /\ DOMAIN then' = Threads /\ \A u \in Threads : u # t => then'[u] = then[u]
  BY <1>1, <1>2
<1>7. pc'[t] \in CasLabels \cup {next} /\ DOMAIN pc' = Threads /\ \A u \in Threads : u # t => pc'[u] = pc[u]
  BY <1>1, <1>2
<1> QED
  BY <1>3, <1>5, <1>6, <1>7 DEF TransferBegun

(* What a transfer leaves alone. *)
TransferRest(t) ==
  /\ DOMAIN pc' = Threads /\ DOMAIN up' = Threads /\ then' = then /\ stack' = stack
  /\ \A u \in Threads : u # t => pc'[u] = pc[u] /\ up'[u] = up[u]
  /\ ServerKept /\ RetrievalsKept

(* A transfer goes on or ends. *)
LEMMA TransferGoesOn ==
  ASSUME Inv, NEW t \in Threads, pc[t] \in CasLabels, TransferRest(t),
         pc'[t] \in CasLabels \cup {then[t], "failed"}, TransferOK(up'[t])
  PROVE  Rest'
<1>1. Role(t) # "sync"
  BY NotSync DEF Inv, CasLabels, SyncPCs
<1>2. pc[t] \notin SyncPCs /\ then[t] \notin SyncPCs
  BY <1>1 DEF Inv, RolesKept
<1>3. pc'[t] \notin SyncPCs /\ then'[t] \notin SyncPCs /\ pc[t] \notin Final
  BY <1>2 DEF TransferRest, CasLabels, SyncPCs, Final
<1>4. UploadOK(stack[t], pc[t], then[t])
  BY <1>1 DEF Inv, CallsTyped
<1>5. UploadOK(stack'[t], pc'[t], then'[t])
  <2>1. stack'[t] = stack[t] /\ then'[t] = then[t]
    BY DEF TransferRest
  <2>2. pc'[t] \in InTree => then[t] \in InTree
    BY DEF CasLabels, InTree
  <2> QED
    BY <1>4, <2>1, <2>2 DEF UploadOK
<1>6. OthersKept(t)
  BY DEF TransferRest, OthersKept, Inv, Shape
<1>7. ClientMoves(t)
  BY <1>1, <1>3, <1>5, <1>6 DEF ClientMoves, TransferRest
<1> QED
  BY <1>7, ClientMovesInv

(* What surrounds the steps of a transfer. *)
Around == UNCHANGED <<transferVars, clientVars>> /\ ServiceUnchanged

(* The surroundings leave what a transfer leaves alone. *)
LEMMA AroundKept ==
  ASSUME Around
  PROVE  ServerKept /\ RetrievalsKept /\ stack' = stack
BY DEF Around, transferVars, clientVars, ServiceUnchanged, serviceVars, ServerKept, RetrievalsKept

(* A transfer that only changes its record, from f to g. *)
LEMMA RecordStep ==
  ASSUME Inv, NEW t \in Threads, pc[t] \in CasLabels, Around, then' = then,
         NEW g, TransferOK(g), up' = [up EXCEPT ![t] = g],
         \/ pc' = pc
         \/ \E l \in CasLabels \cup {then[t], "failed"} : pc' = [pc EXCEPT ![t] = l]
  PROVE  Rest'
<1>1. DOMAIN pc = Threads /\ DOMAIN up = Threads
  BY DEF Inv, Shape
<1>2. /\ DOMAIN pc' = Threads /\ DOMAIN up' = Threads /\ up'[t] = g
      /\ pc'[t] \in CasLabels \cup {then[t], "failed"}
      /\ \A u \in Threads : u # t => pc'[u] = pc[u] /\ up'[u] = up[u]
  BY <1>1
<1>3. TransferRest(t)
  BY <1>2, AroundKept DEF TransferRest
<1> QED
  BY <1>2, <1>3, TransferGoesOn

(* What is being transferred are objects. *)
LEMMA TransferTyped ==
  ASSUME Inv, NEW t \in Threads
  PROVE  /\ up[t].blobs \in SUBSET Objects /\ up[t].left \in SUBSET Objects
         /\ up[t].batch \in SUBSET Objects /\ up[t].updated \in SUBSET Objects
         /\ TransferOK(up[t]) /\ AgesInv
BY DEF Inv, CallsTyped, TransferOK

(* A fresh transfer is one. *)
LEMMA FreshTransfer ==
  ASSUME NEW S \in SUBSET Objects, NEW L \in SUBSET Objects
  PROVE  TransferOK(NoTransfer) /\ TransferOK([NoTransfer EXCEPT !.blobs = S, !.left = L])
BY DEF NoTransfer, TransferOK

(* The end of a transfer. *)
LEMMA FinishRest ==
  ASSUME Inv, NEW t \in Threads, pc[t] \in CasLabels, Around, Finish(t)
  PROVE  Rest'
<1>1. up' = [up EXCEPT ![t] = NoTransfer] /\ then' = then
  BY DEF Finish
<1>2. \E l \in CasLabels \cup {then[t], "failed"} : pc' = [pc EXCEPT ![t] = l]
  BY DEF Finish, Goto
<1>3. TransferOK(NoTransfer)
  BY FreshTransfer
<1> QED
  BY <1>1, <1>2, <1>3, RecordStep

(* Its failure. *)
LEMMA FailRest ==
  ASSUME Inv, NEW t \in Threads, pc[t] \in CasLabels, Around, Fail(t)
  PROVE  Rest'
<1>1. up' = [up EXCEPT ![t] = NoTransfer] /\ then' = then
  BY DEF Fail
<1>2. \E l \in CasLabels \cup {then[t], "failed"} : pc' = [pc EXCEPT ![t] = l]
  BY DEF Fail, Goto
<1>3. TransferOK(NoTransfer)
  BY FreshTransfer
<1> QED
  BY <1>1, <1>2, <1>3, RecordStep

(* The answer to a query for missing objects. *)
LEMMA MissingRest ==
  ASSUME Inv, NEW t \in Threads, pc[t] \in CasLabels, Around, NEW S \in SUBSET Objects,
         Missing(t, S)
  PROVE  Rest'
<1> DEFINE L == IF pc[t] = "find" THEN S ELSE {}
           g == [NoTransfer EXCEPT !.blobs = S, !.left = L]
<1>1. up' = [up EXCEPT ![t] = g] /\ then' = then
  BY DEF Missing
<1>2. \E l \in CasLabels \cup {then[t], "failed"} : pc' = [pc EXCEPT ![t] = l]
  BY DEF Missing, Goto, CasLabels
<1>3. TransferOK(g)
  BY FreshTransfer
<1> HIDE DEF g
<1> QED
  BY <1>1, <1>2, <1>3, RecordStep

(* Nothing of a transfer but its attempts changes. *)
LEMMA RetryRest ==
  ASSUME Inv, NEW t \in Threads, pc[t] \in CasLabels, Around, pc' = pc, then' = then, up' = up
  PROVE  Rest'
<1>1. TransferRest(t)
  BY AroundKept DEF TransferRest, Inv, Shape
<1> QED
  BY <1>1, TransferTyped, TransferGoesOn

(* Queries leave the service's objects younger, not fewer. *)
LEMMA FindMissingBlobsInv ==
  ASSUME Inv, NEW t \in Threads, Around, FindMissingBlobs(t)
  PROVE  Inv'
<1>1. pc[t] \in CasLabels /\ up[t].blobs \in SUBSET Objects /\ AgesInv
  BY TransferTyped DEF FindMissingBlobs, CasLabels
<1>2. Rest'
  <2>1. {o \in up[t].blobs : ~InCas(o)} \in SUBSET Objects
    BY <1>1
  <2>2. Missing(t, {o \in up[t].blobs : ~InCas(o)})
    BY DEF FindMissingBlobs
  <2> QED
    BY <1>1, <2>1, <2>2, MissingRest
<1>3. AgesInv'
  BY <1>1, AgesLooked DEF FindMissingBlobs
<1> QED
  BY <1>2, <1>3, InvParts

(* Lost, a query is tried again or taken for a no. *)
LEMMA FindMissingLostInv ==
  ASSUME Inv, NEW t \in Threads, Around, FindMissingLost(t)
  PROVE  Inv'
<1>1. pc[t] \in CasLabels /\ up[t].blobs \in SUBSET Objects /\ AgesInv
  BY TransferTyped DEF FindMissingLost, CasLabels
<1>2. Rest'
  <2>1. CASE pc' = pc /\ then' = then /\ up' = up
    BY <1>1, <2>1, RetryRest
  <2>2. CASE Missing(t, up[t].blobs)
    BY <1>1, <2>2, MissingRest
  <2> QED
    BY <2>1, <2>2 DEF FindMissingLost
<1>3. AgesInv'
  BY <1>1, AgesKept DEF FindMissingLost, casVars
<1> QED
  BY <1>2, <1>3, InvParts

(* A single blob is stored, refused or lost. *)
LEMMA UpdateSingleBlobInv ==
  ASSUME Inv, NEW t \in Threads, Around, pc[t] \in {"large", "single"},
         NEW o \in up[t].left, UpdateSingleBlob(t, o)
  PROVE  Inv'
<1>1. pc[t] \in CasLabels /\ AgesInv /\ TransferOK(up[t]) /\ o \in Objects
  BY TransferTyped DEF CasLabels
<1>2. CASE /\ ~Refused(o, {}) /\ age' = Stored({o}, age)
           /\ up' = [up EXCEPT ![t].left = @ \ {o}, ![t].blobs = @ \ {o}] /\ UNCHANGED <<pc, then, tries>>
  <2> DEFINE g == [up[t] EXCEPT !.left = @ \ {o}, !.blobs = @ \ {o}]
  <2>1. TransferOK(g)
    BY <1>1 DEF TransferOK
  <2>2. up' = [up EXCEPT ![t] = g]
    BY <1>2 DEF Inv, Shape
  <2> HIDE DEF g
  <2>3. Rest'
    BY <1>1, <1>2, <2>1, <2>2, RecordStep
  <2>4. Storable({o})
    BY <1>2 DEF Storable, Refused
  <2>5. AgesInv'
    BY <1>1, <1>2, <2>4, AgesStored
  <2> QED
    BY <2>3, <2>5, InvParts
<1>3. CASE /\ UNCHANGED casVars
           /\ IF pc[t] = "large" THEN Fail(t)
              ELSE up' = [up EXCEPT ![t].left = @ \ {o}, ![t].failed = TRUE] /\ UNCHANGED <<pc, then, tries>>
  <2>1. AgesInv'
    BY <1>1, <1>3, AgesKept DEF casVars
  <2>2. CASE Fail(t)
    BY <1>1, <2>1, <2>2, FailRest, InvParts
  <2>3. CASE up' = [up EXCEPT ![t].left = @ \ {o}, ![t].failed = TRUE] /\ UNCHANGED <<pc, then, tries>>
    <3> DEFINE g == [up[t] EXCEPT !.left = @ \ {o}, !.failed = TRUE]
    <3>1. TransferOK(g)
      BY <1>1 DEF TransferOK
    <3>2. up' = [up EXCEPT ![t] = g]
      BY <2>3 DEF Inv, Shape
    <3> HIDE DEF g
    <3>3. Rest'
      BY <1>1, <2>3, <3>1, <3>2, RecordStep
    <3> QED
      BY <2>1, <3>3, InvParts
  <2> QED
    BY <1>3, <2>2, <2>3
<1> QED
  BY <1>2, <1>3 DEF UpdateSingleBlob

(* Large blobs go by stream. *)
LEMMA UploadLargeInv ==
  ASSUME Inv, NEW t \in Threads, Around, UploadLarge(t)
  PROVE  Inv'
<1>1. pc[t] = "large"
  BY DEF UploadLarge
<1>2. CASE \E o \in up[t].left : UpdateSingleBlob(t, o)
  BY <1>1, <1>2, UpdateSingleBlobInv
<1>3. CASE Goto(t, "batch") /\ up' = [up EXCEPT ![t].max = limit] /\ UNCHANGED <<then, casVars>>
  <2> DEFINE g == [up[t] EXCEPT !.max = limit]
  <2>1. TransferOK(g)
    BY TransferTyped DEF TransferOK
  <2>2. up' = [up EXCEPT ![t] = g]
    BY <1>3 DEF Inv, Shape
  <2>3. \E l \in CasLabels : pc' = [pc EXCEPT ![t] = l]
    BY <1>3 DEF Goto, CasLabels
  <2> HIDE DEF g
  <2>4. Rest'
    BY <1>1, <1>3, <2>1, <2>2, <2>3, RecordStep DEF CasLabels
  <2>5. AgesInv'
    BY <1>3, TransferTyped, AgesKept DEF casVars
  <2> QED
    BY <2>4, <2>5, InvParts
<1> QED
  BY <1>2, <1>3 DEF UploadLarge

(* A batch is composed. *)
LEMMA InitRequestInv ==
  ASSUME Inv, NEW t \in Threads, Around, InitRequest(t)
  PROVE  Inv'
<1>1. pc[t] = "batch" /\ pc[t] \in CasLabels /\ pc' = pc /\ then' = then /\ age' = age
  BY DEF InitRequest, CasLabels, casVars
<1>2. \E g : TransferOK(g) /\ up' = [up EXCEPT ![t] = g]
  <2>1. CASE \E S \in SUBSET up[t].left : up' = [up EXCEPT ![t].batch = S]
    <3>1. PICK S \in SUBSET up[t].left : up' = [up EXCEPT ![t].batch = S]
      BY <2>1
    <3>2. TransferOK([up[t] EXCEPT !.batch = S])
      BY TransferTyped DEF TransferOK
    <3>3. up' = [up EXCEPT ![t] = [up[t] EXCEPT !.batch = S]]
      BY <3>1
    <3> QED
      BY <3>2, <3>3
  <2>2. CASE \E o \in up[t].left : up' = [up EXCEPT ![t].left = @ \ {o}]
    <3>1. PICK o \in up[t].left : up' = [up EXCEPT ![t].left = @ \ {o}]
      BY <2>2
    <3>2. TransferOK([up[t] EXCEPT !.left = @ \ {o}])
      BY TransferTyped DEF TransferOK
    <3>3. up' = [up EXCEPT ![t] = [up[t] EXCEPT !.left = @ \ {o}]]
      BY <3>1
    <3> QED
      BY <3>2, <3>3
  <2> QED
    BY <2>1, <2>2 DEF InitRequest
<1>3. Rest'
  BY <1>1, <1>2, RecordStep
<1>4. AgesInv'
  BY <1>1, TransferTyped, AgesKept
<1> QED
  BY <1>3, <1>4, InvParts

(* A batch is settled, of which S was updated. *)
LEMMA BatchedRest ==
  ASSUME Inv, NEW t \in Threads, pc[t] = "batch", Around, NEW S \in SUBSET up[t].batch,
         Batched(t, S)
  PROVE  Rest'
<1> DEFINE g == [up[t] EXCEPT !.left = @ \ up[t].batch, !.batch = {}, !.updated = @ \cup S]
<1>1. TransferOK(g)
  BY TransferTyped DEF TransferOK
<1>2. up' = [up EXCEPT ![t] = g] /\ pc' = pc /\ then' = then
  BY DEF Batched
<1> HIDE DEF g
<1> QED
  BY <1>1, <1>2, RecordStep DEF CasLabels

(* The service accepts a batch, up to the first tree it refuses. *)
LEMMA BatchAcceptedInv ==
  ASSUME Inv, NEW t \in Threads, Around, BatchAccepted(t)
  PROVE  Inv'
<1>1. pc[t] = "batch"
  BY DEF BatchAccepted
<1>2. PICK S \in SUBSET up[t].batch :
        /\ Storable(S) /\ age' = Stored(S, age)
        /\ Batched(t, IF S = up[t].batch THEN S ELSE {})
  BY DEF BatchAccepted
<1>3. Rest'
  BY <1>1, <1>2, BatchedRest
<1>4. AgesInv'
  <2>1. S \in SUBSET Objects
    BY TransferTyped
  <2> QED
    BY <1>2, <2>1, TransferTyped, AgesStored
<1> QED
  BY <1>3, <1>4, InvParts

(* Too large a batch is reduced, or given up. *)
LEMMA BatchTooLargeInv ==
  ASSUME Inv, NEW t \in Threads, Around, BatchTooLarge(t)
  PROVE  Inv'
<1>1. pc[t] = "batch" /\ age' = age
  BY DEF BatchTooLarge, casVars
<1>2. Rest'
  <2>1. CASE Batched(t, {})
    BY <1>1, <2>1, BatchedRest
  <2>2. CASE \E new \in ReducedTo(t) :
               up' = [up EXCEPT ![t].max = new, ![t].batch = {}] /\ UNCHANGED <<pc, then>>
    <3>1. PICK new \in ReducedTo(t) :
            up' = [up EXCEPT ![t].max = new, ![t].batch = {}] /\ UNCHANGED <<pc, then>>
      BY <2>2
    <3> DEFINE g == [up[t] EXCEPT !.max = new, !.batch = {}]
    <3>2. TransferOK(g)
      BY TransferTyped DEF TransferOK
    <3>3. up' = [up EXCEPT ![t] = g] /\ pc' = pc /\ then' = then
      BY <3>1
    <3> HIDE DEF g
    <3> QED
      BY <1>1, <3>2, <3>3, RecordStep DEF CasLabels
  <2> QED
    BY <2>1, <2>2 DEF BatchTooLarge
<1>3. AgesInv'
  BY <1>1, TransferTyped, AgesKept
<1> QED
  BY <1>2, <1>3, InvParts

(* A batch gets lost, before or after it was stored. *)
LEMMA BatchLostInv ==
  ASSUME Inv, NEW t \in Threads, Around, BatchLost(t)
  PROVE  Inv'
<1>1. pc[t] = "batch" /\ pc[t] \in CasLabels
  BY DEF BatchLost, CasLabels
<1>2. Rest'
  <2>1. CASE pc' = pc /\ then' = then /\ up' = up
    BY <1>1, <2>1, RetryRest
  <2>2. CASE Batched(t, {})
    BY <1>1, <2>2, BatchedRest
  <2> QED
    BY <2>1, <2>2 DEF BatchLost
<1>3. AgesInv'
  <2>1. CASE age' = age
    BY <2>1, TransferTyped, AgesKept
  <2>2. CASE Storable(up[t].batch) /\ age' = Stored(up[t].batch, age)
    BY <2>2, TransferTyped, AgesStored
  <2> QED
    BY <2>1, <2>2 DEF BatchLost
<1> QED
  BY <1>2, <1>3, InvParts

(* After the batches, the rest is tried again, or blob by blob. *)
LEMMA BatchesDoneInv ==
  ASSUME Inv, NEW t \in Threads, Around, BatchesDone(t)
  PROVE  Inv'
<1>1. pc[t] = "batch" /\ pc[t] \in CasLabels /\ age' = age
  BY DEF BatchesDone, CasLabels, casVars
<1>2. Rest'
  <2> DEFINE missing == up[t].blobs \ up[t].updated
             g == [NoTransfer EXCEPT !.blobs = missing, !.left = missing, !.max = limit]
  <2>1. CASE Finish(t)
    BY <1>1, <2>1, FinishRest
  <2>2. CASE /\ up' = [up EXCEPT ![t] = g] /\ UNCHANGED <<then, tries>>
             /\ IF up[t].updated = {} THEN Goto(t, "single") ELSE UNCHANGED pc
    <3>1. TransferOK(g)
      BY TransferTyped DEF TransferOK, NoTransfer
    <3>2. \/ pc' = pc
          \/ \E l \in CasLabels \cup {then[t], "failed"} : pc' = [pc EXCEPT ![t] = l]
      BY <2>2 DEF Goto, CasLabels
    <3>3. up' = [up EXCEPT ![t] = g] /\ then' = then
      BY <2>2
    <3> HIDE DEF g
    <3> QED
      BY <1>1, <3>1, <3>2, <3>3, RecordStep
  <2> QED
    BY <2>1, <2>2 DEF BatchesDone
<1>3. AgesInv'
  BY <1>1, TransferTyped, AgesKept
<1> QED
  BY <1>2, <1>3, InvParts

(* Blob by blob. *)
LEMMA SequentiallyInv ==
  ASSUME Inv, NEW t \in Threads, Around, Sequentially(t)
  PROVE  Inv'
<1>1. pc[t] = "single" /\ pc[t] \in CasLabels
  BY DEF Sequentially, CasLabels
<1>2. CASE \E o \in up[t].left : UpdateSingleBlob(t, o)
  BY <1>1, <1>2, UpdateSingleBlobInv
<1>3. CASE (IF up[t].failed THEN Fail(t) ELSE Finish(t)) /\ age' = age
  <2>1. Rest'
    BY <1>1, <1>3, FailRest, FinishRest
  <2>2. AgesInv'
    BY <1>3, TransferTyped, AgesKept
  <2> QED
    BY <2>1, <2>2, InvParts
<1> QED
  BY <1>2, <1>3 DEF Sequentially, casVars

(* Every step of a transfer. *)
LEMMA TransferInv ==
  ASSUME Inv, NEW t \in Threads, Around, Transfer(t) \/ TransferLost(t)
  PROVE  Inv'
BY FindMissingBlobsInv, FindMissingLostInv, UploadLargeInv, InitRequestInv, BatchAcceptedInv,
   BatchTooLargeInv, BatchLostInv, BatchesDoneInv, SequentiallyInv DEF Transfer, TransferLost

-----------------------------------------------------------------------------
(* The open calls of an upload. *)
LEMMA UploadCalls ==
  ASSUME Inv, NEW t \in Threads, pc[t] \notin SyncPCs \cup {"idle", "ok", "failed"}
  PROVE  /\ Role(t) # "sync" /\ stack[t] \in Seq(UploadFrame) /\ DOMAIN stack = Threads
         /\ pc[t] \in InTree => /\ Len(stack[t]) > 0 /\ Top(t) \in UploadFrame
                                /\ Top(t).todo \in SUBSET Objects /\ Top(t).cur \in Objects
                                /\ Top(t).container \in SUBSET Objects
<1>1. Role(t) # "sync"
  BY NotSync DEF Inv
<1>2. stack[t] \in Seq(UploadFrame) /\ DOMAIN stack = Threads /\ (pc[t] \in InTree => Len(stack[t]) > 0)
  BY <1>1 DEF Inv, CallsTyped, UploadOK, Shape
<1>3. ASSUME pc[t] \in InTree
      PROVE  /\ Top(t) \in UploadFrame /\ Top(t).todo \in SUBSET Objects /\ Top(t).cur \in Objects
             /\ Top(t).container \in SUBSET Objects
  <2>1. Top(t) \in UploadFrame
    BY <1>2, <1>3 DEF Top
  <2> QED
    BY <2>1 DEF UploadFrame
<1> QED
  BY <1>1, <1>2, <1>3

(* A thread that begins a transfer, after which it goes on at next. *)
LEMMA BeginsRest ==
  ASSUME Inv, NEW t \in Threads, Role(t) # "sync", pc[t] \notin Final, ServerKept, RetrievalsKept,
         NEW S \in SUBSET Objects, NEW b \in BOOLEAN, NEW next, next \notin SyncPCs,
         Query(t, S, next) \/ UploadBlobs(t, S, b, next),
         NEW s \in Seq(UploadFrame), next \in InTree => Len(s) > 0,
         DOMAIN stack' = Threads, stack'[t] = s, \A u \in Threads : u # t => stack'[u] = stack[u]
  PROVE  Rest'
<1>0. TransferBegun(t, next)
  <2>1. Shape
    BY DEF Inv
  <2> QED
    BY <2>1, TransferBegins
<1>1. /\ DOMAIN pc' = Threads /\ DOMAIN then' = Threads /\ DOMAIN up' = Threads
      /\ \A u \in Threads : u # t => pc'[u] = pc[u] /\ then'[u] = then[u] /\ up'[u] = up[u]
      /\ pc'[t] \in CasLabels \cup {next} /\ then'[t] = next /\ TransferOK(up'[t])
  BY <1>0 DEF TransferBegun
<1>2. OthersKept(t)
  BY <1>1 DEF OthersKept
<1>3. pc'[t] \notin SyncPCs
  BY <1>1 DEF CasLabels, SyncPCs
<1>4. UploadOK(stack'[t], pc'[t], then'[t])
  <2>1. next \notin InTree => pc'[t] \notin InTree
    BY <1>1 DEF CasLabels, InTree
  <2> QED
    BY <1>1, <2>1 DEF UploadOK
<1>5. ClientMoves(t)
  BY <1>1, <1>2, <1>3, <1>4 DEF ClientMoves
<1> QED
  BY <1>5, ClientMovesInv

(* A thread that goes on without a transfer. *)
LEMMA GoesOnRest ==
  ASSUME Inv, NEW t \in Threads, Role(t) # "sync", ServerKept, RetrievalsKept, then' = then,
         NEW label, label \notin SyncPCs \cup CasLabels, pc' = [pc EXCEPT ![t] = label],
         pc[t] \in Final => label \in Final,
         up' = up \/ up' = [up EXCEPT ![t] = NoTransfer],
         NEW s \in Seq(UploadFrame), label \in InTree => Len(s) > 0,
         DOMAIN stack' = Threads, stack'[t] = s, \A u \in Threads : u # t => stack'[u] = stack[u]
  PROVE  Rest'
<1>1. DOMAIN pc = Threads /\ DOMAIN up = Threads /\ DOMAIN then = Threads
  BY DEF Inv, Shape
<1>2. DOMAIN pc' = Threads /\ pc'[t] = label /\ \A u \in Threads : u # t => pc'[u] = pc[u]
  BY <1>1
<1>3. DOMAIN up' = Threads /\ TransferOK(up'[t]) /\ \A u \in Threads : u # t => up'[u] = up[u]
  <2>1. CASE up' = up
    BY <1>1, <2>1, TransferTyped
  <2>2. CASE up' = [up EXCEPT ![t] = NoTransfer]
    <3>1. TransferOK(NoTransfer)
      BY FreshTransfer
    <3> QED
      BY <1>1, <2>2, <3>1
  <2> QED
    BY <2>1, <2>2
<1>4. OthersKept(t)
  BY <1>1, <1>2, <1>3 DEF OthersKept
<1>5. UploadOK(stack'[t], pc'[t], then'[t])
  BY <1>2 DEF UploadOK
<1>6. then[t] \notin SyncPCs
  BY DEF Inv, RolesKept
<1>7. ClientMoves(t)
  BY <1>2, <1>3, <1>4, <1>5, <1>6 DEF ClientMoves
<1> QED
  BY <1>7, ClientMovesInv

(* What surrounds the steps of an upload. *)
LEMMA ClientAround ==
  ASSUME UNCHANGED clientVars, ServiceUnchanged
  PROVE  ServerKept
BY DEF clientVars, ServiceUnchanged, serviceVars, ServerKept

(* The root is asked for, *)
LEMMA UploadTreeInv ==
  ASSUME Inv, NEW t \in Threads, UNCHANGED clientVars, ServiceUnchanged,
         UploadTree(t, InputRoot[Act(t)])
  PROVE  Inv'
<1>1. pc[t] = "tree" /\ age' = age /\ stack' = stack /\ RetrievalsKept
  BY DEF UploadTree, casVars, transferVars, RetrievalsKept
<1>2. pc[t] \notin Final /\ Role(t) # "sync" /\ stack[t] \in Seq(UploadFrame) /\ DOMAIN stack = Threads
  BY <1>1, UploadCalls DEF Final, SyncPCs
<1>3. {InputRoot[Act(t)]} \in SUBSET Objects
  BY ActionTyped DEF Inv
<1>4. "available" \notin SyncPCs \cup InTree
  BY DEF SyncPCs, InTree
<1>5. Query(t, {InputRoot[Act(t)]}, "available")
  BY DEF UploadTree
<1>6. Rest'
  BY <1>1, <1>2, <1>3, <1>4, <1>5, ClientAround, BeginsRest
<1> QED
  BY <1>1, <1>6, TransferTyped, AgesKept, InvParts

(* and, if it is missing, its upload begins. *)
LEMMA OpenNodeRest ==
  ASSUME Inv, NEW t \in Threads, Role(t) # "sync", pc[t] \notin Final, ServerKept, RetrievalsKept,
         NEW o \in Objects, NEW s \in Seq(UploadFrame),
         stack' = [stack EXCEPT ![t] = Append(s, [node |-> o, todo |-> {}, cur |-> o, container |-> {}])],
         Query(t, SubTrees(o), "level")
  PROVE  Rest'
<1> DEFINE f == [node |-> o, todo |-> {}, cur |-> o, container |-> {}]
<1>1. f \in UploadFrame
  BY DEF UploadFrame
<1> HIDE DEF f
<1>2. Append(s, f) \in Seq(UploadFrame) /\ Len(Append(s, f)) > 0
  BY <1>1
<1>3. DOMAIN stack' = Threads /\ stack'[t] = Append(s, f) /\ \A u \in Threads : u # t => stack'[u] = stack[u]
  BY DEF Inv, Shape, f
<1>4. SubTrees(o) \in SUBSET Objects
  BY CasAssumption DEF SubTrees
<1>5. "level" \notin SyncPCs
  BY DEF SyncPCs
<1> HIDE DEF f
<1> QED
  BY <1>2, <1>3, <1>4, <1>5, BeginsRest

(* The answer for the root. *)
LEMMA AvailableInv ==
  ASSUME Inv, NEW t \in Threads, UNCHANGED clientVars, ServiceUnchanged,
         Available(t, InputRoot[Act(t)])
  PROVE  Inv'
<1>1. pc[t] = "available" /\ age' = age /\ RetrievalsKept
  BY DEF Available, casVars, RetrievalsKept
<1>2. pc[t] \notin Final /\ Role(t) # "sync" /\ stack[t] \in Seq(UploadFrame) /\ DOMAIN stack = Threads
  BY <1>1, UploadCalls DEF Final, SyncPCs
<1>3. InputRoot[Act(t)] \in Objects
  BY ActionTyped DEF Inv
<1>4. ServerKept
  BY ClientAround
<1>5. CASE Goto(t, "uploaded") /\ UNCHANGED <<stack, then, up, tries>>
  <2>1. "uploaded" \notin SyncPCs \cup CasLabels \cup InTree
    BY DEF SyncPCs, CasLabels, InTree
  <2>2. Rest'
    BY <1>1, <1>2, <1>4, <1>5, <2>1, GoesOnRest DEF Goto
  <2> QED
    BY <1>1, <2>2, TransferTyped, AgesKept, InvParts
<1>6. CASE OpenNode(t, InputRoot[Act(t)])
  <2>1. Rest'
    BY <1>1, <1>2, <1>3, <1>4, <1>6, OpenNodeRest DEF OpenNode, Push
  <2> QED
    BY <1>1, <2>1, TransferTyped, AgesKept, InvParts
<1> QED
  BY <1>5, <1>6 DEF Available

(* The open calls of an upload after the last one is changed. *)
LEMMA TopSet ==
  ASSUME NEW t \in Threads, DOMAIN stack = Threads, stack[t] \in Seq(UploadFrame),
         Len(stack[t]) > 0,
         NEW f \in UploadFrame, SetTop(t, f)
  PROVE  /\ DOMAIN stack' = Threads /\ stack'[t] \in Seq(UploadFrame) /\ Len(stack'[t]) > 0
         /\ \A u \in Threads : u # t => stack'[u] = stack[u]
<1>1. stack' = [stack EXCEPT ![t] = [stack[t] EXCEPT ![Len(stack[t])] = f]]
  BY DEF SetTop
<1>2. [stack[t] EXCEPT ![Len(stack[t])] = f] \in Seq(UploadFrame)
      /\ Len([stack[t] EXCEPT ![Len(stack[t])] = f]) = Len(stack[t])
  BY LastSet
<1> QED
  BY <1>1, <1>2

(* The missing nodes of a level. *)
LEMMA LevelInv ==
  ASSUME Inv, NEW t \in Threads, UNCHANGED clientVars, ServiceUnchanged, Level(t)
  PROVE  Inv'
<1>1. pc[t] = "level" /\ age' = age /\ RetrievalsKept /\ then' = then
  BY DEF Level, casVars, RetrievalsKept
<1>2. /\ pc[t] \notin Final /\ Role(t) # "sync" /\ stack[t] \in Seq(UploadFrame)
      /\ DOMAIN stack = Threads
      /\ Len(stack[t]) > 0 /\ Top(t) \in UploadFrame
  BY <1>1, UploadCalls DEF Final, SyncPCs, InTree
<1>3. [Top(t) EXCEPT !.todo = up[t].blobs] \in UploadFrame
  BY <1>2, TransferTyped DEF UploadFrame
<1>4. /\ DOMAIN stack' = Threads /\ stack'[t] \in Seq(UploadFrame) /\ Len(stack'[t]) > 0
      /\ \A u \in Threads : u # t => stack'[u] = stack[u]
  BY <1>2, <1>3, TopSet DEF Level
<1>5. "nodes" \notin SyncPCs \cup CasLabels
  BY DEF SyncPCs, CasLabels
<1>6. pc' = [pc EXCEPT ![t] = "nodes"] /\ up' = [up EXCEPT ![t] = NoTransfer]
  BY DEF Level, Goto
<1>7. Rest'
  BY <1>1, <1>2, <1>4, <1>5, <1>6, ClientAround, GoesOnRest
<1> QED
  BY <1>1, <1>7, TransferTyped, AgesKept, InvParts

(* A node of it is opened. *)
LEMMA NodeInv ==
  ASSUME Inv, NEW t \in Threads, UNCHANGED clientVars, ServiceUnchanged, Node(t)
  PROVE  Inv'
<1>1. pc[t] = "nodes" /\ age' = age /\ RetrievalsKept
  BY DEF Node, casVars, RetrievalsKept
<1>2. /\ pc[t] \notin Final /\ Role(t) # "sync" /\ stack[t] \in Seq(UploadFrame)
      /\ DOMAIN stack = Threads
      /\ Len(stack[t]) > 0 /\ Top(t) \in UploadFrame /\ Top(t).todo \in SUBSET Objects
  BY <1>1, UploadCalls DEF Final, SyncPCs, InTree
<1>3. PICK o \in Top(t).todo :
        /\ stack' = [stack EXCEPT ![t] =
             Append([stack[t] EXCEPT ![Len(stack[t])] = [Top(t) EXCEPT !.todo = @ \ {o}, !.cur = o]],
                    [node |-> o, todo |-> {}, cur |-> o, container |-> {}])]
        /\ Query(t, SubTrees(o), "level")
  BY DEF Node
<1> DEFINE f == [Top(t) EXCEPT !.todo = @ \ {o}, !.cur = o]
           s == [stack[t] EXCEPT ![Len(stack[t])] = f]
<1>4. f \in UploadFrame
  BY <1>2, <1>3 DEF UploadFrame
<1>5. stack' = [stack EXCEPT ![t] = Append(s, [node |-> o, todo |-> {}, cur |-> o, container |-> {}])]
  BY <1>3
<1> HIDE DEF f
<1>6. s \in Seq(UploadFrame)
  BY <1>2, <1>4, LastSet
<1>7. stack' = [stack EXCEPT ![t] = Append(s, [node |-> o, todo |-> {}, cur |-> o, container |-> {}])]
  BY <1>5
<1> HIDE DEF s
<1>8. Rest'
  BY <1>1, <1>2, <1>3, <1>6, <1>7, ClientAround, OpenNodeRest
<1> QED
  BY <1>1, <1>8, TransferTyped, AgesKept, InvParts

(* A node joins the container, which may have to be uploaded before. *)
LEMMA AddNodeInv ==
  ASSUME Inv, NEW t \in Threads, UNCHANGED clientVars, ServiceUnchanged, AddNode(t)
  PROVE  Inv'
<1> DEFINE o == Top(t).cur
           C == Top(t).container
           kept(S) == [Top(t) EXCEPT !.container = S]
<1>1. pc[t] = "add" /\ age' = age /\ RetrievalsKept
  BY DEF AddNode, casVars, RetrievalsKept
<1>2. /\ pc[t] \notin Final /\ Role(t) # "sync" /\ stack[t] \in Seq(UploadFrame)
      /\ DOMAIN stack = Threads
      /\ Len(stack[t]) > 0 /\ Top(t) \in UploadFrame /\ o \in Objects /\ C \in SUBSET Objects
  BY <1>1, UploadCalls DEF Final, SyncPCs, InTree
<1>3. \A S \in SUBSET Objects : kept(S) \in UploadFrame
  BY <1>2 DEF UploadFrame
<1>4. "nodes" \notin SyncPCs \cup CasLabels
  BY DEF SyncPCs, CasLabels
<1>5. ServerKept
  BY ClientAround
<1>6. \/ UploadBlobs(t, {o}, TRUE, "nodes") /\ stack' = stack
      \/ UploadBlobs(t, C, TRUE, "nodes") /\ SetTop(t, kept({o}))
      \/ SetTop(t, kept(C \cup {o})) /\ Goto(t, "nodes") /\ UNCHANGED <<then, up, tries>>
  BY DEF AddNode
<1>7. {o} \in SUBSET Objects /\ C \cup {o} \in SUBSET Objects
  BY <1>2
<1>8. kept({o}) \in UploadFrame /\ kept(C \cup {o}) \in UploadFrame
  BY <1>3, <1>7
<1> HIDE DEF o, C, kept
<1>9. CASE UploadBlobs(t, {o}, TRUE, "nodes") /\ stack' = stack
  <2>1. Rest'
    BY <1>1, <1>2, <1>4, <1>5, <1>7, <1>9, BeginsRest
  <2> QED
    BY <1>1, <2>1, TransferTyped, AgesKept, InvParts
<1>10. CASE UploadBlobs(t, C, TRUE, "nodes") /\ SetTop(t, kept({o}))
  <2>1. /\ DOMAIN stack' = Threads /\ stack'[t] \in Seq(UploadFrame) /\ Len(stack'[t]) > 0
        /\ \A u \in Threads : u # t => stack'[u] = stack[u]
    BY <1>2, <1>8, <1>10, TopSet
  <2>2. Rest'
    BY <1>1, <1>2, <1>4, <1>5, <1>10, <2>1, BeginsRest
  <2> QED
    BY <1>1, <2>2, TransferTyped, AgesKept, InvParts
<1>11. CASE SetTop(t, kept(C \cup {o})) /\ Goto(t, "nodes") /\ UNCHANGED <<then, up, tries>>
  <2>1. /\ DOMAIN stack' = Threads /\ stack'[t] \in Seq(UploadFrame) /\ Len(stack'[t]) > 0
        /\ \A u \in Threads : u # t => stack'[u] = stack[u]
    BY <1>2, <1>8, <1>11, TopSet
  <2>2. Rest'
    BY <1>1, <1>2, <1>4, <1>5, <1>11, <2>1, GoesOnRest DEF Goto
  <2> QED
    BY <1>1, <2>2, TransferTyped, AgesKept, InvParts
<1> QED
  BY <1>6, <1>9, <1>10, <1>11

(* The rest of a container is uploaded, and the call returns. *)
LEMMA CloseNodeInv ==
  ASSUME Inv, NEW t \in Threads, UNCHANGED clientVars, ServiceUnchanged, CloseNode(t)
  PROVE  Inv'
<1> DEFINE next == IF OnlyCall(t) THEN "root" ELSE "add"
           s == SubSeq(stack[t], 1, Len(stack[t]) - 1)
<1>1. pc[t] = "nodes" /\ age' = age /\ RetrievalsKept
  BY DEF CloseNode, casVars, RetrievalsKept
<1>2. /\ pc[t] \notin Final /\ Role(t) # "sync" /\ stack[t] \in Seq(UploadFrame)
      /\ DOMAIN stack = Threads
      /\ Len(stack[t]) > 0 /\ Top(t).container \in SUBSET Objects
  BY <1>1, UploadCalls DEF Final, SyncPCs, InTree
<1>3. s \in Seq(UploadFrame) /\ Len(s) = Len(stack[t]) - 1
  BY <1>2, LastDropped
<1>4. next \in InTree => Len(s) > 0
  <2>1. next \in InTree => Len(stack[t]) # 1
    BY DEF OnlyCall, InTree
  <2>2. Len(stack[t]) \in Nat
    BY <1>2
  <2> QED
    BY <1>2, <1>3, <2>1, <2>2
<1>5. next \notin SyncPCs
  BY DEF SyncPCs
<1>6. UploadBlobs(t, Top(t).container, TRUE, next) /\ stack' = [stack EXCEPT ![t] = s]
  BY DEF CloseNode, Pop
<1> HIDE DEF next, s
<1>7. DOMAIN stack' = Threads /\ stack'[t] = s /\ \A u \in Threads : u # t => stack'[u] = stack[u]
  BY <1>2, <1>6
<1>8. Rest'
  BY <1>1, <1>2, <1>3, <1>4, <1>5, <1>6, <1>7, ClientAround, BeginsRest
<1> QED
  BY <1>1, <1>8, TransferTyped, AgesKept, InvParts

(* In the end the root itself is uploaded. *)
LEMMA RootInv ==
  ASSUME Inv, NEW t \in Threads, UNCHANGED clientVars, ServiceUnchanged,
         Root(t, InputRoot[Act(t)])
  PROVE  Inv'
<1>1. pc[t] = "root" /\ age' = age /\ stack' = stack /\ RetrievalsKept
  BY DEF Root, casVars, transferVars, RetrievalsKept
<1>2. pc[t] \notin Final /\ Role(t) # "sync" /\ stack[t] \in Seq(UploadFrame) /\ DOMAIN stack = Threads
  BY <1>1, UploadCalls DEF Final, SyncPCs
<1>3. {InputRoot[Act(t)]} \in SUBSET Objects
  BY ActionTyped DEF Inv
<1>4. "uploaded" \notin SyncPCs \cup InTree
  BY DEF SyncPCs, InTree
<1>5. UploadBlobs(t, {InputRoot[Act(t)]}, TRUE, "uploaded")
  BY DEF Root
<1>6. Rest'
  BY <1>1, <1>2, <1>3, <1>4, <1>5, ClientAround, BeginsRest
<1> QED
  BY <1>1, <1>6, TransferTyped, AgesKept, InvParts

(* Every step of an upload. *)
LEMMA UploadsInv ==
  ASSUME Inv, NEW t \in Threads, Uploads(t)
  PROVE  Inv'
<1>1. CASE Transfer(t) /\ UNCHANGED transferVars
  <2>1. Around
    BY <1>1 DEF Around, Uploads, transferVars, clientVars
  <2> QED
    BY <1>1, <2>1, TransferInv
<1>2. CASE \/ UploadTree(t, InputRoot[Act(t)]) \/ Available(t, InputRoot[Act(t)]) \/ Level(t) \/ Node(t)
           \/ AddNode(t) \/ CloseNode(t) \/ Root(t, InputRoot[Act(t)])
  <2>1. UNCHANGED clientVars /\ ServiceUnchanged
    BY DEF Uploads
  <2> QED
    BY <1>2, <2>1, UploadTreeInv, AvailableInv, LevelInv, NodeInv, AddNodeInv, CloseNodeInv, RootInv
<1> QED
  BY <1>1, <1>2 DEF Uploads

-----------------------------------------------------------------------------
(* The open calls of a retrieval. *)
LEMMA RetrievalCalls ==
  ASSUME Inv, NEW t \in Threads, pc[t] \in SyncPCs
  PROVE  /\ Role(t) = "sync" /\ pc[t] \notin Final /\ InputRoot[Act(t)] \in Objects
         /\ DOMAIN pc = Threads /\ DOMAIN stack = Threads /\ DOMAIN done = Threads
         /\ stack[t] \in Seq(Frame) /\ Len(stack[t]) > 0 /\ Top(t) = stack[t][Len(stack[t])]
         /\ Top(t) \in Frame
         /\ {Top(t).infos, Top(t).missing, Top(t).todo, Top(t).prerequisites} \subseteq SUBSET Objects
         /\ unread = {} => /\ local \subseteq Objects /\ Closed(local) /\ done[t] \subseteq local
                           /\ Calls(stack[t], done[t], pc[t], local, InputRoot[Act(t)])
<1>1. Role(t) = "sync"
  BY DEF Inv, RolesKept
<1>2. pc[t] \notin Final /\ InputRoot[Act(t)] \in Objects /\ DOMAIN pc = Threads /\ DOMAIN stack = Threads /\ DOMAIN done = Threads
  BY ActionTyped DEF Inv, Shape, SyncPCs, Final
<1>3. stack[t] \in Seq(Frame) /\ Len(stack[t]) > 0
  BY <1>1 DEF Inv, CallsTyped, RetrievalOK
<1>4. Top(t) = stack[t][Len(stack[t])] /\ Top(t) \in Frame
  BY <1>3 DEF Top
<1>5. {Top(t).infos, Top(t).missing, Top(t).todo, Top(t).prerequisites} \subseteq SUBSET Objects
  BY <1>4 DEF Frame
<1>6. ASSUME unread = {}
      PROVE  /\ local \subseteq Objects /\ Closed(local) /\ done[t] \subseteq local
             /\ Calls(stack[t], done[t], pc[t], local, InputRoot[Act(t)])
  <2>1. /\ local \subseteq Objects /\ Closed(local)
        /\ Synced(stack[t], done[t], pc[t], local, InputRoot[Act(t)])
    BY <1>1, <1>6 DEF Inv, SyncInv
  <2> QED
    BY <2>1 DEF Synced
<1> QED
  BY <1>1, <1>2, <1>3, <1>4, <1>5, <1>6

(* What surrounds the steps of a retrieval. *)
LEMMA RetrievalAround ==
  ASSUME UNCHANGED clientVars, ServiceUnchanged
  PROVE  ServerKept
BY DEF clientVars, ServiceUnchanged, serviceVars, ServerKept

(* A call of a retrieval goes on. *)
LEMMA CallGoesOnRest ==
  ASSUME Inv, NEW t \in Threads, pc[t] \in SyncPCs, ServerKept, then' = then, up' = up,
         done' = done,
         NEW m \in SyncPCs, (pc' = pc /\ m = pc[t]) \/ pc' = [pc EXCEPT ![t] = m],
         NEW f \in Frame, SetTop(t, f), unread \subseteq unread', local \subseteq local',
         unread' = {} => /\ local' \subseteq Objects /\ Closed(local')
                         /\ Pursued(f) /\ Top(t).infos \subseteq f.infos \cup done[t]
                         /\ m # "sync" => Taken(f, local')
                         /\ m = "copy" => \A o \in f.missing : Entries[o] \subseteq local'
  PROVE  Rest'
<1> DEFINE s == [stack[t] EXCEPT ![Len(stack[t])] = f]
           root == InputRoot[Act(t)]
<1>1. /\ Role(t) = "sync" /\ pc[t] \notin Final
      /\ DOMAIN pc = Threads /\ DOMAIN stack = Threads /\ DOMAIN done = Threads
      /\ stack[t] \in Seq(Frame) /\ Len(stack[t]) > 0 /\ Top(t) = stack[t][Len(stack[t])]
      /\ unread = {} => done[t] \subseteq local /\ Calls(stack[t], done[t], pc[t], local, root)
  BY RetrievalCalls
<1>2. stack' = [stack EXCEPT ![t] = s]
  BY DEF SetTop
<1>3. s \in Seq(Frame) /\ Len(s) > 0
  BY <1>1, LastSet
<1>4. unread' = {} => Calls(s, done[t], m, local', root)
  <2> SUFFICES ASSUME unread' = {}
               PROVE  Calls(s, done[t], m, local', root)
    OBVIOUS
  <2>1. Calls(stack[t], done[t], pc[t], local, root)
    BY <1>1
  <2>2. stack[t][Len(stack[t])].infos \subseteq f.infos \cup done[t]
    BY <1>1
  <2> QED
    BY <2>1, <2>2, CallGoesOn
<1> HIDE DEF s, root
<1>5. DOMAIN pc' = Threads /\ pc'[t] = m /\ \A u \in Threads : u # t => pc'[u] = pc[u]
  BY <1>1
<1>6. DOMAIN stack' = Threads /\ stack'[t] = s /\ \A u \in Threads : u # t => stack'[u] = stack[u]
  BY <1>1, <1>2
<1>7. unread' = {} => Synced(stack'[t], done'[t], pc'[t], local', root)
  <2>1. m # "idle" /\ m # "ok"
    BY DEF SyncPCs
  <2>2. unread' = {} => done[t] \subseteq local'
    BY <1>1
  <2> QED
    BY <1>4, <1>5, <1>6, <2>1, <2>2 DEF Synced
<1>8. RetrievalOK(stack'[t], pc'[t])
  BY <1>3, <1>6 DEF RetrievalOK
<1> QED
  BY <1>1, <1>5, <1>6, <1>7, <1>8, RetrievalMovesInv DEF root

(* A call of a retrieval returns, upon which e is known to be synchronized. *)
LEMMA CallReturnsRest ==
  ASSUME Inv, NEW t \in Threads, pc[t] \in SyncPCs, ServerKept, then' = then, up' = up,
         unread' = unread, local' = local, NEW e,
         DOMAIN done' = Threads, done'[t] = e, \A u \in Threads : u # t => done'[u] = done[u],
         Pop(t), Goto(t, IF OnlyCall(t) THEN "ok" ELSE "copy"),
         done[t] \subseteq e, Top(t).infos \subseteq e, unread = {} => e \subseteq local
  PROVE  Rest'
<1> DEFINE s == SubSeq(stack[t], 1, Len(stack[t]) - 1)
           m == IF OnlyCall(t) THEN "ok" ELSE "copy"
           root == InputRoot[Act(t)]
<1>1. /\ Role(t) = "sync" /\ pc[t] \notin Final
      /\ DOMAIN pc = Threads /\ DOMAIN stack = Threads /\ DOMAIN done = Threads
      /\ stack[t] \in Seq(Frame) /\ Len(stack[t]) > 0 /\ Top(t) = stack[t][Len(stack[t])]
      /\ unread = {} => /\ local \subseteq Objects /\ Closed(local)
                        /\ Calls(stack[t], done[t], pc[t], local, root)
  BY RetrievalCalls
<1>2. stack' = [stack EXCEPT ![t] = s] /\ pc' = [pc EXCEPT ![t] = m]
  BY DEF Pop, Goto
<1>3. s \in Seq(Frame) /\ Len(s) = Len(stack[t]) - 1
  BY <1>1, LastDropped
<1>4. RetrievalOK(s, m)
  <2>1. m \in SyncPCs => Len(stack[t]) # 1
    BY DEF OnlyCall, SyncPCs
  <2>2. Len(stack[t]) \in Nat
    BY <1>1
  <2> QED
    BY <1>1, <1>3, <2>1, <2>2 DEF RetrievalOK
<1>5. unread = {} => Synced(s, e, m, local, root)
  <2> SUFFICES ASSUME unread = {}
               PROVE  Synced(s, e, m, local, root)
    OBVIOUS
  <2>1. Calls(stack[t], done[t], pc[t], local, root) /\ e \subseteq local
    BY <1>1
  <2>2. CASE Len(stack[t]) = 1
    <3>1. m = "ok"
      BY <2>2 DEF OnlyCall
    <3>2. root \in stack[t][1].infos \cup done[t]
      BY <2>1 DEF Calls
    <3>3. root \in local
      BY <1>1, <2>1, <2>2, <3>2
    <3> QED
      BY <2>1, <3>1, <3>3 DEF Synced, SyncPCs
  <2>3. CASE Len(stack[t]) # 1
    <3>1. m = "copy"
      BY <2>3 DEF OnlyCall
    <3>2. stack[t][Len(stack[t])].infos \subseteq e
      BY <1>1
    <3>3. Calls(s, e, "copy", local, root)
      BY <2>1, <2>3, <3>2, CallReturns
    <3> QED
      BY <2>1, <3>1, <3>3 DEF Synced
  <2> QED
    BY <2>2, <2>3
<1>6. m \in SyncPCs \cup {"ok", "failed"}
  BY DEF SyncPCs
<1> HIDE DEF s, m, root
<1>7. /\ DOMAIN pc' = Threads /\ pc'[t] = m /\ \A u \in Threads : u # t => pc'[u] = pc[u]
      /\ DOMAIN stack' = Threads /\ stack'[t] = s
      /\ \A u \in Threads : u # t => stack'[u] = stack[u]
      /\ DOMAIN done' = Threads /\ done'[t] = e /\ \A u \in Threads : u # t => done'[u] = done[u]
  BY <1>1, <1>2
<1>8. unread' = {} => /\ local' \subseteq Objects /\ Closed(local')
                      /\ Synced(stack'[t], done'[t], pc'[t], local', root)
  BY <1>1, <1>5, <1>7
<1> QED
  BY <1>1, <1>4, <1>6, <1>7, <1>8, RetrievalMovesInv DEF root

(* Where a retrieval that has read every tree stands. *)
LEMMA LastCall ==
  ASSUME Inv, NEW t \in Threads, pc[t] \in SyncPCs, unread = {}
  PROVE  /\ Pursued(Top(t)) /\ (pc[t] # "sync" => Taken(Top(t), local))
         /\ pc[t] = "copy" => \A o \in Top(t).missing : Entries[o] \subseteq local
<1>1. /\ Calls(stack[t], done[t], pc[t], local, InputRoot[Act(t)])
      /\ stack[t] \in Seq(Frame) /\ Len(stack[t]) > 0 /\ Top(t) = stack[t][Len(stack[t])]
  BY RetrievalCalls
<1>2. Len(stack[t]) \in 1 .. Len(stack[t])
  BY <1>1
<1> QED
  BY <1>1, <1>2 DEF Calls

(* What is not yet synchronized is looked for in the local CAS. *)
LEMMA EnterInv ==
  ASSUME Inv, NEW t \in Threads, UNCHANGED clientVars, ServiceUnchanged, Enter(t)
  PROVE  Inv'
<1> DEFINE infos == Top(t).infos \ done[t]
           missing == infos \ local
           f == [Top(t) EXCEPT !.infos = infos, !.missing = missing, !.todo = missing \cap Trees]
<1>1. /\ pc[t] = "sync" /\ pc[t] \in SyncPCs /\ then' = then /\ up' = up /\ age' = age
      /\ local' = local /\ done' = done /\ unread' = unread
  BY DEF Enter, SyncPCs, casVars
<1>2. ServerKept
  BY RetrievalAround
<1>3. /\ Top(t) \in Frame /\ Top(t).infos \in SUBSET Objects /\ DOMAIN done = Threads
      /\ unread = {} => local \subseteq Objects /\ Closed(local) /\ done[t] \subseteq local
  BY <1>1, RetrievalCalls
<1>4. Rest'
  <2>1. CASE infos = {} /\ Pop(t) /\ Goto(t, IF OnlyCall(t) THEN "ok" ELSE "copy")
    <3>1. Top(t).infos \subseteq done[t]
      BY <2>1
    <3>2. Pop(t) /\ Goto(t, IF OnlyCall(t) THEN "ok" ELSE "copy")
      BY <2>1
    <3> HIDE DEF infos
    <3> QED
      BY <1>1, <1>2, <1>3, <3>1, <3>2, CallReturnsRest
  <2>2. CASE SetTop(t, f) /\ Goto(t, "read")
    <3>1. f \in Frame /\ f.infos = infos /\ f.missing = missing /\ f.todo = missing \cap Trees
      BY <1>3 DEF Frame
    <3>2. Top(t).infos \subseteq f.infos \cup done[t]
      BY <3>1
    <3>3. Taken(f, local)
      BY <3>1 DEF Taken
    <3>4. Pursued(f)
      <4>1. ASSUME NEW o \in f.missing, o \notin f.todo
            PROVE  Entries[o] = {}
        <5>1. o \in Objects /\ o \notin Trees
          BY <1>3, <3>1, <4>1
        <5> QED
          BY <5>1, CasAssumption
      <4> QED
        BY <4>1 DEF Pursued
    <3>5. SetTop(t, f) /\ pc' = [pc EXCEPT ![t] = "read"]
      BY <2>2 DEF Goto
    <3>6. "read" \in SyncPCs /\ "read" # "copy"
      BY DEF SyncPCs
    <3> HIDE DEF f, infos, missing
    <3> QED
      BY <1>1, <1>2, <1>3, <3>1, <3>2, <3>3, <3>4, <3>5, <3>6, CallGoesOnRest
  <2> QED
    BY <2>1, <2>2 DEF Enter
<1> QED
  BY <1>1, <1>4, TransferTyped, AgesKept, InvParts

(* A missing tree is read. *)
LEMMA ReadEntriesInv ==
  ASSUME Inv, NEW t \in Threads, UNCHANGED clientVars, ServiceUnchanged, ReadEntries(t)
  PROVE  Inv'
<1>1. /\ pc[t] = "read" /\ pc[t] \in SyncPCs /\ pc' = pc /\ then' = then /\ up' = up
      /\ local' = local /\ done' = done
  BY DEF ReadEntries, SyncPCs, upVars
<1>2. ServerKept
  BY RetrievalAround
<1>3. /\ Top(t) \in Frame /\ Top(t).todo \in SUBSET Objects
      /\ unread = {} => local \subseteq Objects /\ Closed(local)
  BY <1>1, RetrievalCalls
<1>4. unread = {} => Pursued(Top(t)) /\ Taken(Top(t), local)
  BY <1>1, LastCall
<1>5. PICK o \in Top(t).todo :
        \/ /\ age' = Uplinked({o}, age) /\ unread' = unread
           /\ SetTop(t, [Top(t) EXCEPT !.todo = @ \ {o}, !.prerequisites = @ \cup Entries[o]])
        \/ /\ SetTop(t, [Top(t) EXCEPT !.todo = @ \ {o}]) /\ unread' = unread \cup {o} /\ age' = age
  BY DEF ReadEntries
<1>6. CASE /\ age' = Uplinked({o}, age) /\ unread' = unread
           /\ SetTop(t, [Top(t) EXCEPT !.todo = @ \ {o}, !.prerequisites = @ \cup Entries[o]])
  <2> DEFINE f == [Top(t) EXCEPT !.todo = @ \ {o}, !.prerequisites = @ \cup Entries[o]]
  <2>1. /\ f \in Frame /\ f.infos = Top(t).infos /\ f.missing = Top(t).missing /\ f.failure = Top(t).failure
        /\ f.todo = Top(t).todo \ {o} /\ f.prerequisites = Top(t).prerequisites \cup Entries[o]
    <3>1. Entries[o] \in SUBSET Objects
      BY <1>3, CasAssumption
    <3> QED
      BY <1>3, <3>1 DEF Frame
  <2> HIDE DEF f
  <2>2. unread' = {} => Pursued(f) /\ Taken(f, local)
    BY <1>4, <1>6, <2>1 DEF Pursued, Taken
  <2>3. SetTop(t, f) /\ unread \subseteq unread'
    BY <1>6 DEF f
  <2>4. Top(t).infos \subseteq f.infos \cup done[t]
    BY <2>1
  <2>5. "read" # "copy"
    OBVIOUS
  <2>6. Rest'
    BY <1>1, <1>2, <1>3, <1>6, <2>1, <2>2, <2>3, <2>4, <2>5, CallGoesOnRest
  <2>7. AgesInv'
    <3>1. {o} \in SUBSET Objects
      BY <1>3
    <3> QED
      BY <1>6, <3>1, TransferTyped, AgesLooked
  <2> QED
    BY <2>6, <2>7, InvParts
<1>7. CASE SetTop(t, [Top(t) EXCEPT !.todo = @ \ {o}]) /\ unread' = unread \cup {o} /\ age' = age
  <2> DEFINE f == [Top(t) EXCEPT !.todo = @ \ {o}]
  <2>1. f \in Frame
    BY <1>3 DEF Frame
  <2>2. unread' # {} /\ unread \subseteq unread' /\ SetTop(t, f)
    BY <1>7
  <2> HIDE DEF f
  <2>3. Rest'
    BY <1>1, <1>2, <2>1, <2>2, CallGoesOnRest
  <2> QED
    BY <1>7, <2>3, TransferTyped, AgesKept, InvParts
<1> QED
  BY <1>5, <1>6, <1>7

(* The entries of what is missing come first. *)
LEMMA PrerequisitesInv ==
  ASSUME Inv, NEW t \in Threads, UNCHANGED clientVars, ServiceUnchanged, Prerequisites(t)
  PROVE  Inv'
<1> DEFINE f == Retrieve(Top(t).prerequisites)
           s == Append(stack[t], f)
           root == InputRoot[Act(t)]
<1>1. /\ pc[t] = "read" /\ pc[t] \in SyncPCs /\ then' = then /\ up' = up /\ age' = age
      /\ Top(t).todo = {}
      /\ local' = local /\ done' = done /\ unread' = unread
      /\ stack' = [stack EXCEPT ![t] = s] /\ pc' = [pc EXCEPT ![t] = "sync"]
  BY DEF Prerequisites, SyncPCs, casVars, Push, Goto
<1>2. ServerKept
  BY RetrievalAround
<1>3. /\ Role(t) = "sync" /\ pc[t] \notin Final
      /\ DOMAIN pc = Threads /\ DOMAIN stack = Threads /\ DOMAIN done = Threads
      /\ stack[t] \in Seq(Frame) /\ Top(t) = stack[t][Len(stack[t])]
      /\ Top(t).prerequisites \in SUBSET Objects
      /\ unread = {} => /\ local \subseteq Objects /\ Closed(local) /\ done[t] \subseteq local
                        /\ Calls(stack[t], done[t], pc[t], local, root)
  BY <1>1, RetrievalCalls
<1>4. f \in Frame
  BY <1>3 DEF Frame, Retrieve
<1>5. unread = {} => Calls(s, done[t], "sync", local, root)
  BY <1>1, <1>3, CallOpens
<1> HIDE DEF f, root
<1>6. RetrievalOK(s, "sync")
  BY <1>3, <1>4 DEF RetrievalOK
<1> HIDE DEF s
<1>7. /\ DOMAIN pc' = Threads /\ pc'[t] = "sync" /\ \A u \in Threads : u # t => pc'[u] = pc[u]
      /\ DOMAIN stack' = Threads /\ stack'[t] = s
      /\ \A u \in Threads : u # t => stack'[u] = stack[u]
  BY <1>1, <1>3
<1>8. unread' = {} => /\ local' \subseteq Objects /\ Closed(local')
                      /\ Synced(stack'[t], done'[t], pc'[t], local', root)
  BY <1>1, <1>3, <1>5, <1>7 DEF Synced
<1>9. "sync" \in SyncPCs
  BY DEF SyncPCs
<1>10. Rest'
  BY <1>1, <1>2, <1>3, <1>6, <1>7, <1>8, <1>9, RetrievalMovesInv DEF root
<1> QED
  BY <1>1, <1>10, TransferTyped, AgesKept, InvParts

(* What a step of the service leaves to its clients. *)
ClientsKept ==
  /\ pc' = pc /\ then' = then /\ up' = up /\ attempt' = attempt /\ cast' = cast
  /\ stack' = stack /\ local' = local /\ done' = done /\ unread' = unread

(* Clients that are left alone are where the invariant has them. *)
LEMMA ClientsKeptInv ==
  ASSUME Inv, ClientsKept
  PROVE  RolesKept' /\ CallsTyped' /\ SyncInv'
<1>1. /\ pc' = pc /\ then' = then /\ up' = up /\ attempt' = attempt /\ cast' = cast
      /\ stack' = stack /\ local' = local /\ done' = done /\ unread' = unread
  BY DEF ClientsKept
<1>2. \A u : Role(u)' = Role(u) /\ Act(u)' = Act(u)
  BY <1>1, RolesFixed
<1>3. RolesKept'
  BY <1>1, <1>2 DEF Inv, RolesKept
<1>4. CallsTyped'
  BY <1>1, <1>2 DEF Inv, CallsTyped
<1>5. SyncInv'
  <2> SUFFICES ASSUME unread = {}
               PROVE  /\ local \subseteq Objects /\ Closed(local)
                      /\ \A u \in Threads : Role(u) = "sync" =>
                           Synced(stack[u], done[u], pc[u], local, InputRoot[Act(u)])
    BY <1>1, <1>2 DEF SyncInv
  <2> QED
    BY DEF Inv, SyncInv
<1> QED
  BY <1>3, <1>4, <1>5

(* The invariant does not depend on what is accepted, tried and recorded. *)
LEMMA OnlyLimitInv ==
  ASSUME Inv, ClientsKept, handler' = handler, op' = op, age' = age
  PROVE  Inv'
<1>1. ServerKept
  BY DEF ClientsKept, ServerKept
<1>2. RunningOngoing' /\ OperationsBounded'
  BY <1>1, ServerKeptInv DEF Inv
<1>3. Shape' /\ AttemptsInOrder'
  BY DEF Inv, Shape, AttemptsInOrder, ClientsKept
<1>4. AgesInv'
  BY AgesKept DEF Inv
<1> QED
  BY <1>2, <1>3, <1>4, ClientsKeptInv DEF Inv

(* A refused read changes no more than the limit, *)
LEMMA ReadTooLargeInv ==
  ASSUME Inv, NEW t \in Threads, UNCHANGED clientVars, ServiceUnchanged, ReadTooLarge(t)
  PROVE  Inv'
<1>1. /\ ClientsKept /\ handler' = handler /\ op' = op /\ age' = age
  BY DEF ReadTooLarge, ClientsKept, casVars, upVars, transferVars, clientVars, ServiceUnchanged, serviceVars
<1> QED
  BY <1>1, OnlyLimitInv

(* What is missing is copied, *)
LEMMA CopyInv ==
  ASSUME Inv, NEW t \in Threads, UNCHANGED clientVars, ServiceUnchanged, Copy(t)
  PROVE  Inv'
<1>1. /\ pc[t] = "copy" /\ pc[t] \in SyncPCs /\ pc' = pc /\ then' = then /\ up' = up
      /\ done' = done /\ unread' = unread
  BY DEF Copy, SyncPCs, upVars
<1>2. ServerKept
  BY RetrievalAround
<1>3. /\ Top(t) \in Frame /\ Top(t).missing \in SUBSET Objects
      /\ unread = {} => local \subseteq Objects /\ Closed(local)
  BY <1>1, RetrievalCalls
<1>4. unread = {} => /\ Pursued(Top(t)) /\ Taken(Top(t), local)
                     /\ \A o \in Top(t).missing : Entries[o] \subseteq local
  BY <1>1, LastCall
<1>5. PICK o \in Top(t).missing :
        \/ /\ age' = Uplinked({o}, age) /\ local' = local \cup {o}
           /\ SetTop(t, [Top(t) EXCEPT !.missing = @ \ {o}])
        \/ SetTop(t, [Top(t) EXCEPT !.missing = @ \ {o}, !.failure = TRUE]) /\ UNCHANGED <<age, local>>
  BY DEF Copy
<1>6. CASE /\ age' = Uplinked({o}, age) /\ local' = local \cup {o}
           /\ SetTop(t, [Top(t) EXCEPT !.missing = @ \ {o}])
  <2> DEFINE f == [Top(t) EXCEPT !.missing = @ \ {o}]
  <2>1. /\ f \in Frame /\ f.infos = Top(t).infos /\ f.missing = Top(t).missing \ {o}
        /\ f.todo = Top(t).todo /\ f.prerequisites = Top(t).prerequisites /\ f.failure = Top(t).failure
    BY <1>3 DEF Frame
  <2>2. SetTop(t, f)
    BY <1>6
  <2> HIDE DEF f
  <2>3. local \subseteq local' /\ Top(t).infos \subseteq f.infos \cup done[t]
    BY <1>6, <2>1
  <2>4. unread' = {} => local' \subseteq Objects /\ Closed(local')
    <3> SUFFICES ASSUME unread = {}
                 PROVE  local' \subseteq Objects /\ Closed(local')
      BY <1>1
    <3>1. Entries[o] \subseteq local /\ o \in Objects /\ local \subseteq Objects /\ Closed(local)
      BY <1>3, <1>4
    <3> QED
      BY <1>6, <3>1 DEF Closed
  <2>5. unread' = {} => /\ Pursued(f) /\ Taken(f, local')
                        /\ \A x \in f.missing : Entries[x] \subseteq local'
    <3> SUFFICES ASSUME unread = {}
                 PROVE  /\ Pursued(f) /\ Taken(f, local')
                        /\ \A x \in f.missing : Entries[x] \subseteq local'
      BY <1>1
    <3>1. Pursued(f)
      BY <1>4, <2>1 DEF Pursued
    <3>2. Taken(f, local')
      BY <1>4, <1>6, <2>1 DEF Taken
    <3>3. \A x \in f.missing : Entries[x] \subseteq local'
      BY <1>4, <2>1, <2>3
    <3> QED
      BY <3>1, <3>2, <3>3
  <2>6. Rest'
    BY <1>1, <1>2, <2>1, <2>2, <2>3, <2>4, <2>5, CallGoesOnRest
  <2>7. AgesInv'
    <3>1. {o} \in SUBSET Objects
      BY <1>3
    <3> QED
      BY <1>6, <3>1, TransferTyped, AgesLooked
  <2> QED
    BY <2>6, <2>7, InvParts
<1>7. CASE SetTop(t, [Top(t) EXCEPT !.missing = @ \ {o}, !.failure = TRUE]) /\ UNCHANGED <<age, local>>
  <2> DEFINE f == [Top(t) EXCEPT !.missing = @ \ {o}, !.failure = TRUE]
  <2>1. /\ f \in Frame /\ f.infos = Top(t).infos /\ f.missing = Top(t).missing \ {o}
        /\ f.todo = Top(t).todo /\ f.prerequisites = Top(t).prerequisites /\ f.failure = TRUE
    BY <1>3 DEF Frame
  <2>2. SetTop(t, f)
    BY <1>7
  <2> HIDE DEF f
  <2>3. local' = local /\ Top(t).infos \subseteq f.infos \cup done[t]
    BY <1>7, <2>1
  <2>4. unread' = {} => /\ Pursued(f) /\ Taken(f, local')
                        /\ \A x \in f.missing : Entries[x] \subseteq local'
    BY <1>1, <1>4, <2>1, <2>3 DEF Pursued, Taken
  <2>5. Rest'
    BY <1>1, <1>2, <1>3, <2>1, <2>2, <2>3, <2>4, CallGoesOnRest
  <2> QED
    BY <1>7, <2>5, TransferTyped, AgesKept, InvParts
<1> QED
  BY <1>5, <1>6, <1>7

(* and the call returns, or fails. *)
LEMMA CopiedInv ==
  ASSUME Inv, NEW t \in Threads, UNCHANGED clientVars, ServiceUnchanged, Copied(t)
  PROVE  Inv'
<1>1. /\ pc[t] = "copy" /\ pc[t] \in SyncPCs /\ then' = then /\ up' = up /\ age' = age
      /\ local' = local /\ unread' = unread /\ Pop(t) /\ Top(t).missing = {}
  BY DEF Copied, SyncPCs, casVars
<1>2. ServerKept
  BY RetrievalAround
<1>3. /\ Role(t) = "sync" /\ pc[t] \notin Final
      /\ DOMAIN pc = Threads /\ DOMAIN stack = Threads /\ DOMAIN done = Threads
      /\ stack[t] \in Seq(Frame) /\ Len(stack[t]) > 0
      /\ unread = {} => /\ local \subseteq Objects /\ Closed(local) /\ done[t] \subseteq local
  BY <1>1, RetrievalCalls
<1>4. unread = {} => Taken(Top(t), local)
  BY <1>1, LastCall
<1>5. CASE Top(t).failure /\ Goto(t, "failed") /\ UNCHANGED done
  <2> DEFINE s == SubSeq(stack[t], 1, Len(stack[t]) - 1)
  <2>1. s \in Seq(Frame)
    BY <1>3, LastDropped
  <2>2. stack' = [stack EXCEPT ![t] = s] /\ pc' = [pc EXCEPT ![t] = "failed"] /\ done' = done
    BY <1>1, <1>5 DEF Pop, Goto
  <2> HIDE DEF s
  <2>3. /\ DOMAIN pc' = Threads /\ pc'[t] = "failed" /\ \A u \in Threads : u # t => pc'[u] = pc[u]
        /\ DOMAIN stack' = Threads /\ stack'[t] = s /\ \A u \in Threads : u # t => stack'[u] = stack[u]
    BY <1>3, <2>2
  <2>4. RetrievalOK(s, "failed")
    BY <2>1 DEF RetrievalOK, SyncPCs
  <2>5. unread' = {} => /\ local' \subseteq Objects /\ Closed(local')
                        /\ Synced(stack'[t], done'[t], pc'[t], local', InputRoot[Act(t)])
    BY <1>1, <1>3, <2>2, <2>3 DEF Synced, SyncPCs
  <2>6. Rest'
    BY <1>1, <1>2, <1>3, <2>2, <2>3, <2>4, <2>5, RetrievalMovesInv
  <2> QED
    BY <1>1, <2>6, TransferTyped, AgesKept, InvParts
<1>6. CASE /\ ~Top(t).failure /\ done' = [done EXCEPT ![t] = @ \cup Top(t).infos]
           /\ Goto(t, IF OnlyCall(t) THEN "ok" ELSE "copy")
  <2> DEFINE e == done[t] \cup Top(t).infos
  <2>1. unread = {} => e \subseteq local
    BY <1>1, <1>3, <1>4, <1>6 DEF Taken
  <2>2. DOMAIN done' = Threads /\ done'[t] = e /\ \A u \in Threads : u # t => done'[u] = done[u]
    BY <1>3, <1>6
  <2>3. done[t] \subseteq e /\ Top(t).infos \subseteq e
    OBVIOUS
  <2> HIDE DEF e
  <2>4. Rest'
    BY <1>1, <1>2, <1>6, <2>1, <2>2, <2>3, CallReturnsRest
  <2> QED
    BY <1>1, <2>4, TransferTyped, AgesKept, InvParts
<1> QED
  BY <1>5, <1>6 DEF Copied

(* Every step of a retrieval. *)
LEMMA SynchronizesInv ==
  ASSUME Inv, NEW t \in Threads, Synchronizes(t)
  PROVE  Inv'
BY EnterInv, ReadEntriesInv, PrerequisitesInv, ReadTooLargeInv, CopyInv, CopiedInv
   DEF Synchronizes, SyncStep

-----------------------------------------------------------------------------
(* A thread that does not synchronize has an upload's calls. *)
LEMMA OtherCalls ==
  ASSUME Inv, NEW t \in Threads, Role(t) # "sync"
  PROVE  stack[t] \in Seq(UploadFrame) /\ DOMAIN stack = Threads
BY DEF Inv, CallsTyped, UploadOK, Shape

(* The first call of a retrieval. *)
LEMMA FirstCall ==
  ASSUME NEW root \in Objects, NEW d, NEW loc
  PROVE  LET s == <<Retrieve({root})>>
         IN s \in Seq(Frame) /\ Len(s) > 0 /\ Calls(s, d, "sync", loc, root)
<1> DEFINE f == Retrieve({root})
<1>1. f \in Frame /\ root \in f.infos /\ Pursued(f)
  BY DEF Retrieve, Frame, Pursued
<1> HIDE DEF f
<1>2. <<f>> \in Seq(Frame) /\ Len(<<f>>) = 1 /\ <<f>>[1] = f
  BY <1>1
<1> DEFINE s == <<f>>
<1> HIDE DEF s
<1>3. s \in Seq(Frame) /\ Len(s) = 1 /\ s[1] = f
  BY <1>2 DEF s
<1>4. Calls(s, d, "sync", loc, root)
  <2>1. \A p \in 1 .. Len(s) : p = 1
    BY <1>3
  <2>2. \A p \in 1 .. Len(s) : Pursued(s[p])
    BY <1>1, <1>3, <2>1
  <2>3. \A p \in 1 .. Len(s) : ~(p < Len(s))
    BY <1>3
  <2>4. s \in Seq(Frame) /\ Len(s) > 0 /\ root \in s[1].infos \cup d
    BY <1>1, <1>3
  <2> QED
    BY <2>2, <2>3, <2>4 DEF Calls
<1> QED
  BY <1>3, <1>4 DEF s, f

(* A job begins: with the upload of what a build needs, *)
LEMMA BeginBuildInv ==
  ASSUME Inv, NEW t \in Threads, Begin(t), Role(t) = "build"
  PROVE  Inv'
<1>1. /\ pc[t] = "idle" /\ age' = age /\ stack' = stack /\ ServerKept /\ RetrievalsKept
      /\ UploadBlobs(t, Leaves[Act(t)], FALSE, "tree")
  BY DEF Begin, ServiceUnchanged, serviceVars, ServerKept, RetrievalsKept
<1>2. pc[t] \notin Final /\ "tree" \notin SyncPCs \cup InTree
  BY <1>1 DEF Final, SyncPCs, InTree
<1>3. stack[t] \in Seq(UploadFrame) /\ DOMAIN stack = Threads
  BY OtherCalls
<1>4. Leaves[Act(t)] \in SUBSET Objects
  BY ActionTyped, ExecutionAssumption DEF Inv
<1>5. Rest'
  BY <1>1, <1>2, <1>3, <1>4, BeginsRest
<1> QED
  BY <1>1, <1>5, AgesKept, InvParts DEF Inv

(* with waiting, *)
LEMMA BeginWaitInv ==
  ASSUME Inv, NEW t \in Threads, Begin(t), Role(t) = "wait"
  PROVE  Inv'
<1>1. /\ pc[t] = "idle" /\ age' = age /\ stack' = stack /\ ServerKept /\ RetrievalsKept
      /\ pc' = [pc EXCEPT ![t] = "wait"] /\ then' = then /\ up' = up
  BY DEF Begin, ServiceUnchanged, serviceVars, ServerKept, RetrievalsKept, Goto
<1>2. pc[t] \notin Final /\ "wait" \notin SyncPCs \cup CasLabels \cup InTree
  BY <1>1 DEF Final, SyncPCs, CasLabels, InTree
<1>3. stack[t] \in Seq(UploadFrame) /\ DOMAIN stack = Threads
  BY OtherCalls
<1>4. Rest'
  BY <1>1, <1>2, <1>3, GoesOnRest
<1> QED
  BY <1>1, <1>4, AgesKept, InvParts DEF Inv

(* or with the retrieval of what the service was asked for. *)
LEMMA BeginSyncInv ==
  ASSUME Inv, NEW t \in Threads, Begin(t), Role(t) = "sync"
  PROVE  Inv'
<1> DEFINE root == InputRoot[Act(t)]
           s == Append(stack[t], Retrieve({root}))
<1>1. /\ pc[t] = "idle" /\ ServerKept /\ age' = Uplinked({root}, age)
      /\ local' = local /\ done' = done /\ unread' = unread
      /\ then' = then /\ up' = up
      /\ stack' = [stack EXCEPT ![t] = s] /\ pc' = [pc EXCEPT ![t] = "sync"]
  BY DEF Begin, ServiceUnchanged, serviceVars, ServerKept, Goto, Push
<1>2. /\ root \in Objects /\ DOMAIN pc = Threads /\ DOMAIN stack = Threads /\ DOMAIN done = Threads
      /\ stack[t] \in Seq(Frame)
  BY ActionTyped DEF Inv, Shape, CallsTyped, RetrievalOK
<1>3. Retrieve({root}) \in Frame
  BY <1>2 DEF Retrieve, Frame
<1>4. s \in Seq(Frame) /\ Len(s) > 0
  BY <1>2, <1>3, LastAdded
<1>5. unread = {} => /\ local \subseteq Objects /\ Closed(local)
                     /\ Synced(s, done[t], "sync", local, root)
  <2> SUFFICES ASSUME unread = {}
               PROVE  /\ local \subseteq Objects /\ Closed(local)
                      /\ Synced(s, done[t], "sync", local, root)
    OBVIOUS
  <2>1. /\ local \subseteq Objects /\ Closed(local)
        /\ Synced(stack[t], done[t], pc[t], local, root)
    BY DEF Inv, SyncInv
  <2>2. stack[t] = <<>> /\ done[t] \subseteq local
    BY <1>1, <2>1 DEF Synced
  <2>3. s = <<Retrieve({root})>>
    BY <2>2
  <2>4. Calls(s, done[t], "sync", local, root)
    BY <1>2, <2>3, FirstCall
  <2> QED
    BY <2>1, <2>2, <2>4 DEF Synced
<1> HIDE DEF s, root
<1>6. /\ DOMAIN pc' = Threads /\ pc'[t] = "sync" /\ \A u \in Threads : u # t => pc'[u] = pc[u]
      /\ DOMAIN stack' = Threads /\ stack'[t] = s
      /\ \A u \in Threads : u # t => stack'[u] = stack[u]
      /\ DOMAIN done' = Threads /\ done'[t] = done[t]
      /\ \A u \in Threads : u # t => done'[u] = done[u]
  BY <1>1, <1>2
<1>7. unread' = {} => /\ local' \subseteq Objects /\ Closed(local')
                      /\ Synced(stack'[t], done'[t], pc'[t], local', root)
  BY <1>1, <1>5, <1>6
<1>8. RetrievalOK(stack'[t], pc'[t]) /\ pc[t] \notin Final /\ pc'[t] \in SyncPCs
  BY <1>1, <1>4, <1>6 DEF RetrievalOK, Final, SyncPCs
<1>9. Rest'
  BY <1>1, <1>6, <1>7, <1>8, RetrievalMovesInv DEF root
<1>10. AgesInv'
  BY <1>1, <1>2, AgesLooked DEF Inv
<1> QED
  BY <1>9, <1>10, InvParts

(* Every job begins so. *)
LEMMA BeginInv ==
  ASSUME Inv, NEW t \in Threads, Begin(t)
  PROVE  Inv'
BY BeginBuildInv, BeginWaitInv, BeginSyncInv DEF Begin

-----------------------------------------------------------------------------
(* An action not taken from the cache is uploaded itself. *)
LEMMA NotCachedRest ==
  ASSUME Inv, NEW t \in Threads, pc[t] = "uploaded", NotCached(t), ServerKept,
         UNCHANGED transferVars
  PROVE  Rest'
<1>1. UploadBlobs(t, Messages[Act(t)], FALSE, "prepare") /\ stack' = stack /\ RetrievalsKept
  BY DEF NotCached, transferVars, RetrievalsKept
<1>2. pc[t] \notin Final /\ Role(t) # "sync" /\ stack[t] \in Seq(UploadFrame) /\ DOMAIN stack = Threads
  BY UploadCalls DEF Final, SyncPCs
<1>3. Messages[Act(t)] \in SUBSET Objects
  BY ActionTyped, ExecutionAssumption DEF Inv
<1>4. "prepare" \notin SyncPCs \cup InTree
  BY DEF SyncPCs, InTree
<1> QED
  BY <1>1, <1>2, <1>3, <1>4, BeginsRest

(* The cache is asked for the action, *)
LEMMA GetActionResultInv ==
  ASSUME Inv, NEW t \in Threads, GetActionResult(t)
  PROVE  Inv'
<1>1. /\ pc[t] = "uploaded" /\ ServerKept /\ UNCHANGED transferVars
      /\ stack' = stack /\ RetrievalsKept
  BY DEF GetActionResult, ServerKept, transferVars, RetrievalsKept
<1>2. AgesInv'
  <2>1. CASE Cached(Act(t))
    <3>1. {Output[Act(t)]} \in SUBSET Objects
      BY ActionTyped, ExecutionAssumption DEF Inv
    <3>2. age' = Uplinked({Output[Act(t)]}, age)
      BY <2>1 DEF GetActionResult
    <3> QED
      BY <3>1, <3>2, AgesLooked DEF Inv
  <2>2. CASE ~Cached(Act(t))
    <3>1. age' = age
      BY <2>2 DEF GetActionResult
    <3> QED
      BY <3>1, AgesKept DEF Inv
  <2> QED
    BY <2>1, <2>2
<1>3. NotCached(t) \/ (pc' = [pc EXCEPT ![t] = "ok"] /\ then' = then /\ up' = up)
  BY DEF GetActionResult, Goto
<1>4. Rest'
  <2>1. CASE NotCached(t)
    BY <1>1, <2>1, NotCachedRest
  <2>2. CASE pc' = [pc EXCEPT ![t] = "ok"] /\ then' = then /\ up' = up
    <3>1. Role(t) # "sync" /\ stack[t] \in Seq(UploadFrame) /\ DOMAIN stack = Threads
      BY <1>1, UploadCalls DEF SyncPCs
    <3>2. "ok" \in Final /\ "ok" \notin SyncPCs \cup CasLabels \cup InTree
      BY DEF Final, SyncPCs, CasLabels, InTree
    <3> QED
      BY <1>1, <2>2, <3>1, <3>2, GoesOnRest
  <2> QED
    BY <1>3, <2>1, <2>2
<1> QED
  BY <1>2, <1>4, InvParts

(* without an answer. *)
LEMMA LookupLostInv ==
  ASSUME Inv, NEW t \in Threads, LookupLost(t)
  PROVE  Inv'
<1>1. pc[t] = "uploaded" /\ NotCached(t) /\ ServerKept /\ UNCHANGED transferVars /\ age' = age
  BY DEF LookupLost, ServerKept, ServiceUnchanged, serviceVars, casVars
<1>2. Rest'
  BY <1>1, NotCachedRest
<1> QED
  BY <1>1, <1>2, AgesKept, InvParts DEF Inv

(* An execution ends for its client, or waiting does. *)
LEMMA EndsInv ==
  ASSUME Inv, NEW t \in Threads, pc[t] \in {"execute", "wait"}, NEW label \in {"ok", "failed"},
         pc' = [pc EXCEPT ![t] = label], then' = then, up' = up, age' = age,
         UNCHANGED transferVars, ServerKept
  PROVE  Inv'
<1>1. stack' = stack /\ RetrievalsKept
  BY DEF transferVars, RetrievalsKept
<1>2. Role(t) # "sync" /\ stack[t] \in Seq(UploadFrame) /\ DOMAIN stack = Threads
  BY UploadCalls DEF SyncPCs
<1>3. label \in Final /\ label \notin SyncPCs \cup CasLabels \cup InTree
  BY DEF Final, SyncPCs, CasLabels, InTree
<1>4. Rest'
  BY <1>1, <1>2, <1>3, GoesOnRest
<1> QED
  BY <1>4, AgesKept, InvParts DEF Inv

(* The response arrives, *)
LEMMA ReadExecutionInv ==
  ASSUME Inv, NEW t \in Threads, ReadExecution(t)
  PROVE  Inv'
<1>1. /\ pc[t] \in {"execute", "wait"} /\ then' = then /\ up' = up /\ age' = age
      /\ UNCHANGED transferVars /\ ServerKept
  BY DEF ReadExecution, casVars, ServerKept, ServiceUnchanged, serviceVars
<1>2. \E label \in {"ok", "failed"} : pc' = [pc EXCEPT ![t] = label]
  BY DEF ReadExecution, Goto
<1> QED
  BY <1>1, <1>2, EndsInv

(* or the operation is done or forgotten. *)
LEMMA WaitExecutionInv ==
  ASSUME Inv, NEW t \in Threads, WaitExecution(t)
  PROVE  Inv'
<1>1. /\ pc[t] \in {"execute", "wait"} /\ then' = then /\ up' = up /\ age' = age
      /\ UNCHANGED transferVars /\ ServerKept
  BY DEF WaitExecution, casVars, clientVars, ServerKept, ServiceUnchanged, serviceVars
<1>2. \E label \in {"ok", "failed"} : pc' = [pc EXCEPT ![t] = label]
  BY DEF WaitExecution, Goto
<1> QED
  BY <1>1, <1>2, EndsInv

(* A call of attempt k finds no handler there, and none runs but before.   *)
LEMMA CallExecuteInv ==
  ASSUME Inv, NEW t \in Threads, NEW k \in 1 .. MaxAttempts, k = attempt[t] + 1,
         pc[t] \in {"prepare", "execute"}, CallExecute(t, k), then' = then, up' = up, age' = age,
         UNCHANGED transferVars, op' = op, cast' = cast
  PROVE  Inv'
<1> DEFINE h == [stage |-> "called", exit |-> "none"]
<1>1. /\ DOMAIN pc = Threads /\ attempt \in [Threads -> 0 .. MaxAttempts]
      /\ handler \in [Threads -> [1 .. MaxAttempts -> [stage : Stages, exit : Exits]]]
      /\ op \in [Actions -> {"none", "ongoing", "done"}]
      /\ MaxAttempts \in Nat
  BY CasAssumption DEF Inv, Shape
<1>2. /\ handler' = [handler EXCEPT ![t] = [handler[t] EXCEPT ![k] = h]]
      /\ attempt' = [attempt EXCEPT ![t] = k]
      /\ pc' = [pc EXCEPT ![t] = "execute"]
      /\ stack' = stack /\ local' = local /\ done' = done /\ unread' = unread
  BY DEF CallExecute, SetHandler, Goto, transferVars
<1>3. h \in [stage : Stages, exit : Exits] /\ h.stage = "called"
  BY DEF Stages, Exits
<1> HIDE DEF h
<1>4. handler[t][k].stage = "none"
  BY <1>1 DEF Inv, AttemptsInOrder
<1>5. /\ handler' \in [Threads -> [1 .. MaxAttempts -> [stage : Stages, exit : Exits]]]
      /\ handler'[t][k] = h
      /\ \A u \in Threads, j \in 1 .. MaxAttempts : <<u, j>> # <<t, k>> => handler'[u][j] = handler[u][j]
  BY <1>1, <1>2, <1>3
<1>6. /\ attempt' \in [Threads -> 0 .. MaxAttempts] /\ attempt'[t] = k
      /\ \A u \in Threads : u # t => attempt'[u] = attempt[u]
  BY <1>1, <1>2
<1>7. DOMAIN pc' = Threads /\ pc'[t] = "execute" /\ \A u \in Threads : u # t => pc'[u] = pc[u]
  BY <1>1, <1>2
<1>8. \A u : Role(u)' = Role(u) /\ Act(u)' = Act(u)
  BY RolesFixed
<1>9. Role(t) # "sync" /\ pc[t] \notin {"idle", "ok"} \cup SyncPCs
  BY NotSync DEF Inv, SyncPCs
<1>10. Shape'
  BY <1>2, <1>5, <1>6, <1>7 DEF Inv, Shape
<1>11. RolesKept'
  <2> SUFFICES ASSUME NEW u \in Threads
               PROVE  IF Role(u) = "sync" THEN pc'[u] \in SyncPCs \cup {"idle", "ok", "failed"}
                      ELSE pc'[u] \notin SyncPCs /\ then[u] \notin SyncPCs
    BY <1>8 DEF RolesKept
  <2>1. IF Role(u) = "sync" THEN pc[u] \in SyncPCs \cup {"idle", "ok", "failed"}
        ELSE pc[u] \notin SyncPCs /\ then[u] \notin SyncPCs
    BY DEF Inv, RolesKept
  <2>2. "execute" \notin SyncPCs
    BY DEF SyncPCs
  <2> QED
    BY <1>7, <1>9, <2>1, <2>2
<1>12. CallsTyped'
  <2> SUFFICES ASSUME NEW u \in Threads
               PROVE  /\ TransferOK(up[u])
                      /\ IF Role(u) = "sync" THEN RetrievalOK(stack[u], pc'[u])
                         ELSE UploadOK(stack[u], pc'[u], then[u])
    BY <1>2, <1>8 DEF CallsTyped
  <2>1. /\ TransferOK(up[u])
        /\ IF Role(u) = "sync" THEN RetrievalOK(stack[u], pc[u]) ELSE UploadOK(stack[u], pc[u], then[u])
    BY DEF Inv, CallsTyped
  <2>2. UploadOK(stack[t], pc[t], then[t]) => UploadOK(stack[t], "execute", then[t])
    BY DEF UploadOK, InTree, CasLabels
  <2> QED
    BY <1>7, <1>9, <2>1, <2>2
<1>13. AttemptsInOrder'
  <2> SUFFICES ASSUME NEW u \in Threads
               PROVE  /\ attempt'[u] # 0 => pc'[u] \in Final
                      /\ \A j \in 1 .. MaxAttempts : j > attempt'[u] => handler'[u][j].stage = "none"
    BY DEF AttemptsInOrder
  <2>1. /\ attempt[u] # 0 => pc[u] \in Final
        /\ \A j \in 1 .. MaxAttempts : j > attempt[u] => handler[u][j].stage = "none"
    BY DEF Inv, AttemptsInOrder
  <2>2. CASE u = t
    <3>1. pc'[t] \in Final
      BY <1>7 DEF Final
    <3>2. ASSUME NEW j \in 1 .. MaxAttempts, j > k
          PROVE  handler'[t][j].stage = "none"
      <4>1. j > attempt[t] /\ j # k
        BY <1>1, <3>2
      <4>2. handler'[t][j] = handler[t][j]
        BY <1>5, <4>1
      <4> QED
        BY <2>1, <2>2, <4>1, <4>2
    <3> QED
      BY <1>6, <2>2, <3>1, <3>2
  <2>3. CASE u # t
    <3>1. \A j \in 1 .. MaxAttempts : handler'[u][j] = handler[u][j]
      BY <1>5, <2>3
    <3> QED
      BY <1>6, <1>7, <2>1, <2>3, <3>1
  <2> QED
    BY <2>2, <2>3
<1>14. RunningOngoing'
  <2> SUFFICES ASSUME NEW u \in Threads, NEW j \in 1 .. MaxAttempts, handler'[u][j].stage \in Working
               PROVE  op[Act(u)] = "ongoing" \/ Finished(u, j)'
    BY <1>8 DEF RunningOngoing
  <2>1. <<u, j>> # <<t, k>>
    BY <1>3, <1>5 DEF Working
  <2>2. op[Act(u)] = "ongoing" \/ Finished(u, j)
    BY <1>5, <2>1 DEF Inv, RunningOngoing
  <2>3. ASSUME Finished(u, j)
        PROVE  Finished(u, j)'
    <3>1. PICK v \in Threads, i \in 1 .. MaxAttempts :
            Act(v) = Act(u) /\ <<v, i>> # <<u, j>> /\ handler[v][i].stage = "ok"
      BY <2>3 DEF Finished
    <3>2. <<v, i>> # <<t, k>>
      BY <1>4, <3>1
    <3>3. handler'[v][i].stage = "ok"
      BY <1>5, <3>1, <3>2
    <3> QED
      BY <1>8, <3>1, <3>3 DEF Finished
  <2> QED
    BY <2>2, <2>3
<1>15. OperationsBounded'
  <2>1. Known(op)' = Known(op) /\ DoneOps' = DoneOps
    BY DEF Known, DoneOps
  <2> QED
    BY <2>1 DEF Inv, OperationsBounded
<1>16. SyncInv'
  <2> SUFFICES ASSUME unread = {}
               PROVE  /\ local \subseteq Objects /\ Closed(local)
                      /\ \A u \in Threads : Role(u) = "sync" =>
                           Synced(stack[u], done[u], pc'[u], local, InputRoot[Act(u)])
    BY <1>2, <1>8 DEF SyncInv
  <2>1. /\ local \subseteq Objects /\ Closed(local)
        /\ \A u \in Threads : Role(u) = "sync" => Synced(stack[u], done[u], pc[u], local, InputRoot[Act(u)])
    BY DEF Inv, SyncInv
  <2>2. \A u \in Threads : Role(u) = "sync" => pc'[u] = pc[u]
    BY <1>7, <1>9
  <2> QED
    BY <2>1, <2>2
<1>17. Rest'
  BY <1>10, <1>11, <1>12, <1>13, <1>14, <1>15, <1>16 DEF Rest
<1> QED
  BY <1>17, AgesKept, InvParts DEF Inv

(* An execution is asked for, *)
LEMMA ExecuteInv ==
  ASSUME Inv, NEW t \in Threads, Execute(t)
  PROVE  Inv'
<1>1. /\ pc[t] = "prepare" /\ CallExecute(t, 1) /\ then' = then /\ up' = up /\ age' = age
      /\ UNCHANGED transferVars /\ op' = op /\ cast' = cast
  BY DEF Execute, casVars
<1>2. attempt[t] = 0 /\ 1 \in 1 .. MaxAttempts
  BY <1>1, CasAssumption DEF Inv, AttemptsInOrder, Final
<1>3. 1 = attempt[t] + 1
  BY <1>2
<1> QED
  BY <1>1, <1>2, <1>3, CallExecuteInv

(* and once more when the stream breaks. *)
LEMMA UnavailableInv ==
  ASSUME Inv, NEW t \in Threads, Unavailable(t)
  PROVE  Inv'
<1>1. /\ pc[t] = "execute" /\ then' = then /\ up' = up /\ age' = age
      /\ UNCHANGED transferVars /\ op' = op /\ cast' = cast
  BY DEF Unavailable, casVars
<1>2. attempt[t] \in 0 .. MaxAttempts /\ MaxAttempts \in Nat
  BY CasAssumption DEF Inv, Shape
<1>3. CASE attempt[t] < MaxAttempts
  <2>1. attempt[t] + 1 \in 1 .. MaxAttempts /\ CallExecute(t, attempt[t] + 1)
    BY <1>2, <1>3 DEF Unavailable
  <2> QED
    BY <1>1, <2>1, CallExecuteInv
<1>4. CASE ~(attempt[t] < MaxAttempts)
  <2>1. pc' = [pc EXCEPT ![t] = "failed"] /\ handler' = handler /\ attempt' = attempt
    BY <1>4 DEF Unavailable, Goto
  <2>2. ServerKept
    BY <1>1, <2>1 DEF ServerKept
  <2> QED
    BY <1>1, <2>1, <2>2, EndsInv
<1> QED
  BY <1>3, <1>4

(* Every step of a client, *)
LEMMA ClientInv ==
  ASSUME Inv, NEW t \in Threads, Client(t)
  PROVE  Inv'
BY UploadsInv, SynchronizesInv, GetActionResultInv, ExecuteInv, ReadExecutionInv, WaitExecutionInv,
   UnavailableInv DEF Client

(* and everything that gets lost. *)
LEMMA LostInv ==
  ASSUME Inv, NEW t \in Threads, Lost(t)
  PROVE  Inv'
<1>1. CASE TransferLost(t) /\ UNCHANGED <<transferVars, clientVars>> /\ ServiceUnchanged
  <2>1. Around
    BY <1>1 DEF Around
  <2> QED
    BY <1>1, <2>1, TransferInv
<1> QED
  BY <1>1, LookupLostInv, UnavailableInv DEF Lost

-----------------------------------------------------------------------------
(* A handler goes on to stage g. The operation of what it runs is ongoing, *)
(* and others are only ended by it when it has finished.                   *)
LEMMA HandlerMoves ==
  ASSUME Inv, NEW t \in Threads, NEW k \in 1 .. MaxAttempts, ClientsKept,
         handler[t][k].stage \in {"called"} \cup Working,
         NEW g \in {"running", "ran", "ok", "internal"}, NEW x \in Exits, SetHandler(t, k, g, x),
         op' \in [Actions -> {"none", "ongoing", "done"}], OperationsBounded',
         \A a \in Actions : op[a] = "ongoing" => op'[a] = "ongoing" \/ (a = Act(t) /\ g = "ok"),
         g \in Working => op'[Act(t)] = "ongoing" \/ handler[t][k].stage \in Working
  PROVE  Rest'
<1> DEFINE h == [stage |-> g, exit |-> x]
<1>1. /\ handler \in [Threads -> [1 .. MaxAttempts -> [stage : Stages, exit : Exits]]]
      /\ pc' = pc /\ then' = then /\ up' = up /\ attempt' = attempt /\ cast' = cast
      /\ stack' = stack /\ done' = done
  BY DEF Inv, Shape, ClientsKept
<1>2. handler' = [handler EXCEPT ![t] = [handler[t] EXCEPT ![k] = h]]
  BY DEF SetHandler
<1>3. h \in [stage : Stages, exit : Exits] /\ h.stage = g
  BY DEF Stages
<1> HIDE DEF h
<1>4. /\ handler' \in [Threads -> [1 .. MaxAttempts -> [stage : Stages, exit : Exits]]]
      /\ handler'[t][k] = h
      /\ \A u \in Threads, j \in 1 .. MaxAttempts : <<u, j>> # <<t, k>> => handler'[u][j] = handler[u][j]
  BY <1>1, <1>2, <1>3
<1>5. \A u : Role(u)' = Role(u) /\ Act(u)' = Act(u)
  BY <1>1, RolesFixed
<1>6. handler[t][k].stage \notin {"none", "ok"}
  BY DEF Working
<1>7. Shape'
  BY <1>1, <1>4 DEF Inv, Shape
<1>8. AttemptsInOrder'
  <2> SUFFICES ASSUME NEW u \in Threads
               PROVE  /\ attempt[u] # 0 => pc[u] \in Final
                      /\ \A j \in 1 .. MaxAttempts : j > attempt[u] => handler'[u][j].stage = "none"
    BY <1>1 DEF AttemptsInOrder
  <2>1. /\ attempt[u] # 0 => pc[u] \in Final
        /\ \A j \in 1 .. MaxAttempts : j > attempt[u] => handler[u][j].stage = "none"
    BY DEF Inv, AttemptsInOrder
  <2>2. ASSUME NEW j \in 1 .. MaxAttempts, j > attempt[u]
        PROVE  handler'[u][j].stage = "none"
    <3>1. handler[u][j].stage = "none"
      BY <2>1, <2>2
    <3>2. <<u, j>> # <<t, k>>
      BY <1>6, <3>1
    <3> QED
      BY <1>4, <3>1, <3>2
  <2> QED
    BY <2>1, <2>2
<1>9. RunningOngoing'
  <2>1. ASSUME NEW u \in Threads, NEW j \in 1 .. MaxAttempts, Finished(u, j)
        PROVE  Finished(u, j)'
    <3>1. PICK v \in Threads, i \in 1 .. MaxAttempts :
            Act(v) = Act(u) /\ <<v, i>> # <<u, j>> /\ handler[v][i].stage = "ok"
      BY <2>1 DEF Finished
    <3>2. <<v, i>> # <<t, k>>
      BY <1>6, <3>1
    <3>3. handler'[v][i].stage = "ok"
      BY <1>4, <3>1, <3>2
    <3> QED
      BY <1>5, <3>1, <3>3 DEF Finished
  <2> SUFFICES ASSUME NEW u \in Threads, NEW j \in 1 .. MaxAttempts, handler'[u][j].stage \in Working
               PROVE  op'[Act(u)] = "ongoing" \/ Finished(u, j)'
    BY <1>5 DEF RunningOngoing
  <2>2. Act(u) \in Actions
    BY ActionTyped DEF Inv
  <2>3. CASE <<u, j>> = <<t, k>>
    <3>1. u = t /\ j = k /\ g \in Working
      BY <1>3, <1>4, <2>3
    <3>2. CASE handler[t][k].stage \in Working
      <4>1. op[Act(t)] = "ongoing" \/ Finished(t, k)
        BY <3>2 DEF Inv, RunningOngoing
      <4>2. g # "ok"
        BY <3>1 DEF Working
      <4> QED
        BY <2>1, <2>2, <3>1, <4>1, <4>2
    <3> QED
      BY <3>1, <3>2
  <2>4. CASE <<u, j>> # <<t, k>>
    <3>1. op[Act(u)] = "ongoing" \/ Finished(u, j)
      BY <1>4, <2>4 DEF Inv, RunningOngoing
    <3>2. CASE Act(u) = Act(t) /\ g = "ok"
      <4>1. Act(t)' = Act(u)' /\ <<t, k>> # <<u, j>> /\ handler'[t][k].stage = "ok"
        BY <1>3, <1>4, <1>5, <2>4, <3>2
      <4> QED
        BY <4>1 DEF Finished
    <3> QED
      BY <2>1, <2>2, <3>1, <3>2
  <2> QED
    BY <2>3, <2>4
<1> QED
  BY <1>7, <1>8, <1>9, ClientsKeptInv DEF Rest

(* What surrounds the steps of a handler. *)
LEMMA HandlerAround ==
  ASSUME ExecuteUnchanged
  PROVE  ClientsKept
BY DEF ExecuteUnchanged, upVars, transferVars, clientVars, ClientsKept

(* A handler that leaves the operations alone. *)
LEMMA HandlerGoesOn ==
  ASSUME Inv, NEW t \in Threads, NEW k \in 1 .. MaxAttempts, ExecuteUnchanged, op' = op,
         handler[t][k].stage \in {"called"} \cup Working,
         NEW g \in {"ran", "internal"}, NEW x \in Exits, SetHandler(t, k, g, x),
         g = "ran" => handler[t][k].stage \in Working
  PROVE  Rest'
<1>1. op' \in [Actions -> {"none", "ongoing", "done"}]
  BY DEF Inv, Shape
<1>2. Known(op)' = Known(op) /\ DoneOps' = DoneOps
  BY DEF Known, DoneOps
<1>3. OperationsBounded'
  BY <1>2 DEF Inv, OperationsBounded
<1>4. g \in {"running", "ran", "ok", "internal"} /\ (g \in Working => g = "ran")
  BY DEF Working
<1> QED
  BY <1>1, <1>3, <1>4, HandlerAround, HandlerMoves

(* A handler that sets its operation. *)
LEMMA HandlerSets ==
  ASSUME Inv, NEW t \in Threads, NEW k \in 1 .. MaxAttempts, ExecuteUnchanged,
         handler[t][k].stage \in {"called"} \cup Working,
         NEW g, NEW state, NEW x \in Exits, SetHandler(t, k, g, x), Set(Act(t), state),
         (g = "running" /\ state = "ongoing") \/ (g = "ok" /\ state = "done")
  PROVE  Rest'
<1>1. /\ op \in [Actions -> {"none", "ongoing", "done"}] /\ OperationsBounded
      /\ Act(t) \in Actions /\ state \in {"ongoing", "done"}
  BY ActionTyped DEF Inv, Shape
<1>2. /\ op' \in [Actions -> {"none", "ongoing", "done"}] /\ op'[Act(t)] = state
      /\ \A a \in Actions : a # Act(t) /\ op[a] = "ongoing" => op'[a] = "ongoing"
      /\ OperationsBounded'
  BY <1>1, SetBounded
<1>3. \A a \in Actions : op[a] = "ongoing" => op'[a] = "ongoing" \/ (a = Act(t) /\ g = "ok")
  BY <1>2
<1>4. g \in {"running", "ran", "ok", "internal"} /\ (g \in Working => op'[Act(t)] = "ongoing")
  BY <1>2 DEF Working
<1> QED
  BY <1>2, <1>3, <1>4, HandlerAround, HandlerMoves

(* The action is read and its inputs are looked up, *)
LEMMA PrepareInv ==
  ASSUME Inv, NEW t \in Threads, NEW k \in 1 .. MaxAttempts, Prepare(t, k)
  PROVE  Inv'
<1> DEFINE read == Messages[Act(t)] \cup {InputRoot[Act(t)]}
<1>1. /\ handler[t][k].stage \in {"called"} \cup Working /\ ExecuteUnchanged
      /\ age' = Uplinked(read, age)
      /\ \/ SetHandler(t, k, "running", "none") /\ Set(Act(t), "ongoing")
         \/ SetHandler(t, k, "internal", "none") /\ op' = op
  BY DEF Prepare, HandlerAt
<1>2. read \in SUBSET Objects
  BY ActionTyped, ExecutionAssumption DEF Inv
<1>3. "none" \in Exits
  BY DEF Exits
<1>4. Rest'
  <2>1. CASE SetHandler(t, k, "running", "none") /\ Set(Act(t), "ongoing")
    BY <1>1, <1>3, <2>1, HandlerSets
  <2>2. CASE SetHandler(t, k, "internal", "none") /\ op' = op
    BY <1>1, <1>3, <2>2, HandlerGoesOn
  <2> QED
    BY <1>1, <2>1, <2>2
<1> QED
  BY <1>1, <1>2, <1>4, AgesLooked, InvParts DEF Inv

(* its result found in the cache, *)
LEMMA FromCacheInv ==
  ASSUME Inv, NEW t \in Threads, NEW k \in 1 .. MaxAttempts, FromCache(t, k)
  PROVE  Inv'
<1>1. /\ handler[t][k].stage = "running" /\ ExecuteUnchanged /\ op' = op
      /\ age' = Uplinked({Output[Act(t)]}, age) /\ SetHandler(t, k, "ran", "0")
  BY DEF FromCache, HandlerAt
<1>2. {Output[Act(t)]} \in SUBSET Objects
  BY ActionTyped, ExecutionAssumption DEF Inv
<1>3. "0" \in Exits /\ handler[t][k].stage \in Working
  BY <1>1 DEF Exits, Working
<1>4. Rest'
  BY <1>1, <1>3, HandlerGoesOn
<1> QED
  BY <1>1, <1>2, <1>4, AgesLooked, InvParts DEF Inv

(* or the command is run, and stores what it creates with all below it.    *)
LEMMA RunInv ==
  ASSUME Inv, NEW t \in Threads, NEW k \in 1 .. MaxAttempts, Run(t, k)
  PROVE  Inv'
<1> DEFINE a == Uplinked({InputRoot[Act(t)]}, age)
           S == Below[Output[Act(t)]]
<1>1. handler[t][k].stage = "running" /\ ExecuteUnchanged /\ op' = op
  BY DEF Run, HandlerAt
<1>2. \/ age' = Stored(S, a) /\ \E x \in {"0", "1"} : SetHandler(t, k, "ran", x)
      \/ age' = age /\ SetHandler(t, k, "internal", "none")
  BY DEF Run
<1>3. handler[t][k].stage \in Working /\ {"none", "0", "1"} = Exits
  BY <1>1 DEF Exits, Working
<1>4. Rest'
  <2>1. CASE \E x \in {"0", "1"} : SetHandler(t, k, "ran", x)
    BY <1>1, <1>3, <2>1, HandlerGoesOn
  <2>2. CASE SetHandler(t, k, "internal", "none")
    BY <1>1, <1>3, <2>2, HandlerGoesOn
  <2> QED
    BY <1>2, <2>1, <2>2
<1>5. /\ {InputRoot[Act(t)]} \in SUBSET Objects /\ Output[Act(t)] \in Objects
  BY ActionTyped, ExecutionAssumption DEF Inv
<1>6. a \in Ages /\ TreesOK(a)
  BY <1>5, UplinkedTrees DEF Inv, AgesInv
<1>7. S \in SUBSET Objects /\ \A o \in S : Entries[o] \subseteq S
  BY <1>5, BelowFacts DEF Closed
<1> HIDE DEF a, S
<1>8. Stored(S, a) \in Ages /\ TreesOK(Stored(S, a))
  <2>1. \A o \in S : \A e \in Entries[o] : e \in S \/ a[e] < Generations
    BY <1>7
  <2> QED
    BY <1>6, <1>7, <2>1, StoredTrees
<1>9. age' \in Ages /\ TreesOK(age')
  BY <1>2, <1>8 DEF Inv, AgesInv
<1>10. AgesInv'
  BY <1>9 DEF AgesInv, TreesOK
<1> QED
  BY <1>4, <1>10, InvParts

(* Something fails: *)
LEMMA BreaksInv ==
  ASSUME Inv, NEW t \in Threads, NEW k \in 1 .. MaxAttempts, Breaks(t, k)
  PROVE  Inv'
<1>1. /\ handler[t][k].stage \in Working /\ ExecuteUnchanged /\ op' = op /\ age' = age
      /\ SetHandler(t, k, "internal", "none") /\ "none" \in Exits
  BY DEF Breaks, Exits
<1>2. Rest'
  BY <1>1, HandlerGoesOn
<1> QED
  BY <1>1, <1>2, AgesKept, InvParts DEF Inv

(* or the operation is done. *)
LEMMA RespondInv ==
  ASSUME Inv, NEW t \in Threads, NEW k \in 1 .. MaxAttempts, Respond(t, k)
  PROVE  Inv'
<1>1. /\ handler[t][k].stage = "ran" /\ ExecuteUnchanged /\ age' = age
      /\ SetHandler(t, k, "ok", handler[t][k].exit) /\ Set(Act(t), "done")
  BY DEF Respond, HandlerAt
<1>2. handler[t][k].exit \in Exits /\ handler[t][k].stage \in Working
  BY <1>1 DEF Inv, Shape, Working
<1>3. Rest'
  BY <1>1, <1>2, HandlerSets
<1> QED
  BY <1>1, <1>3, AgesKept, InvParts DEF Inv

(* The build root is collected, while nothing is run. *)
LEMMA CollectInv ==
  ASSUME Inv, Collect
  PROVE  Inv'
<1>1. /\ ClientsKept /\ handler' = handler /\ op' = op
      /\ age' = [o \in Objects |-> Min({age[o] + 1, Generations})]
  BY DEF Collect, upVars, transferVars, clientVars, ClientsKept
<1>2. AgesInv'
  <2>1. age \in Ages /\ TreesOK(age)
    BY DEF Inv, AgesInv
  <2>2. age' \in Ages /\ TreesOK(age')
    BY <1>1, <2>1, AgedTrees
  <2> QED
    BY <2>2 DEF AgesInv, TreesOK
<1>3. ServerKept
  BY <1>1 DEF ClientsKept, ServerKept
<1>4. RunningOngoing' /\ OperationsBounded'
  BY <1>3, ServerKeptInv DEF Inv
<1>5. Shape' /\ AttemptsInOrder'
  BY <1>1 DEF Inv, Shape, AttemptsInOrder, ClientsKept
<1> QED
  BY <1>1, <1>2, <1>4, <1>5, ClientsKeptInv DEF Inv

(* The service is restarted, upon which it knows of no operation. *)
LEMMA RestartInv ==
  ASSUME Inv, Restart
  PROVE  Inv'
<1> DEFINE none == [stage |-> "none", exit |-> "none"]
           H(t, k) == IF handler[t][k].stage \in {"called"} \cup Working THEN none ELSE handler[t][k]
<1>1. /\ ClientsKept /\ age' = age /\ op' = [a \in Actions |-> "none"]
      /\ handler' = [t \in Threads |-> [k \in 1 .. MaxAttempts |-> H(t, k)]]
  BY DEF Restart, casVars, upVars, transferVars, clientVars, ClientsKept
<1>2. handler \in [Threads -> [1 .. MaxAttempts -> [stage : Stages, exit : Exits]]]
  BY DEF Inv, Shape
<1>3. none \in [stage : Stages, exit : Exits] /\ none.stage = "none"
  BY DEF Stages, Exits
<1>4. \A t \in Threads, k \in 1 .. MaxAttempts :
        /\ H(t, k) \in [stage : Stages, exit : Exits] /\ H(t, k).stage \notin Working
        /\ handler[t][k].stage = "none" => H(t, k).stage = "none"
  BY <1>2, <1>3 DEF Working
<1> HIDE DEF H, none
<1>5. \A t \in Threads, k \in 1 .. MaxAttempts : handler'[t][k] = H(t, k)
  BY <1>1
<1>6. handler' \in [Threads -> [1 .. MaxAttempts -> [stage : Stages, exit : Exits]]]
  BY <1>1, <1>4
<1>7. Shape'
  BY <1>1, <1>6 DEF Inv, Shape, ClientsKept
<1>8. AttemptsInOrder'
  BY <1>1, <1>4, <1>5 DEF Inv, AttemptsInOrder, ClientsKept
<1>9. RunningOngoing'
  BY <1>4, <1>5 DEF RunningOngoing
<1>10. OperationsBounded'
  <2>1. Known(op)' = {}
    BY <1>1 DEF Known
  <2>2. Cardinality({}) = 0 /\ 0 <= 2 * Threshold + 1
    BY FS_EmptySet, ExecutionAssumption
  <2>3. /\ Cardinality(Known(op)' \ DoneOps') + 1 = 1 /\ Cardinality(Known(op)') = 0
        /\ 2 * Threshold + 1 \in Nat /\ 1 \in Nat
    BY <2>1, <2>2, ExecutionAssumption
  <2>4. 0 <= Max({2 * Threshold + 1, 1})
    BY <2>3, MaxOfTwo
  <2> QED
    BY <2>3, <2>4 DEF OperationsBounded, Known
<1>11. AgesInv'
  BY <1>1, AgesKept DEF Inv
<1> QED
  BY <1>1, <1>7, <1>8, <1>9, <1>10, <1>11, ClientsKeptInv DEF Inv

-----------------------------------------------------------------------------
(* The service starts with all parts of what it has, and with no more      *)
(* operations than it keeps.                                               *)
LEMMA InitInv ==
  ASSUME Init
  PROVE  Inv
<1> DEFINE present == Casts[cast].present
           executed == Casts[cast].executed
<1>1. /\ cast \in DOMAIN Casts
      /\ age = [o \in Objects |-> IF o \in present THEN Generations - 1 ELSE Generations]
      /\ pc = [t \in Threads |-> "idle"] /\ then = [t \in Threads |-> "idle"]
      /\ up = [t \in Threads |-> NoTransfer]
      /\ op = [a \in Actions |-> IF a \in executed THEN "done" ELSE "none"]
      /\ handler = [t \in Threads |-> [k \in 1 .. MaxAttempts |-> [stage |-> "none", exit |-> "none"]]]
      /\ attempt = [t \in Threads |-> 0]
  BY DEF Init, CasInit
<1>2. /\ stack = [t \in Threads |-> <<>>] /\ done = [t \in Threads |-> {}]
      /\ local \subseteq Objects /\ Closed(local)
  BY DEF Init, TransferInit, Closed
<1>3. /\ present \subseteq Objects /\ Closed(present)
      /\ executed \subseteq Actions /\ Cardinality(executed) <= 2 * Threshold + 1
  BY <1>1, ExecutionAssumption
<1>4. Generations \in Nat \ {0} /\ MaxAttempts \in Nat \ {0}
  BY CasAssumption
<1> HIDE DEF present, executed
<1>5. Shape
  <2>1. [stage |-> "none", exit |-> "none"] \in [stage : Stages, exit : Exits]
    BY DEF Stages, Exits
  <2>2. handler \in [Threads -> [1 .. MaxAttempts -> [stage : Stages, exit : Exits]]]
    BY <1>1, <2>1
  <2>3. attempt \in [Threads -> 0 .. MaxAttempts] /\ op \in [Actions -> {"none", "ongoing", "done"}]
    BY <1>1, <1>4
  <2> QED
    BY <1>1, <1>2, <2>2, <2>3 DEF Shape
<1>6. AgesInv
  <2>1. age \in Ages
    BY <1>1, <1>4 DEF Ages
  <2>2. ASSUME NEW o \in Trees, age[o] < Generations, NEW e \in Entries[o]
        PROVE  age[e] <= age[o]
    <3>1. o \in Objects /\ e \in Objects
      BY CasAssumption
    <3>2. o \in present
      BY <1>1, <1>4, <2>2, <3>1
    <3>3. e \in present
      BY <1>3, <3>2 DEF Closed
    <3> QED
      BY <1>1, <1>4, <3>1, <3>2, <3>3
  <2> QED
    BY <2>1, <2>2 DEF AgesInv, TreesOK
<1>7. RolesKept
  BY <1>1 DEF RolesKept, SyncPCs
<1>8. CallsTyped
  <2>1. TransferOK(NoTransfer)
    BY DEF NoTransfer, TransferOK
  <2>2. <<>> \in Seq(UploadFrame) /\ <<>> \in Seq(Frame)
    OBVIOUS
  <2>3. UploadOK(<<>>, "idle", "idle") /\ RetrievalOK(<<>>, "idle")
    BY <2>2 DEF UploadOK, RetrievalOK, InTree, CasLabels, SyncPCs
  <2> QED
    BY <1>1, <1>2, <2>1, <2>3 DEF CallsTyped
<1>9. AttemptsInOrder
  BY <1>1 DEF AttemptsInOrder
<1>10. RunningOngoing
  BY <1>1 DEF RunningOngoing, Working
<1>11. OperationsBounded
  <2>1. Known(op) = executed
    BY <1>1, <1>3 DEF Known
  <2> QED
    BY <1>3, <2>1, BoundMeans
<1>12. SyncInv
  <2>1. \A t \in Threads : Synced(stack[t], done[t], pc[t], local, InputRoot[Act(t)])
    BY <1>1, <1>2 DEF Synced, SyncPCs
  <2> QED
    BY <1>2, <2>1 DEF SyncInv
<1> QED
  BY <1>5, <1>6, <1>7, <1>8, <1>9, <1>10, <1>11, <1>12 DEF Inv

(* Nothing happens. *)
LEMMA StutterInv ==
  ASSUME Inv, UNCHANGED vars
  PROVE  Inv'
BY OnlyLimitInv DEF vars, casVars, upVars, transferVars, serviceVars, clientVars, ClientsKept

(* Every step keeps the invariant. *)
LEMMA NextInv ==
  ASSUME Inv, [Next]_vars
  PROVE  Inv'
<1>1. CASE \E t \in Threads : Begin(t) \/ Client(t) \/ Lost(t)
  BY <1>1, BeginInv, ClientInv, LostInv
<1>2. CASE \E t \in Threads, k \in 1 .. MaxAttempts : Handles(t, k) \/ Breaks(t, k)
  BY <1>2, PrepareInv, FromCacheInv, RunInv, RespondInv, BreaksInv DEF Handles
<1>3. CASE Collect \/ Restart
  BY <1>3, CollectInv, RestartInv
<1>4. CASE UNCHANGED vars
  BY <1>4, StutterInv
<1> QED
  BY <1>1, <1>2, <1>3, <1>4 DEF Next

(* The invariant holds, whatever clients, collections, restarts and lost   *)
(* calls come in between.                                                  *)
THEOREM InvariantHolds == Spec => []Inv
<1>1. Init => Inv
  BY InitInv
<1>2. Inv /\ [Next]_vars => Inv'
  BY NextInv
<1> QED
  BY <1>1, <1>2, PTL DEF Spec

(* The CAS of the service never has a tree without its entries, and no     *)
(* tree outlives one of them: content validation, uplinking and collection *)
(* of trees in any order.                                                  *)
THEOREM ServerTreesKept == Spec => []ServerTreesComplete
<1>1. Inv => ServerTreesComplete
  BY DEF Inv, AgesInv, TreesOK, ServerTreesComplete, InCas
<1> QED
  BY <1>1, InvariantHolds, PTL

(* What runs is listed in the operation cache until an execution of it has *)
(* finished, and finished operations do not pile up.                       *)
THEOREM OperationsListed == Spec => []RunningIsListed
<1>1. Inv => RunningIsListed
  <2> SUFFICES ASSUME Inv PROVE RunningIsListed
    OBVIOUS
  <2>1. OperationsBounded
    BY DEF Inv
  <2>2. ASSUME NEW t \in Threads, NEW k \in 1 .. MaxAttempts, handler[t][k].stage \in Working
        PROVE  \/ op[Act(t)] # "none"
               \/ \E u \in Threads, j \in 1 .. MaxAttempts :
                    Act(u) = Act(t) /\ <<u, j>> # <<t, k>> /\ handler[u][j].stage = "ok"
    BY <2>2 DEF Inv, RunningOngoing, Finished
  <2> QED
    BY <2>1, <2>2 DEF RunningIsListed
<1> QED
  BY <1>1, InvariantHolds, PTL

(* A retrieval that succeeded has left its root in the local CAS with all  *)
(* below it, and every tree there has its entries, however the retrievals  *)
(* of several threads interleave.                                          *)
THEOREM RetrievalComplete == Spec => []SyncedIsComplete
<1>1. Inv => SyncedIsComplete
  <2> SUFFICES ASSUME Inv, unread = {}
               PROVE  /\ Closed(local)
                      /\ \A t \in Played("sync") : pc[t] = "ok" => Below[InputRoot[Act(t)]] \subseteq local
    BY DEF SyncedIsComplete
  <2>1. /\ local \subseteq Objects /\ Closed(local)
        /\ \A t \in Threads : Role(t) = "sync" => Synced(stack[t], done[t], pc[t], local, InputRoot[Act(t)])
    BY DEF Inv, SyncInv
  <2>2. ASSUME NEW t \in Played("sync"), pc[t] = "ok"
        PROVE  Below[InputRoot[Act(t)]] \subseteq local
    <3>1. t \in Threads /\ Role(t) = "sync"
      BY DEF Played
    <3>2. InputRoot[Act(t)] \in local /\ InputRoot[Act(t)] \in Objects
      BY <2>1, <2>2, <3>1, ActionTyped DEF Synced, Inv
    <3> QED
      BY <2>1, <3>2, BelowFacts
  <2> QED
    BY <2>1, <2>2
<1> QED
  BY <1>1, InvariantHolds, PTL

=============================================================================
