--------------------------- MODULE StorageProofs ---------------------------
(***************************************************************************)
(* The invariants of the build root hold for every set of objects, every   *)
(* number of generations and of build threads.  If a write whose outcome   *)
(* the code ignores may fail, they hold but for objects that were split.   *)
(***************************************************************************)
EXTENDS Storage, SequenceTheorems, TLAPS

-----------------------------------------------------------------------------
(* What a generation promises to serve: an object whose split was not       *)
(* recorded may be gone, if writing a large entry can fail unnoticed.       *)
Vouched(files, n) == Has(files, n) \/ (IgnoredWritesFail /\ n[2] \in Splittable)

TreeInv ==
    \A g \in Generations, t \in Trees :
        {<<"t", t>>, <<"lt", t>>} \cap cas[g] # {} =>
            \A e \in Entries[t] : Vouched(cas[g], e)

CacheInv ==
    \A g \in Generations, k \in Keys :
        cache[g][k] # NoValue =>
            \A n \in Needs(cache[g][k]) :
                IF IsKey(n) THEN cache[g][n[2]] # NoValue ELSE Vouched(cas[g], n)

(* What follows speaks of files c (as cas) and cache entries h (as cache),  *)
(* so that a fact about one state can be carried over to the next.          *)

(* In the youngest generation, as an entry of something else needs it. *)
Present(n, c, h) == IF n \in KeyNodes THEN h[0][n[2]] # NoValue ELSE Vouched(c[0], n)

(* A large entry may be added once the chunks in todo have been. *)
LargeOK(n, todo, c) ==
    /\ n[2] \in Splittable
    /\ todo \subseteq Parts(n[2])
    /\ Parts(n[2]) \ todo \subseteq c[0]
    /\ n \in {"lt"} \X Trees => \A e \in Entries[n[2]] : Vouched(c[0], e)

(* A cache entry may be added once the nodes in todo have been. *)
EntryOK(n, v, todo, c, h) ==
    \A m \in Needs(v) \ (todo \cup {n}) : Present(m, c, h)

(* A frame of an uplink from generation g. *)
FrameOK(f, g, c, h) ==
    /\ f.todo \subseteq Objects \cup KeyNodes
    /\ f.node \in TreeItems => \A e \in Entries[f.node[2]] \ f.todo : Vouched(c[0], e)
    /\ f.node \in LargeItems => f.node \in c[g] /\ LargeOK(f.node, f.todo, c)
    /\ f.node \in KeyNodes => /\ g # 0 /\ h[g][f.node[2]] # NoValue
                              /\ EntryOK(f.node, h[g][f.node[2]], f.todo, c, h)
    /\ f.large # "no" => f.node \in Objects /\ f.node[2] \in Splittable
    /\ f.large = "due" => LargeOf(f.node) \in c[g]
    /\ f.large = "done" => LargeOf(f.node) \in c[0] \/ IgnoredWritesFail

StackOK(S, g, c, h) ==
    \A i \in 1 .. Len(S) :
        /\ FrameOK(S[i], g, c, h)
        /\ (i > 1 /\ S[i].node \in LargeItems) =>
              /\ S[i].node = LargeOf(S[i - 1].node)
              /\ S[i - 1].large = "due"

(* A goal of a request. *)
GoalOK(g, c, h) ==
    /\ g.todo \subseteq Objects \cup KeyNodes
    /\ g.mode # "write" => g.todo \subseteq Objects
    /\ g.todo # {} => g.mode \in {"create", "add", "sync", "resplice", "enter", "value", "write"}
    /\ g.mode \in {"lookup", "only", "check", "create", "add", "split", "splice",
                   "sync", "resplice"} => g.node \in Objects
    /\ (g.mode \in {"create", "add"} /\ g.node \in TreeItems) =>
          \A e \in Entries[g.node[2]] \ g.todo : Vouched(c[0], e)
    /\ g.mode \in {"sync", "resplice"} => g.node \in BlobItems
    /\ g.mode \in {"splice", "resplice"} => g.node[2] \in Splittable
    /\ g.mode = "entry" => g.node \in LargeItems
    /\ g.mode = "enter" => g.node \in LargeItems /\ LargeOK(g.node, g.todo, c)
    /\ g.mode = "read" => g.node \in KeyNodes
    /\ g.mode = "value" => g.node \in KeyNodes /\ h[0][g.node[2]] # NoValue
    /\ g.mode = "write" => /\ g.node \in KeyNodes /\ g.value \in Values
                           /\ EntryOK(g.node, g.value, g.todo, c, h)

GoalsOK(gs, c, h) == \A i \in 1 .. Len(gs) : GoalOK(gs[i], c, h)

ThreadOK(p) ==
    /\ p \notin holds => phase[p] = "idle"
    /\ phase[p] = "idle" <=> goals[p] = <<>>
    /\ phase[p] = "run" <=> stack[p] # <<>>
    /\ phase[p] = "run" => stack[p][1].node = Current(p).node
    /\ phase[p] \in {"run", "true", "false"} =>
          /\ Current(p).todo = {}
          /\ Current(p).mode \notin {"enter", "value", "write"}
    /\ phase[p] = "true" =>
          InYoungest(Current(p).node) \/ Current(p).node \in LargeItems
    /\ (phase[p] # "idle" /\ Current(p).mode = "entry") =>
          at[p] = 0 /\ phase[p] \notin {"run", "false"}
    /\ GoalsOK(goals[p], cas, cache)
    /\ StackOK(stack[p], at[p], cas, cache)

(* The split of an object has its entry, or the failed write was ignored. *)
Recorded(n, c) == LargeOf(n) \in c[0] \/ IgnoredWritesFail

CollectorOK ==
    /\ gc # "off" => holds = {}
    /\ gc = "split" => /\ splitting \subseteq cas[0]
                       /\ \A n \in written : n[2] \in Splittable => Recorded(n, cas)

StorageInv ==
    /\ TypeOK
    /\ TreeInv /\ LargeInvariant /\ CacheInv
    /\ \A p \in Threads : ThreadOK(p)
    /\ CollectorOK

-----------------------------------------------------------------------------
(* The kinds of nodes are told apart by their first component. *)
LEMMA NodeKinds ==
    /\ 0 \in Generations
    /\ \A n \in BlobItems : n \in Objects /\ n[1] \in {"f", "x"} /\ n[2] \in Blobs
    /\ \A n \in TreeItems : n \in Objects /\ n[1] = "t" /\ n[2] \in Trees
    /\ \A n \in Objects : /\ n \in BlobItems \/ n \in TreeItems
                          /\ n \in Items /\ n \notin LargeItems
    /\ \A n \in LargeItems : n \in Items /\ n[1] \in {"lf", "lt"}
    /\ \A n \in Items : /\ n \in Nodes /\ n \notin KeyNodes
                        /\ n \in Objects \/ n \in LargeItems
    /\ \A n \in KeyNodes : n \in Nodes /\ n[1] = "key" /\ n[2] \in Keys
    /\ \A n \in Nodes : n \in Items \/ n \in KeyNodes
  BY StorageAssumption DEF Generations, BlobItems, TreeItems, Objects, LargeItems, Items,
                          KeyNodes, Nodes

(* The tests the code makes on a node say of which kind it is. *)
LEMMA Tests ==
    ASSUME NEW n \in Nodes
    PROVE  /\ IsKey(n) <=> n \in KeyNodes
           /\ IsLarge(n) <=> n \in LargeItems
           /\ IsTree(n) <=> n \in TreeItems
  BY NodeKinds DEF IsKey, IsLarge, IsTree

LEMMA LargeOfKind ==
    ASSUME NEW n \in Objects
    PROVE  /\ LargeOf(n) \in LargeItems
           /\ LargeOf(n)[2] = n[2]
           /\ LargeOf(n) \in {"lt"} \X Trees <=> n \in TreeItems
  BY NodeKinds, StorageAssumption DEF LargeOf, IsTree, LargeItems, TreeItems, BlobItems

LEMMA LargeKind ==
    ASSUME NEW n \in LargeItems
    PROVE  n \in Nodes /\ n \notin Objects /\ n \notin KeyNodes /\ n \notin TreeItems
  <1>1. n \in Items /\ n \notin Objects
    BY NodeKinds
  <1>2. n \in Nodes /\ n \notin KeyNodes /\ n \notin TreeItems
    BY <1>1 DEF Nodes, Items, LargeItems, KeyNodes, TreeItems, Objects
  <1> QED BY <1>1, <1>2

LEMMA PartsKind ==
    ASSUME NEW d \in Splittable
    PROVE  Parts(d) \subseteq BlobItems
  BY StorageAssumption DEF Parts, BlobItems

LEMMA FlippedKind ==
    ASSUME NEW n \in BlobItems
    PROVE  Flipped(n) \in BlobItems
  BY DEF Flipped, BlobItems

LEMMA UplinkedKind ==
    ASSUME NEW v \in Values, NEW k \in Keys
    PROVE  UplinkedWith(k, v) \subseteq Objects \cup KeyNodes
  BY StorageAssumption DEF UplinkedWith, Objects, BlobItems, KeyNodes

LEMMA NeedsKind ==
    ASSUME NEW v \in Values
    PROVE  /\ Needs(v) \subseteq Objects \cup KeyNodes
           /\ <<"f", ValueBlob[v]>> \in BlobItems
           /\ Unlinked[v] \subseteq Objects
  BY StorageAssumption DEF Needs, Objects, BlobItems, KeyNodes

-----------------------------------------------------------------------------
(* A build step only adds files; it may overwrite cache entries of the      *)
(* youngest generation, and leaves those of the older ones alone.           *)
Grows(c, h, d, e) ==
    /\ \A g \in Generations : c[g] \subseteq d[g]
    /\ \A k \in Keys : h[0][k] # NoValue => e[0][k] # NoValue
    /\ \A g \in Generations \ {0} : e[g] = h[g]

LEMMA PresentGrows ==
    ASSUME NEW c, NEW h, NEW d, NEW e, Grows(c, h, d, e), NEW n, Present(n, c, h)
    PROVE  Present(n, d, e)
  BY NodeKinds DEF Present, Vouched, Has, Grows

LEMMA LargeGrows ==
    ASSUME NEW c, NEW h, NEW d, NEW e, Grows(c, h, d, e), NEW n, NEW todo, LargeOK(n, todo, c)
    PROVE  LargeOK(n, todo, d)
  BY NodeKinds DEF LargeOK, Vouched, Has, Grows

LEMMA EntryGrows ==
    ASSUME NEW c, NEW h, NEW d, NEW e, Grows(c, h, d, e), NEW n, NEW v, NEW todo,
           EntryOK(n, v, todo, c, h)
    PROVE  EntryOK(n, v, todo, d, e)
  BY PresentGrows DEF EntryOK

LEMMA FrameGrows ==
    ASSUME NEW c, NEW h, NEW d, NEW e, Grows(c, h, d, e), NEW f, NEW g \in Generations,
           FrameOK(f, g, c, h)
    PROVE  FrameOK(f, g, d, e)
  <1>1. c[0] \subseteq d[0] /\ c[g] \subseteq d[g] /\ (g # 0 => e[g] = h[g])
    BY NodeKinds DEF Grows
  <1>2. \A n : Vouched(c[0], n) => Vouched(d[0], n)
    BY <1>1 DEF Vouched, Has
  <1>3. f.node \in LargeItems => f.node \in d[g] /\ LargeOK(f.node, f.todo, d)
    BY <1>1, LargeGrows DEF FrameOK
  <1>4. f.node \in KeyNodes => /\ g # 0 /\ e[g][f.node[2]] # NoValue
                               /\ EntryOK(f.node, e[g][f.node[2]], f.todo, d, e)
    <2>1. SUFFICES ASSUME f.node \in KeyNodes
                   PROVE  /\ g # 0 /\ e[g][f.node[2]] # NoValue
                          /\ EntryOK(f.node, e[g][f.node[2]], f.todo, d, e)
      OBVIOUS
    <2>2. g # 0 /\ h[g][f.node[2]] # NoValue /\ EntryOK(f.node, h[g][f.node[2]], f.todo, c, h)
      BY <2>1 DEF FrameOK
    <2> QED BY <2>2, <1>1, EntryGrows
  <1> QED BY <1>1, <1>2, <1>3, <1>4 DEF FrameOK

LEMMA StackGrows ==
    ASSUME NEW c, NEW h, NEW d, NEW e, Grows(c, h, d, e), NEW S, NEW g \in Generations,
           StackOK(S, g, c, h)
    PROVE  StackOK(S, g, d, e)
  BY FrameGrows DEF StackOK

LEMMA GoalGrows ==
    ASSUME NEW c, NEW h, NEW d, NEW e, Grows(c, h, d, e), NEW g, GoalOK(g, c, h)
    PROVE  GoalOK(g, d, e)
  <1>1. \A n : Vouched(c[0], n) => Vouched(d[0], n)
    BY NodeKinds DEF Vouched, Has, Grows
  <1>2. g.mode = "enter" => LargeOK(g.node, g.todo, d)
    BY LargeGrows DEF GoalOK
  <1>3. g.mode = "write" => EntryOK(g.node, g.value, g.todo, d, e)
    BY EntryGrows DEF GoalOK
  <1>4. g.mode = "value" => g.node \in KeyNodes /\ e[0][g.node[2]] # NoValue
    BY NodeKinds DEF GoalOK, Grows
  <1> QED BY <1>1, <1>2, <1>3, <1>4 DEF GoalOK

LEMMA GoalsGrow ==
    ASSUME NEW c, NEW h, NEW d, NEW e, Grows(c, h, d, e), NEW gs, GoalsOK(gs, c, h)
    PROVE  GoalsOK(gs, d, e)
  BY GoalGrows DEF GoalsOK

-----------------------------------------------------------------------------
(* A build step may add a file or a cache entry whose references are there. *)
Justified(c, h, d, e) ==
    /\ d \in [Generations -> SUBSET Items]
    /\ e \in [Generations -> [Keys -> Values \cup {NoValue}]]
    /\ Grows(c, h, d, e)
    /\ \A g \in Generations : \A n \in d[g] \ c[g] :
          \/ n \in BlobItems
          \/ g = 0 /\ n \in TreeItems /\ \A x \in Entries[n[2]] : Vouched(c[0], x)
          \/ g = 0 /\ n \in LargeItems /\ LargeOK(n, {}, c)
    /\ \A k \in Keys : e[0][k] # h[0][k] =>
          e[0][k] \in Values /\ EntryOK(<<"key", k>>, e[0][k], {}, c, h)

LEMMA TreeKept ==
    ASSUME TypeOK, TreeInv, Justified(cas, cache, cas', cache')
    PROVE  TreeInv'
  <1> SUFFICES ASSUME NEW g \in Generations, NEW t \in Trees,
                      {<<"t", t>>, <<"lt", t>>} \cap cas'[g] # {},
                      NEW x \in Entries[t]
               PROVE  Vouched(cas'[g], x)
    BY DEF TreeInv
  <1>1. cas[g] \subseteq cas'[g]
    BY DEF Justified, Grows
  <1>2. CASE {<<"t", t>>, <<"lt", t>>} \cap cas[g] # {}
    BY <1>1, <1>2 DEF TreeInv, Vouched, Has
  <1>3. CASE {<<"t", t>>, <<"lt", t>>} \cap cas[g] = {}
    <2>1. PICK n \in {<<"t", t>>, <<"lt", t>>} : n \in cas'[g] \ cas[g]
      BY <1>3
    <2>2. n \notin BlobItems /\ n[2] = t
      BY <2>1 DEF BlobItems
    <2>3. n \in LargeItems => n \in {"lt"} \X Trees
      BY <2>1, NodeKinds
    <2>4. g = 0 /\ (n \in LargeItems => LargeOK(n, {}, cas))
            /\ (n \in TreeItems => \A y \in Entries[n[2]] : Vouched(cas[0], y))
            /\ (n \in LargeItems \/ n \in TreeItems)
      BY <2>1, <2>2, NodeKinds DEF Justified
    <2>5. Vouched(cas[0], x)
      BY <2>2, <2>3, <2>4 DEF LargeOK
    <2> QED BY <2>4, <2>5, <1>1 DEF Vouched, Has
  <1> QED BY <1>2, <1>3

LEMMA LargeKept ==
    ASSUME TypeOK, LargeInvariant, Justified(cas, cache, cas', cache')
    PROVE  LargeInvariant'
  <1> SUFFICES ASSUME NEW g \in Generations, NEW n \in cas'[g] \cap LargeItems
               PROVE  n[2] \in Splittable /\ Parts(n[2]) \subseteq cas'[g]
    BY DEF LargeInvariant
  <1>1. cas[g] \subseteq cas'[g]
    BY DEF Justified, Grows
  <1>2. n \notin BlobItems /\ n \notin TreeItems
    BY NodeKinds
  <1>3. n \notin cas[g] => g = 0 /\ LargeOK(n, {}, cas)
    BY <1>2 DEF Justified
  <1> QED BY <1>1, <1>3 DEF LargeInvariant, LargeOK

LEMMA CacheKept ==
    ASSUME TypeOK, CacheInv, Justified(cas, cache, cas', cache')
    PROVE  CacheInv'
  <1> SUFFICES ASSUME NEW g \in Generations, NEW k \in Keys, cache'[g][k] # NoValue,
                      NEW n \in Needs(cache'[g][k])
               PROVE  IF IsKey(n) THEN cache'[g][n[2]] # NoValue ELSE Vouched(cas'[g], n)
    BY DEF CacheInv
  <1>1. cas[g] \subseteq cas'[g] /\ (g # 0 => cache'[g] = cache[g])
    BY DEF Justified, Grows
  <1>2. cache'[g][k] \in Values
    BY DEF Justified
  <1>3. n \in Objects \cup KeyNodes
    BY <1>2, NeedsKind
  <1>4. n \in Nodes /\ (IsKey(n) <=> n \in KeyNodes)
    BY <1>3, NodeKinds, Tests
  <1>5. CASE cache'[g][k] = cache[g][k]
    <2>1. IF IsKey(n) THEN cache[g][n[2]] # NoValue ELSE Vouched(cas[g], n)
      BY <1>5 DEF CacheInv
    <2>2. g = 0 => \A x \in Keys : cache[0][x] # NoValue => cache'[0][x] # NoValue
      BY DEF Justified, Grows
    <2> QED BY <2>1, <2>2, <1>1, <1>3, <1>4, NodeKinds DEF Vouched, Has
  <1>6. CASE cache'[g][k] # cache[g][k]
    <2>1. g = 0 /\ EntryOK(<<"key", k>>, cache'[0][k], {}, cas, cache)
      BY <1>6, <1>1 DEF Justified
    <2>2. CASE n = <<"key", k>>
      BY <2>1, <2>2, <1>4 DEF IsKey
    <2>3. CASE n # <<"key", k>>
      <3>1. Present(n, cas, cache)
        BY <2>1, <2>3 DEF EntryOK
      <3>2. Present(n, cas', cache')
        BY <3>1, PresentGrows DEF Justified
      <3> QED BY <3>2, <2>1, <1>4 DEF Present
    <2> QED BY <2>2, <2>3
  <1> QED BY <1>5, <1>6

-----------------------------------------------------------------------------
(* How the stack of an uplink changes. *)

Callers(S) == SubSeq(S, 1, Len(S) - 1)

LEMMA CallersShape ==
    ASSUME NEW S \in Seq(Frames), S # <<>>
    PROVE  /\ Callers(S) \in Seq(Frames)
           /\ Len(Callers(S)) = Len(S) - 1
           /\ Len(S) \in Nat \ {0}
           /\ \A i \in 1 .. Len(S) - 1 : Callers(S)[i] = S[i]
           /\ Callers(S) = <<>> <=> Len(S) = 1
  <1>1. Len(S) \in Nat \ {0} /\ \A i \in 1 .. Len(S) : S[i] \in Frames
    BY EmptySeq, LenProperties
  <1>2. /\ Callers(S) \in Seq(Frames)
        /\ Len(Callers(S)) = IF 1 <= Len(S) - 1 THEN Len(S) - 1 - 1 + 1 ELSE 0
        /\ \A i \in 1 .. Len(S) - 1 - 1 + 1 : Callers(S)[i] = S[1 + i - 1]
    BY <1>1, SubSeqProperties DEF Callers
  <1>3. Len(Callers(S)) = Len(S) - 1
    <2>1. \A l \in Nat \ {0} : (IF 1 <= l - 1 THEN l - 1 - 1 + 1 ELSE 0) = l - 1
      OBVIOUS
    <2> QED BY <1>1, <1>2, <2>1
  <1>4. \A i \in 1 .. Len(S) - 1 : Callers(S)[i] = S[i]
    BY <1>1, <1>2
  <1>5. Callers(S) = <<>> <=> Len(S) = 1
    BY <1>1, <1>2, <1>3, EmptySeq
  <1> QED BY <1>1, <1>2, <1>3, <1>4, <1>5

LEMMA CallersKeep ==
    ASSUME NEW S \in Seq(Frames), S # <<>>, NEW g, NEW c, NEW h, StackOK(S, g, c, h)
    PROVE  StackOK(Callers(S), g, c, h)
  <1> SUFFICES ASSUME NEW i \in 1 .. Len(S) - 1
               PROVE  /\ FrameOK(Callers(S)[i], g, c, h)
                      /\ (i > 1 /\ Callers(S)[i].node \in LargeItems) =>
                            /\ Callers(S)[i].node = LargeOf(Callers(S)[i - 1].node)
                            /\ Callers(S)[i - 1].large = "due"
    BY CallersShape DEF StackOK
  <1>1. Len(S) \in Nat /\ i \in 1 .. Len(S) /\ Callers(S)[i] = S[i]
    BY CallersShape
  <1>2. i > 1 => Callers(S)[i - 1] = S[i - 1]
    BY CallersShape
  <1> QED BY <1>1, <1>2 DEF StackOK

LEMMA PushShape ==
    ASSUME NEW S \in Seq(Frames), NEW n \in Nodes, NEW todo \in SUBSET Nodes,
           NEW large \in {"no", "due", "done"}
    PROVE  /\ Push(S, n, todo, large) \in Seq(Frames)
           /\ Push(S, n, todo, large) # <<>>
           /\ Len(S) \in Nat
           /\ Len(Push(S, n, todo, large)) = Len(S) + 1
           /\ Push(S, n, todo, large)[Len(S) + 1] =
                 [node |-> n, todo |-> todo, large |-> large]
           /\ \A i \in 1 .. Len(S) : Push(S, n, todo, large)[i] = S[i]
  <1>1. [node |-> n, todo |-> todo, large |-> large] \in Frames
    BY DEF Frames
  <1> QED BY <1>1 DEF Push

LEMMA PushKeeps ==
    ASSUME NEW S \in Seq(Frames), NEW g, NEW c, NEW h, StackOK(S, g, c, h),
           NEW n \in Nodes, NEW todo \in SUBSET Nodes, NEW large \in {"no", "due", "done"},
           FrameOK([node |-> n, todo |-> todo, large |-> large], g, c, h),
           (n \in LargeItems /\ S # <<>>) =>
              n = LargeOf(S[Len(S)].node) /\ S[Len(S)].large = "due"
    PROVE  StackOK(Push(S, n, todo, large), g, c, h)
  <1> DEFINE P == Push(S, n, todo, large)
             f == [node |-> n, todo |-> todo, large |-> large]
  <1>0. /\ Len(P) = Len(S) + 1 /\ P[Len(S) + 1] = f /\ Len(S) \in Nat
        /\ \A i \in 1 .. Len(S) : P[i] = S[i]
    BY PushShape
  <1> HIDE DEF P
  <1> SUFFICES ASSUME NEW i \in 1 .. Len(S) + 1
               PROVE  /\ FrameOK(P[i], g, c, h)
                      /\ (i > 1 /\ P[i].node \in LargeItems) =>
                            /\ P[i].node = LargeOf(P[i - 1].node)
                            /\ P[i - 1].large = "due"
    BY <1>0 DEF StackOK, P
  <1>1. CASE i = Len(S) + 1
    <2>1. P[i] = f /\ f.node = n
      BY <1>0, <1>1
    <2>2. i > 1 => S # <<>> /\ P[i - 1] = S[Len(S)]
      BY <1>0, <1>1
    <2> QED BY <2>1, <2>2
  <1>2. CASE i # Len(S) + 1
    <2>1. i \in 1 .. Len(S) /\ P[i] = S[i] /\ (i > 1 => P[i - 1] = S[i - 1])
      BY <1>0, <1>2
    <2> QED BY <2>1 DEF StackOK
  <1> QED BY <1>1, <1>2

LEMMA PopShape ==
    ASSUME NEW S \in Seq(Frames), S # <<>>, NEW n
    PROVE  /\ Pop(S, n) \in Seq(Frames)
           /\ Pop(S, n) # <<>>
           /\ Len(Pop(S, n)) = Len(S)
           /\ Len(S) \in Nat \ {0}
           /\ \A i \in 1 .. Len(S) - 1 : Pop(S, n)[i] = S[i]
           /\ S[Len(S)] \in Frames
           /\ Pop(S, n)[Len(S)] = IF IsLarge(n)
                                  THEN [S[Len(S)] EXCEPT !.large = "done"]
                                  ELSE [S[Len(S)] EXCEPT !.todo = @ \ {n}]
  <1> DEFINE e == IF IsLarge(n) THEN [S[Len(S)] EXCEPT !.large = "done"]
                                ELSE [S[Len(S)] EXCEPT !.todo = @ \ {n}]
  <1>1. Len(S) \in Nat \ {0} /\ S[Len(S)] \in Frames
    BY EmptySeq, LenProperties
  <1>2. e \in Frames
    BY <1>1 DEF Frames
  <1>3. Pop(S, n) = [S EXCEPT ![Len(S)] = e]
    BY DEF Pop
  <1> HIDE DEF e
  <1>4. /\ Pop(S, n) \in Seq(Frames) /\ Len(Pop(S, n)) = Len(S)
        /\ \A j \in 1 .. Len(S) : Pop(S, n)[j] = IF j = Len(S) THEN e ELSE S[j]
    BY <1>1, <1>2, <1>3, ExceptSeq
  <1>5. Pop(S, n) # <<>>
    BY <1>1, <1>4, EmptySeq
  <1>6. Pop(S, n)[Len(S)] = e /\ \A i \in 1 .. Len(S) - 1 : Pop(S, n)[i] = S[i]
    BY <1>1, <1>4
  <1> USE DEF e
  <1> QED BY <1>1, <1>4, <1>5, <1>6

(* A frame whose nested call for n has put n into the youngest generation. *)
LEMMA FrameStrikes ==
    ASSUME NEW f \in Frames, NEW g, NEW c \in [Generations -> SUBSET Items], NEW h,
           FrameOK(f, g, c, h), NEW n \in Nodes, n \notin LargeItems, Present(n, c, h),
           \A m \in c[0] \cap LargeItems : m[2] \in Splittable
    PROVE  FrameOK([f EXCEPT !.todo = @ \ {n}], g, c, h)
  <1> DEFINE e == [f EXCEPT !.todo = @ \ {n}]
  <1>1. e.node = f.node /\ e.todo = f.todo \ {n} /\ e.large = f.large
    BY DEF Frames
  <1> HIDE DEF e
  <1>2. n \notin KeyNodes => Vouched(c[0], n) /\ n \in Objects
    BY NodeKinds DEF Present
  <1>3. f.node \in TreeItems => \A x \in Entries[f.node[2]] \ e.todo : Vouched(c[0], x)
    <2> SUFFICES ASSUME f.node \in TreeItems, NEW x \in Entries[f.node[2]] \ e.todo
                 PROVE  Vouched(c[0], x)
      OBVIOUS
    <2>1. x \in Objects
      BY NodeKinds, StorageAssumption
    <2> QED BY <1>1, <1>2, <2>1, NodeKinds DEF FrameOK
  <1>4. f.node \in LargeItems => LargeOK(f.node, e.todo, c)
    <2> SUFFICES ASSUME f.node \in LargeItems PROVE LargeOK(f.node, e.todo, c)
      OBVIOUS
    <2>1. LargeOK(f.node, f.todo, c)
      BY DEF FrameOK
    <2>2. n \in Parts(f.node[2]) => n \in c[0]
      <3> SUFFICES ASSUME n \in Parts(f.node[2]), n \notin c[0] PROVE FALSE
        OBVIOUS
      <3>1. f.node[2] \in Splittable /\ n[2] \in Chunks[f.node[2]] /\ n \in Objects
        BY <2>1, PartsKind, NodeKinds DEF LargeOK, Parts
      <3>2. n[2] \in Splittable
        BY <1>2, <3>1, LargeOfKind, NodeKinds DEF Vouched, Has
      <3> QED BY <3>1, <3>2, ChunkAssumption
    <2> QED BY <1>1, <2>1, <2>2 DEF LargeOK
  <1>5. f.node \in KeyNodes => EntryOK(f.node, h[g][f.node[2]], e.todo, c, h)
    BY <1>1 DEF FrameOK, EntryOK
  <1> QED BY <1>1, <1>3, <1>4, <1>5 DEF FrameOK, e

LEMMA PopKeeps ==
    ASSUME NEW S \in Seq(Frames), S # <<>>, NEW g, NEW c \in [Generations -> SUBSET Items], NEW h,
           StackOK(S, g, c, h), NEW n \in Nodes,
           n \in LargeItems => /\ n \in c[0] \/ IgnoredWritesFail
                              /\ n = LargeOf(S[Len(S)].node) /\ S[Len(S)].large = "due",
           n \notin LargeItems => Present(n, c, h),
           \A m \in c[0] \cap LargeItems : m[2] \in Splittable
    PROVE  StackOK(Pop(S, n), g, c, h)
  <1> DEFINE P == Pop(S, n)
             t == S[Len(S)]
  <1>0. /\ Len(P) = Len(S) /\ Len(S) \in Nat \ {0}
        /\ \A i \in 1 .. Len(S) - 1 : P[i] = S[i]
        /\ t \in Frames
        /\ P[Len(S)] = IF n \in LargeItems THEN [t EXCEPT !.large = "done"]
                                           ELSE [t EXCEPT !.todo = @ \ {n}]
    BY PopShape, Tests
  <1>1. FrameOK(t, g, c, h)
    BY <1>0 DEF StackOK
  <1>2. P[Len(S)].node = t.node
    BY <1>0 DEF Frames
  <1>3. FrameOK(P[Len(S)], g, c, h)
    <2>1. CASE n \in LargeItems
      <3>1. LET f == [t EXCEPT !.large = "done"]
            IN  f.node = t.node /\ f.todo = t.todo /\ f.large = "done"
        BY <1>0 DEF Frames
      <3> QED BY <1>0, <1>1, <2>1, <3>1 DEF FrameOK
    <2>2. CASE n \notin LargeItems
      BY <1>0, <1>1, <2>2, FrameStrikes
    <2> QED BY <2>1, <2>2
  <1> HIDE DEF P
  <1> SUFFICES ASSUME NEW i \in 1 .. Len(S)
               PROVE  /\ FrameOK(P[i], g, c, h)
                      /\ (i > 1 /\ P[i].node \in LargeItems) =>
                            /\ P[i].node = LargeOf(P[i - 1].node)
                            /\ P[i - 1].large = "due"
    BY <1>0 DEF StackOK, P
  <1>4. P[i].node = S[i].node /\ (i > 1 => P[i - 1] = S[i - 1])
    <2>1. i # Len(S) => i \in 1 .. Len(S) - 1
      BY <1>0
    <2>2. i > 1 => i - 1 \in 1 .. Len(S) - 1
      BY <1>0
    <2> QED BY <1>0, <1>2, <2>1, <2>2
  <1>5. FrameOK(P[i], g, c, h)
    BY <1>0, <1>3 DEF StackOK
  <1> QED BY <1>4, <1>5 DEF StackOK

-----------------------------------------------------------------------------
(* How the goals of a thread change. *)

LEMMA GoalStrikes ==
    ASSUME NEW f \in Goals, NEW c \in [Generations -> SUBSET Items], NEW h,
           GoalOK(f, c, h), NEW n \in Nodes, n \in LargeItems \/ Present(n, c, h),
           \A m \in c[0] \cap LargeItems : m[2] \in Splittable
    PROVE  GoalOK([f EXCEPT !.todo = @ \ {n}], c, h)
  <1> DEFINE e == [f EXCEPT !.todo = @ \ {n}]
  <1>1. /\ e.node = f.node /\ e.todo = f.todo \ {n} /\ e.mode = f.mode /\ e.value = f.value
    BY DEF Goals
  <1> HIDE DEF e
  <1>2. n \in Objects => Vouched(c[0], n)
    BY NodeKinds DEF Present
  <1>3. (f.mode \in {"create", "add"} /\ f.node \in TreeItems) =>
          \A x \in Entries[f.node[2]] \ e.todo : Vouched(c[0], x)
    <2> SUFFICES ASSUME f.mode \in {"create", "add"}, f.node \in TreeItems,
                        NEW x \in Entries[f.node[2]] \ e.todo
                 PROVE  Vouched(c[0], x)
      OBVIOUS
    <2>1. x \in Objects
      BY NodeKinds, StorageAssumption
    <2> QED BY <1>1, <1>2, <2>1 DEF GoalOK
  <1>4. f.mode = "enter" => LargeOK(f.node, e.todo, c)
    <2> SUFFICES ASSUME f.mode = "enter" PROVE LargeOK(f.node, e.todo, c)
      OBVIOUS
    <2>1. LargeOK(f.node, f.todo, c)
      BY DEF GoalOK
    <2>2. n \in Parts(f.node[2]) => n \in c[0]
      <3> SUFFICES ASSUME n \in Parts(f.node[2]), n \notin c[0] PROVE FALSE
        OBVIOUS
      <3>1. f.node[2] \in Splittable /\ n[2] \in Chunks[f.node[2]] /\ n \in Objects
        BY <2>1, PartsKind, NodeKinds DEF LargeOK, Parts
      <3>2. n[2] \in Splittable
        BY <1>2, <3>1, LargeOfKind DEF Vouched, Has
      <3> QED BY <3>1, <3>2, ChunkAssumption
    <2> QED BY <1>1, <2>1, <2>2 DEF LargeOK
  <1>5. f.mode = "write" => EntryOK(f.node, f.value, e.todo, c, h)
    <2> SUFFICES ASSUME f.mode = "write", NEW m \in Needs(f.value) \ (e.todo \cup {f.node})
                 PROVE  Present(m, c, h)
      BY DEF EntryOK
    <2>1. m \in Objects \cup KeyNodes
      BY NeedsKind DEF GoalOK
    <2>2. m = n => Present(m, c, h)
      BY <2>1, NodeKinds
    <2> QED BY <1>1, <2>2 DEF GoalOK, EntryOK
  <1> QED BY <1>1, <1>3, <1>4, <1>5 DEF GoalOK, e

(* What Finish leaves of the goals. *)
Finished(gs) ==
    LET rest == Tail(gs)
    IN  IF rest = <<>> THEN rest ELSE [rest EXCEPT ![1].todo = @ \ {gs[1].node}]

LEMMA FinishKeeps ==
    ASSUME NEW gs \in Seq(Goals), gs # <<>>, NEW c \in [Generations -> SUBSET Items], NEW h,
           GoalsOK(gs, c, h),
           gs[1].node \in LargeItems \/ Present(gs[1].node, c, h),
           \A m \in c[0] \cap LargeItems : m[2] \in Splittable
    PROVE  Finished(gs) \in Seq(Goals) /\ GoalsOK(Finished(gs), c, h)
  <1> DEFINE rest == Tail(gs)
             e == [rest[1] EXCEPT !.todo = @ \ {gs[1].node}]
  <1>1. /\ rest \in Seq(Goals) /\ Len(rest) = Len(gs) - 1 /\ Len(gs) \in Nat \ {0}
        /\ \A i \in 1 .. Len(rest) : rest[i] = gs[i + 1]
        /\ gs[1] \in Goals /\ gs[1].node \in Nodes
    <2>1. /\ rest \in Seq(Goals) /\ Len(rest) = Len(gs) - 1 /\ Len(gs) \in Nat \ {0}
          /\ \A i \in 1 .. Len(rest) : rest[i] = gs[i + 1]
      BY HeadTailProperties, EmptySeq
    <2>2. gs[1] \in Goals
      BY <2>1, LenProperties
    <2> QED BY <2>1, <2>2 DEF Goals
  <1>2. GoalsOK(rest, c, h)
    <2> SUFFICES ASSUME NEW i \in 1 .. Len(rest) PROVE GoalOK(rest[i], c, h)
      BY DEF GoalsOK
    <2>1. i + 1 \in 1 .. Len(gs) /\ rest[i] = gs[i + 1]
      BY <1>1
    <2> QED BY <2>1 DEF GoalsOK
  <1>3. CASE rest = <<>>
    BY <1>1, <1>2, <1>3 DEF Finished
  <1>4. CASE rest # <<>>
    <2>0. Len(rest) \in Nat \ {0} /\ rest[1] \in Goals
      BY <1>1, <1>4, EmptySeq, LenProperties
    <2>1. Len(rest) \in Nat \ {0} /\ rest[1] \in Goals /\ e \in Goals
      BY <2>0 DEF Goals
    <2>2. GoalOK(e, c, h)
      BY <1>1, <1>2, <2>1, GoalStrikes DEF GoalsOK
    <2>3. Finished(gs) = [rest EXCEPT ![1] = e]
      BY <1>4 DEF Finished
    <2> HIDE DEF e, rest
    <2>4. /\ Finished(gs) \in Seq(Goals) /\ Len(Finished(gs)) = Len(rest)
          /\ \A j \in 1 .. Len(rest) : Finished(gs)[j] = IF j = 1 THEN e ELSE rest[j]
      BY <1>1, <2>1, <2>3, ExceptSeq
    <2> QED BY <1>2, <2>2, <2>4 DEF GoalsOK
  <1> QED BY <1>3, <1>4

(* A new goal in front. *)
LEMMA ConsKeeps ==
    ASSUME NEW gs \in Seq(Goals), NEW g \in Goals, NEW c, NEW h,
           GoalsOK(gs, c, h), GoalOK(g, c, h)
    PROVE  /\ <<g>> \o gs \in Seq(Goals)
           /\ <<g>> \o gs # <<>>
           /\ (<<g>> \o gs)[1] = g
           /\ GoalsOK(<<g>> \o gs, c, h)
  <1>1. <<g>> \in Seq(Goals) /\ Len(<<g>>) = 1 /\ <<g>>[1] = g /\ Len(gs) \in Nat
    BY LenProperties
  <1>2. /\ <<g>> \o gs \in Seq(Goals)
        /\ Len(<<g>> \o gs) = 1 + Len(gs)
        /\ \A i \in 1 .. 1 + Len(gs) : (<<g>> \o gs)[i] = IF i <= 1 THEN <<g>>[i] ELSE gs[i - 1]
    BY <1>1, ConcatProperties
  <1>3. (<<g>> \o gs)[1] = g /\ \A i \in 1 .. 1 + Len(gs) : i # 1 => (<<g>> \o gs)[i] = gs[i - 1]
    BY <1>1, <1>2
  <1>4. GoalsOK(<<g>> \o gs, c, h)
    <2> SUFFICES ASSUME NEW i \in 1 .. 1 + Len(gs) PROVE GoalOK((<<g>> \o gs)[i], c, h)
      BY <1>2 DEF GoalsOK
    <2>1. i # 1 => i - 1 \in 1 .. Len(gs)
      BY <1>1
    <2> QED BY <1>3, <2>1 DEF GoalsOK
  <1>5. <<g>> \o gs # <<>>
    BY <1>1, <1>2, EmptySeq
  <1> QED BY <1>2, <1>3, <1>4, <1>5

LEMMA TailKeeps ==
    ASSUME NEW gs \in Seq(Goals), gs # <<>>, NEW c, NEW h, GoalsOK(gs, c, h)
    PROVE  /\ Tail(gs) \in Seq(Goals) /\ GoalsOK(Tail(gs), c, h)
           /\ gs[1] \in Goals /\ GoalOK(gs[1], c, h)
           /\ Tail(gs) # <<>> => Tail(gs)[1] = gs[2] /\ gs[2] \in Goals /\ GoalOK(gs[2], c, h)
  <1>1. /\ Tail(gs) \in Seq(Goals) /\ Len(Tail(gs)) = Len(gs) - 1 /\ Len(gs) \in Nat \ {0}
        /\ \A i \in 1 .. Len(Tail(gs)) : Tail(gs)[i] = gs[i + 1]
        /\ \A i \in 1 .. Len(gs) : gs[i] \in Goals
    BY HeadTailProperties, EmptySeq, LenProperties
  <1>2. Tail(gs) # <<>> => Len(Tail(gs)) \in Nat \ {0}
    BY <1>1, EmptySeq
  <1>3. Tail(gs) # <<>> => 1 \in 1 .. Len(Tail(gs)) /\ 2 \in 1 .. Len(gs)
    BY <1>1, <1>2
  <1> QED BY <1>1, <1>3 DEF GoalsOK

-----------------------------------------------------------------------------
(* What every step of a build thread p has in common. *)

BuildTypes ==
    /\ holds \subseteq Threads
    /\ phase \in [Threads -> {"idle", "enter", "run", "true", "false"}]
    /\ goals \in [Threads -> Seq(Goals)]
    /\ at \in [Threads -> Generations]
    /\ stack \in [Threads -> Seq(Frames)]
    /\ faulted \in [Threads -> BOOLEAN] /\ promised \in [Threads -> BOOLEAN]
    /\ referenced \subseteq Nodes /\ kept \subseteq Nodes

StepOf(p) ==
    /\ Justified(cas, cache, cas', cache')
    /\ BuildTypes'
    /\ UNCHANGED gcVars
    /\ gc = "off" \/ holds' = holds
    /\ \A q \in Threads \ {p} :
          /\ phase'[q] = phase[q] /\ goals'[q] = goals[q]
          /\ at'[q] = at[q] /\ stack'[q] = stack[q]
          /\ q \in holds' <=> q \in holds
    /\ ThreadOK(p)'

LEMMA OtherThread ==
    ASSUME TypeOK, NEW q \in Threads, ThreadOK(q), Grows(cas, cache, cas', cache'),
           phase'[q] = phase[q], goals'[q] = goals[q], at'[q] = at[q], stack'[q] = stack[q],
           q \in holds' <=> q \in holds
    PROVE  ThreadOK(q)'
  <1>1. GoalsOK(goals[q], cas', cache')
    BY GoalsGrow DEF ThreadOK
  <1>2. StackOK(stack[q], at[q], cas', cache')
    BY StackGrows DEF ThreadOK, TypeOK
  <1>3. Current(q)' = Current(q)
    BY DEF Current
  <1>4. phase[q] = "true" => InYoungest(Current(q).node)' \/ Current(q).node \in LargeItems
    <2> SUFFICES ASSUME phase[q] = "true", Current(q).node \notin LargeItems
                 PROVE  InYoungest(Current(q).node)'
      OBVIOUS
    <2>1. Current(q) \in Goals
      BY LenProperties, EmptySeq DEF TypeOK, ThreadOK, Current
    <2>2. Current(q).node \in Nodes /\ InYoungest(Current(q).node)
      BY <2>1 DEF Goals, ThreadOK
    <2> QED BY <2>2, <1>3, Tests, NodeKinds DEF InYoungest, Grows
  <1> QED BY <1>1, <1>2, <1>3, <1>4 DEF ThreadOK

LEMMA StepKeeps ==
    ASSUME StorageInv, NEW p \in Threads, StepOf(p)
    PROVE  StorageInv'
  <1>1. TypeOK'
    BY DEF StorageInv, TypeOK, StepOf, BuildTypes, Justified, gcVars
  <1>2. TreeInv' /\ LargeInvariant' /\ CacheInv'
    BY TreeKept, LargeKept, CacheKept DEF StorageInv, StepOf
  <1>3. ASSUME NEW q \in Threads PROVE ThreadOK(q)'
    <2>1. CASE q = p
      BY <2>1 DEF StepOf
    <2>2. CASE q # p
      BY <2>2, OtherThread DEF StorageInv, StepOf, Justified
    <2> QED BY <2>1, <2>2
  <1>4. CollectorOK'
    BY NodeKinds DEF StorageInv, CollectorOK, Recorded, StepOf, Justified, Grows, gcVars
  <1> QED BY <1>1, <1>2, <1>3, <1>4 DEF StorageInv

LEMMA Unchanged ==
    ASSUME TypeOK, UNCHANGED <<cas, cache>>
    PROVE  Justified(cas, cache, cas', cache')
  BY DEF TypeOK, Justified, Grows

LEMMA BlobsAdded ==
    ASSUME TypeOK, NEW g \in Generations, NEW new \in SUBSET BlobItems, AddFile(g, new),
           UNCHANGED cache
    PROVE  Justified(cas, cache, cas', cache')
  <1>1. new \subseteq Items
    BY NodeKinds
  <1>2. cas' \in [Generations -> SUBSET Items]
    BY <1>1 DEF TypeOK, AddFile
  <1>3. \A x \in Generations : cas'[x] = IF x = g THEN cas[g] \cup new ELSE cas[x]
    BY DEF TypeOK, AddFile
  <1> QED BY <1>2, <1>3 DEF TypeOK, Justified, Grows

(* A node that may be added to the youngest generation. *)
LEMMA NodeAdded ==
    ASSUME TypeOK, NEW n \in Items, AddFile(0, {n}), UNCHANGED cache,
           n \in TreeItems => \A x \in Entries[n[2]] : Vouched(cas[0], x),
           n \in LargeItems => LargeOK(n, {}, cas)
    PROVE  Justified(cas, cache, cas', cache') /\ n \in cas'[0]
  <1>2. cas' \in [Generations -> SUBSET Items]
    BY NodeKinds DEF TypeOK, AddFile
  <1>3. \A x \in Generations : cas'[x] = IF x = 0 THEN cas[0] \cup {n} ELSE cas[x]
    BY NodeKinds DEF TypeOK, AddFile
  <1>4. n \in BlobItems \/ n \in TreeItems \/ n \in LargeItems
    BY NodeKinds
  <1>5. Grows(cas, cache, cas', cache')
    BY <1>2, <1>3 DEF TypeOK, Grows
  <1>6. ASSUME NEW g \in Generations, NEW m \in cas'[g] \ cas[g]
        PROVE  g = 0 /\ m = n
    BY <1>3
  <1>7. ASSUME NEW g \in Generations, NEW m \in cas'[g] \ cas[g]
        PROVE  \/ m \in BlobItems
               \/ g = 0 /\ m \in TreeItems /\ \A x \in Entries[m[2]] : Vouched(cas[0], x)
               \/ g = 0 /\ m \in LargeItems /\ LargeOK(m, {}, cas)
    BY <1>4, <1>6
  <1>8. \A k \in Keys : cache'[0][k] = cache[0][k]
    OBVIOUS
  <1>9. n \in cas'[0]
    BY <1>3, NodeKinds
  <1>10. cache' \in [Generations -> [Keys -> Values \cup {NoValue}]]
    BY DEF TypeOK
  <1> QED BY <1>2, <1>5, <1>7, <1>8, <1>9, <1>10 DEF Justified

LEMMA EntryAdded ==
    ASSUME TypeOK, UNCHANGED cas, NEW k \in Keys, NEW v \in Values,
           cache' = [cache EXCEPT ![0][k] = v], EntryOK(<<"key", k>>, v, {}, cas, cache)
    PROVE  Justified(cas, cache, cas', cache') /\ cache'[0][k] = v
  <1>1. cache' \in [Generations -> [Keys -> Values \cup {NoValue}]]
    BY NodeKinds DEF TypeOK
  <1>2. /\ \A g \in Generations \ {0} : cache'[g] = cache[g]
        /\ \A x \in Keys : cache'[0][x] = IF x = k THEN v ELSE cache[0][x]
    BY NodeKinds DEF TypeOK
  <1>3. v # NoValue
    BY StorageAssumption
  <1> QED BY <1>1, <1>2, <1>3 DEF TypeOK, Justified, Grows

-----------------------------------------------------------------------------
(* The thread turns to other goals. *)
LEMMA PursueStep ==
    ASSUME StorageInv, NEW p \in Threads, p \in holds, stack[p] = <<>>,
           NEW gs \in Seq(Goals), Pursue(p, gs), GoalsOK(gs, cas', cache'),
           Justified(cas, cache, cas', cache'), UNCHANGED <<holds, gcVars>>,
           referenced' \subseteq Nodes, kept' \subseteq Nodes
    PROVE  StepOf(p)
  <1> USE DEF StorageInv
  <1>1. BuildTypes'
    BY NodeKinds DEF TypeOK, Pursue, BuildTypes
  <1>2. /\ goals'[p] = gs /\ at'[p] = 0 /\ stack'[p] = <<>>
        /\ phase'[p] = IF gs = <<>> THEN "idle" ELSE "enter"
    BY DEF TypeOK, Pursue
  <1>3. StackOK(<<>>, 0, cas', cache')
    BY EmptySeq DEF StackOK
  <1>4. ThreadOK(p)'
    BY <1>2, <1>3 DEF ThreadOK, Current
  <1>5. \A q \in Threads \ {p} :
          /\ phase'[q] = phase[q] /\ goals'[q] = goals[q]
          /\ at'[q] = at[q] /\ stack'[q] = stack[q]
    BY DEF TypeOK, Pursue
  <1> QED BY <1>1, <1>4, <1>5 DEF StepOf

(* The thread is in an uplink whose stack, apart from the call at hand, is S. *)
InUplink(p, S) ==
    /\ p \in holds /\ goals[p] # <<>>
    /\ phase[p] \in {"enter", "run"}
    /\ Current(p).todo = {} /\ Current(p).mode \notin {"enter", "value", "write"}
    /\ S \in Seq(Frames) /\ StackOK(S, at[p], cas, cache)
    /\ S # <<>> => S[1].node = Current(p).node
    /\ Current(p).mode = "entry" => S = <<>> /\ at[p] = 0

LEMMA CurrentOK ==
    ASSUME StorageInv, NEW p \in Threads, phase[p] # "idle"
    PROVE  /\ goals[p] \in Seq(Goals) /\ goals[p] # <<>> /\ p \in holds
           /\ Current(p) \in Goals /\ Current(p).node \in Nodes
           /\ GoalOK(Current(p), cas, cache)
           /\ GoalsOK(goals[p], cas, cache)
  <1>1. goals[p] \in Seq(Goals) /\ goals[p] # <<>> /\ GoalsOK(goals[p], cas, cache) /\ p \in holds
    BY DEF StorageInv, TypeOK, ThreadOK
  <1>2. Current(p) \in Goals /\ GoalOK(Current(p), cas, cache)
    BY <1>1, TailKeeps DEF Current
  <1> QED BY <1>1, <1>2 DEF Goals

LEMMA UplinkStep ==
    ASSUME StorageInv, NEW p \in Threads, NEW S, InUplink(p, S),
           NEW T \in Seq(Frames), NEW ph \in {"run", "true", "false"},
           stack' = [stack EXCEPT ![p] = T], phase' = [phase EXCEPT ![p] = ph],
           UNCHANGED <<holds, goals, at, promised, gcVars, ghostVars>>,
           faulted' \in [Threads -> BOOLEAN],
           Justified(cas, cache, cas', cache'),
           StackOK(T, at[p], cas', cache'),
           ph = "run" <=> T # <<>>,
           ph = "run" => T[1].node = Current(p).node,
           ph = "true" => InYoungest(Current(p).node)' \/ Current(p).node \in LargeItems,
           Current(p).mode = "entry" => ph = "true"
    PROVE  StepOf(p)
  <1> USE DEF StorageInv
  <1>1. BuildTypes'
    BY DEF TypeOK, BuildTypes, ghostVars
  <1>2. stack'[p] = T /\ phase'[p] = ph /\ goals'[p] = goals[p] /\ at'[p] = at[p]
    BY DEF TypeOK
  <1>3. GoalsOK(goals[p], cas', cache')
    BY GoalsGrow DEF ThreadOK, Justified
  <1>4. ThreadOK(p)'
    BY <1>2, <1>3 DEF ThreadOK, Current, InUplink
  <1>5. \A q \in Threads \ {p} :
          /\ phase'[q] = phase[q] /\ goals'[q] = goals[q]
          /\ at'[q] = at[q] /\ stack'[q] = stack[q]
    BY DEF TypeOK
  <1> QED BY <1>1, <1>4, <1>5 DEF StepOf

(* A nested call for n is struck off its caller's list: it succeeded, or the *)
(* failure of LocalUplinkLargeObject was ignored.                           *)
LEMMA StrikeStep ==
    ASSUME StorageInv, NEW p \in Threads, NEW S, InUplink(p, S), S # <<>>, NEW n \in Nodes,
           stack' = [stack EXCEPT ![p] = Pop(S, n)], phase' = [phase EXCEPT ![p] = "run"],
           UNCHANGED <<holds, goals, at, promised, gcVars, ghostVars>>,
           faulted' \in [Threads -> BOOLEAN],
           Justified(cas, cache, cas', cache'),
           n \in LargeItems => /\ n \in cas'[0] \/ IgnoredWritesFail
                              /\ n = LargeOf(S[Len(S)].node) /\ S[Len(S)].large = "due",
           n \notin LargeItems => Present(n, cas', cache')
    PROVE  StepOf(p)
  <1>1. S \in Seq(Frames) /\ StackOK(S, at[p], cas, cache) /\ S[1].node = Current(p).node
    BY DEF InUplink
  <1>2. StackOK(S, at[p], cas', cache') /\ cas' \in [Generations -> SUBSET Items]
    BY <1>1, StackGrows DEF Justified, StorageInv, TypeOK
  <1>3. \A m \in cas'[0] \cap LargeItems : m[2] \in Splittable
    BY LargeKept, NodeKinds DEF StorageInv, LargeInvariant
  <1>4. StackOK(Pop(S, n), at[p], cas', cache')
    BY <1>1, <1>2, <1>3, PopKeeps
  <1>5. Pop(S, n) \in Seq(Frames) /\ Pop(S, n) # <<>> /\ Pop(S, n)[1].node = Current(p).node
    <2>1. /\ Pop(S, n) \in Seq(Frames) /\ Pop(S, n) # <<>> /\ Len(S) \in Nat \ {0}
          /\ \A i \in 1 .. Len(S) - 1 : Pop(S, n)[i] = S[i]
          /\ S[Len(S)] \in Frames
          /\ Pop(S, n)[Len(S)] = IF IsLarge(n)
                                 THEN [S[Len(S)] EXCEPT !.large = "done"]
                                 ELSE [S[Len(S)] EXCEPT !.todo = @ \ {n}]
      BY <1>1, PopShape
    <2>2. Pop(S, n)[Len(S)].node = S[Len(S)].node
      BY <2>1 DEF Frames
    <2>3. Len(S) = 1 => Pop(S, n)[1].node = S[1].node
      BY <2>2
    <2>4. Len(S) # 1 => Pop(S, n)[1] = S[1]
      <3>1. \A l \in Nat \ {0} : l # 1 => 1 \in 1 .. l - 1
        OBVIOUS
      <3> QED BY <2>1, <3>1
    <2> QED BY <1>1, <2>1, <2>3, <2>4
  <1>6. Current(p).mode # "entry"
    BY DEF InUplink
  <1> QED BY <1>4, <1>5, <1>6, UplinkStep

LEMMA ReturnTrueStep ==
    ASSUME StorageInv, NEW p \in Threads, NEW S, InUplink(p, S), NEW n \in Nodes,
           ReturnTrue(p, n, S),
           UNCHANGED <<holds, goals, at, faulted, promised, gcVars, ghostVars>>,
           Justified(cas, cache, cas', cache'),
           S = <<>> => n = Current(p).node /\ (InYoungest(n)' \/ n \in LargeItems),
           (S # <<>> /\ n \in LargeItems) =>
              n \in cas'[0] /\ n = LargeOf(S[Len(S)].node) /\ S[Len(S)].large = "due",
           (S # <<>> /\ n \notin LargeItems) => Present(n, cas', cache')
    PROVE  StepOf(p)
  <1>1. faulted' \in [Threads -> BOOLEAN]
    BY DEF StorageInv, TypeOK
  <1>2. CASE S = <<>>
    <2>1. StackOK(<<>>, at[p], cas', cache') /\ <<>> \in Seq(Frames)
      BY EmptySeq DEF StackOK
    <2>2. stack' = [stack EXCEPT ![p] = <<>>] /\ phase' = [phase EXCEPT ![p] = "true"]
      BY <1>2 DEF ReturnTrue
    <2>3. InYoungest(Current(p).node)' \/ Current(p).node \in LargeItems
      BY <1>2 DEF InYoungest, Current
    <2> QED BY <1>1, <2>1, <2>2, <2>3, UplinkStep
  <1>3. CASE S # <<>>
    BY <1>1, <1>3, StrikeStep DEF ReturnTrue
  <1> QED BY <1>2, <1>3

LEMMA DescendStep ==
    ASSUME StorageInv, NEW p \in Threads, NEW S, InUplink(p, S), NEW n \in Nodes,
           NEW todo \in SUBSET Nodes, NEW large \in {"no", "due", "done"},
           Descend(p, n, S, todo, large),
           UNCHANGED <<holds, goals, at, faulted, promised, gcVars, ghostVars>>,
           Justified(cas, cache, cas', cache'),
           Current(p).mode # "entry",
           S = <<>> => n = Current(p).node,
           FrameOK([node |-> n, todo |-> todo, large |-> large], at[p], cas', cache'),
           (n \in LargeItems /\ S # <<>>) =>
              n = LargeOf(S[Len(S)].node) /\ S[Len(S)].large = "due"
    PROVE  StepOf(p)
  <1> DEFINE P == Push(S, n, todo, large)
  <1>1. faulted' \in [Threads -> BOOLEAN] /\ at[p] \in Generations
    BY DEF StorageInv, TypeOK
  <1>2. S \in Seq(Frames) /\ StackOK(S, at[p], cas', cache')
    BY <1>1, StackGrows DEF InUplink, Justified
  <1>3. StackOK(P, at[p], cas', cache')
    BY <1>2, PushKeeps
  <1>4. P \in Seq(Frames) /\ P # <<>> /\ P[1].node = Current(p).node
    <2>1. /\ P \in Seq(Frames) /\ P # <<>> /\ Len(S) \in Nat
          /\ P[Len(S) + 1] = [node |-> n, todo |-> todo, large |-> large]
          /\ \A i \in 1 .. Len(S) : P[i] = S[i]
      BY <1>2, PushShape
    <2>2. CASE S = <<>>
      BY <2>1, <2>2, EmptySeq
    <2>3. CASE S # <<>>
      <3>1. Len(S) \in Nat \ {0}
        BY <1>2, <2>3, EmptySeq
      <3> QED BY <2>1, <2>3, <3>1 DEF InUplink
    <2> QED BY <2>1, <2>2, <2>3
  <1>5. stack' = [stack EXCEPT ![p] = P] /\ phase' = [phase EXCEPT ![p] = "run"]
    BY DEF Descend
  <1> HIDE DEF P
  <1> QED BY <1>1, <1>3, <1>4, <1>5, UplinkStep

LEMMA ReturnFalseStep ==
    ASSUME StorageInv, NEW p \in Threads, NEW S, InUplink(p, S), NEW n \in Nodes,
           ReturnFalse(p, n, S),
           UNCHANGED <<holds, goals, at, promised, gcVars, ghostVars>>,
           faulted' \in [Threads -> BOOLEAN],
           Justified(cas, cache, cas', cache'),
           Current(p).mode # "entry", n \notin LargeItems,
           S # <<>> => S[Len(S)].node \notin LargeItems
    PROVE  StepOf(p)
  <1>1. ~ IsLarge(n)
    BY Tests
  <1>2. ~ (S # <<>> /\ IsLarge(S[Len(S)].node))
    <2> SUFFICES ASSUME S # <<>> PROVE ~ IsLarge(S[Len(S)].node)
      OBVIOUS
    <2>1. S[Len(S)] \in Frames
      BY EmptySeq, LenProperties DEF InUplink
    <2> QED BY <2>1, Tests DEF Frames
  <1>3. stack' = [stack EXCEPT ![p] = <<>>] /\ phase' = [phase EXCEPT ![p] = "false"]
    BY <1>1, <1>2 DEF ReturnFalse
  <1>4. StackOK(<<>>, at[p], cas', cache') /\ <<>> \in Seq(Frames)
    BY EmptySeq DEF StackOK
  <1> QED BY <1>3, <1>4, UplinkStep

-----------------------------------------------------------------------------
(* LocalUplinkXxx is called for n with the callers S. *)
CallOK(p, n, S) ==
    /\ InUplink(p, S) /\ n \in Nodes
    /\ S = <<>> => n = Current(p).node
    /\ S # <<>> => IF n \in LargeItems
                   THEN /\ n = LargeOf(S[Len(S)].node)
                        /\ S[Len(S)].large = "due" /\ S[Len(S)].todo = {}
                   ELSE n \in S[Len(S)].todo

LEMMA CallerOK ==
    ASSUME StorageInv, NEW p \in Threads, NEW n, NEW S, CallOK(p, n, S)
    PROVE  /\ at[p] \in Generations
           /\ n \in LargeItems <=> (S = <<>> /\ Current(p).mode = "entry")
                                      \/ (S # <<>> /\ n = LargeOf(S[Len(S)].node)
                                                   /\ S[Len(S)].todo = {})
           /\ Current(p).mode = "entry" => S = <<>> /\ at[p] = 0
           /\ S # <<>> => /\ S[Len(S)] \in Frames
                          /\ FrameOK(S[Len(S)], at[p], cas, cache)
                          /\ S[Len(S)].node \in LargeItems =>
                                n \in BlobItems /\ n \in cas[at[p]]
  <1>1. at[p] \in Generations
    BY DEF StorageInv, TypeOK
  <1>2. S # <<>> => S[Len(S)] \in Frames /\ FrameOK(S[Len(S)], at[p], cas, cache)
    <2> SUFFICES ASSUME S # <<>> PROVE S[Len(S)] \in Frames /\ FrameOK(S[Len(S)], at[p], cas, cache)
      OBVIOUS
    <2>1. S \in Seq(Frames) /\ StackOK(S, at[p], cas, cache)
      BY DEF CallOK, InUplink
    <2>2. Len(S) \in 1 .. Len(S) /\ S[Len(S)] \in Frames
      BY <2>1, EmptySeq, LenProperties
    <2> QED BY <2>1, <2>2 DEF StackOK
  <1>3. phase[p] # "idle"
    BY DEF CallOK, InUplink
  <1>4. Current(p) \in Goals /\ GoalOK(Current(p), cas, cache)
    BY <1>3, CurrentOK
  <1>5. S = <<>> => (n \in LargeItems <=> Current(p).mode = "entry")
    BY <1>4, NodeKinds DEF CallOK, InUplink, GoalOK, Goals, Modes
  <1>6. S # <<>> /\ S[Len(S)].node \in LargeItems => n \in BlobItems /\ n \in cas[at[p]]
    <2> SUFFICES ASSUME S # <<>>, S[Len(S)].node \in LargeItems
                 PROVE  n \in BlobItems /\ n \in cas[at[p]]
      OBVIOUS
    <2> DEFINE f == S[Len(S)]
    <2>1. f.node \in cas[at[p]] /\ LargeOK(f.node, f.todo, cas) /\ (f.large # "no" => f.node \in Objects)
      BY <1>2 DEF FrameOK
    <2>2. f.large = "no"
      BY <2>1, NodeKinds
    <2>3. n \in f.todo
      BY <2>2 DEF CallOK
    <2>4. Parts(f.node[2]) \subseteq cas[at[p]] /\ Parts(f.node[2]) \subseteq BlobItems
      BY <1>1, <2>1, PartsKind DEF StorageInv, LargeInvariant, LargeOK
    <2> QED BY <2>1, <2>3, <2>4 DEF LargeOK
  <1>7. S # <<>> => (n \in LargeItems <=> n = LargeOf(S[Len(S)].node) /\ S[Len(S)].todo = {})
    BY <1>2 DEF CallOK
  <1> QED BY <1>1, <1>2, <1>5, <1>6, <1>7 DEF CallOK, InUplink

LEMMA BlobCall ==
    ASSUME StorageInv, NEW p \in Threads, NEW n \in BlobItems, NEW S, CallOK(p, n, S),
           LocalUplinkBlob(p, n, S),
           UNCHANGED <<cache, holds, goals, at, faulted, promised, gcVars, ghostVars>>
    PROVE  StepOf(p)
  <1> DEFINE g == at[p]
             frame(large) == [node |-> n, todo |-> {}, large |-> large]
  <1>1. /\ n \in Nodes /\ n \in Objects /\ n \notin LargeItems /\ n \notin KeyNodes
        /\ n \notin TreeItems /\ {} \in SUBSET Nodes
    BY NodeKinds
  <1>2. /\ g \in Generations /\ Current(p).mode # "entry" /\ InUplink(p, S)
        /\ S = <<>> => n = Current(p).node
    BY <1>1, CallerOK DEF CallOK
  <1>3. FrameOK(frame("no"), g, cas', cache')
    BY <1>1 DEF FrameOK
  <1>4. CASE n \in cas[g]
    <2>1. UNCHANGED cas /\ Descend(p, n, S, {}, "no")
      BY <1>4 DEF LocalUplinkBlob
    <2>2. Justified(cas, cache, cas', cache')
      BY <2>1, Unchanged DEF StorageInv
    <2> QED BY <1>1, <1>2, <1>3, <2>1, <2>2, DescendStep
  <1>5. CASE AddFile(g, {n}) /\ Descend(p, n, S, {}, "no")
    <2>1. Justified(cas, cache, cas', cache')
      BY <1>2, <1>5, BlobsAdded DEF StorageInv
    <2> QED BY <1>1, <1>2, <1>3, <1>5, <2>1, DescendStep
  <1>6. CASE Spliceable(g, n) /\ AddFile(g, Parts(n[2])) /\ Descend(p, n, S, {}, "due")
    <2>1. n[2] \in Splittable /\ LargeOf(n) \in cas[g]
      BY <1>6 DEF Spliceable
    <2>2. Justified(cas, cache, cas', cache')
      BY <1>2, <1>6, <2>1, PartsKind, BlobsAdded DEF StorageInv
    <2>3. LargeOf(n) \in cas'[g]
      BY <1>2, <2>1, <2>2 DEF Justified, Grows
    <2>4. FrameOK(frame("due"), g, cas', cache')
      BY <1>1, <2>1, <2>3 DEF FrameOK
    <2> QED BY <1>1, <1>2, <1>6, <2>2, <2>4, DescendStep
  <1>7. CASE n \notin cas[g] /\ UNCHANGED cas /\ ReturnFalse(p, n, S)
    <2>1. Justified(cas, cache, cas', cache') /\ faulted' \in [Threads -> BOOLEAN]
      BY <1>7, Unchanged DEF StorageInv, TypeOK
    <2>2. S # <<>> => S[Len(S)].node \notin LargeItems
      BY <1>7, CallerOK
    <2> QED BY <1>1, <1>2, <1>7, <2>1, <2>2, ReturnFalseStep
  <1> QED BY <1>4, <1>5, <1>6, <1>7 DEF LocalUplinkBlob

LEMMA TreeCall ==
    ASSUME StorageInv, NEW p \in Threads, NEW n \in TreeItems, NEW S, CallOK(p, n, S),
           LocalUplinkGitTree(p, n, S),
           UNCHANGED <<cache, holds, goals, at, faulted, promised, gcVars, ghostVars>>
    PROVE  StepOf(p)
  <1> DEFINE g == at[p]
             todo == Entries[n[2]]
             frame(large) == [node |-> n, todo |-> todo, large |-> large]
  <1>1. /\ n \in Nodes /\ n \in Objects /\ n \notin LargeItems /\ n \notin KeyNodes
        /\ n \notin BlobItems
    BY NodeKinds
  <1>2. /\ g \in Generations /\ Current(p).mode # "entry" /\ InUplink(p, S)
        /\ S = <<>> => n = Current(p).node
    BY <1>1, CallerOK DEF CallOK
  <1>3. todo \subseteq Objects /\ todo \in SUBSET Nodes
    BY NodeKinds, StorageAssumption
  <1> HIDE DEF todo
  <1>4. FrameOK(frame("no"), g, cas', cache')
    BY <1>1, <1>3 DEF FrameOK, todo
  <1>5. CASE n \in cas[g]
    <2>1. UNCHANGED cas /\ Descend(p, n, S, todo, "no")
      BY <1>5 DEF LocalUplinkGitTree, todo
    <2>2. Justified(cas, cache, cas', cache')
      BY <2>1, Unchanged DEF StorageInv
    <2> QED BY <1>1, <1>2, <1>3, <1>4, <2>1, <2>2, DescendStep
  <1>6. CASE n \notin cas[g] /\ Spliceable(g, n)
    <2>0. AddFile(g, Parts(n[2])) /\ Descend(p, n, S, todo, "due")
      BY <1>6 DEF LocalUplinkGitTree, todo
    <2>1. n[2] \in Splittable /\ LargeOf(n) \in cas[g]
      BY <1>6 DEF Spliceable
    <2>2. Justified(cas, cache, cas', cache')
      BY <1>2, <2>0, <2>1, PartsKind, BlobsAdded DEF StorageInv
    <2>3. LargeOf(n) \in cas'[g]
      BY <1>2, <2>1, <2>2 DEF Justified, Grows
    <2>4. FrameOK(frame("due"), g, cas', cache')
      BY <1>1, <1>3, <2>1, <2>3 DEF FrameOK, todo
    <2> QED BY <1>1, <1>2, <1>3, <2>0, <2>2, <2>4, DescendStep
  <1>7. CASE n \notin cas[g] /\ ~ Spliceable(g, n)
    <2>0. UNCHANGED cas /\ ReturnFalse(p, n, S)
      BY <1>7 DEF LocalUplinkGitTree
    <2>1. Justified(cas, cache, cas', cache') /\ faulted' \in [Threads -> BOOLEAN]
      BY <2>0, Unchanged DEF StorageInv, TypeOK
    <2>2. S # <<>> => S[Len(S)].node \notin LargeItems
      BY <1>1, CallerOK
    <2> QED BY <1>1, <1>2, <2>0, <2>1, <2>2, ReturnFalseStep
  <1> QED BY <1>5, <1>6, <1>7

LEMMA LargeCall ==
    ASSUME StorageInv, NEW p \in Threads, NEW n \in LargeItems, NEW S, CallOK(p, n, S),
           n \notin cas[0], LocalUplinkLarge(p, n, S),
           UNCHANGED <<cache, holds, goals, at, faulted, promised, gcVars, ghostVars>>
    PROVE  StepOf(p)
  <1> DEFINE g == at[p]
             f == S[Len(S)]
             todo == Parts(n[2])
  <1>1. n \in Nodes /\ n \notin Objects /\ n \notin KeyNodes /\ n \notin TreeItems
    BY LargeKind
  <1>2. /\ g \in Generations /\ InUplink(p, S)
        /\ S = <<>> => n = Current(p).node /\ g = 0
        /\ S # <<>> => /\ n = LargeOf(f.node) /\ f.todo = {} /\ f.large = "due"
                       /\ FrameOK(f, g, cas, cache) /\ Current(p).mode # "entry"
    BY CallerOK DEF CallOK
  <1>3. Justified(cas, cache, cas', cache')
    BY Unchanged DEF StorageInv, LocalUplinkLarge
  <1>4. S # <<>> => n \in cas[g] /\ f.node \in Objects
    BY <1>2 DEF FrameOK
  <1> HIDE DEF f
  <1>5. CASE n \in cas[g]
    <2>1. S # <<>> /\ Descend(p, n, S, todo, "no") /\ UNCHANGED cas
      BY <1>2, <1>5 DEF LocalUplinkLarge
    <2>2. n[2] \in Splittable
      BY <1>2, <1>5 DEF StorageInv, LargeInvariant
    <2>3. todo \subseteq Objects /\ todo \in SUBSET Nodes
      BY <2>2, PartsKind, NodeKinds
    <2>4. n \in {"lt"} \X Trees => \A e \in Entries[n[2]] : Vouched(cas[0], e)
      BY <1>2, <1>4, <2>1, LargeOfKind DEF FrameOK
    <2>5. LargeOK(n, todo, cas')
      BY <2>1, <2>2, <2>4 DEF LargeOK
    <2>6. FrameOK([node |-> n, todo |-> todo, large |-> "no"], g, cas', cache')
      BY <1>1, <1>5, <2>1, <2>3, <2>5 DEF FrameOK
    <2> HIDE DEF todo
    <2> QED BY <1>1, <1>2, <1>3, <2>1, <2>3, <2>6, DescendStep DEF f
  <1>6. CASE n \notin cas[g]
    <2>1. S = <<>> /\ ReturnTrue(p, n, S)
      BY <1>4, <1>6 DEF LocalUplinkLarge
    <2> QED BY <1>1, <1>2, <1>3, <2>1, ReturnTrueStep
  <1> QED BY <1>5, <1>6

LEMMA EntryCall ==
    ASSUME StorageInv, NEW p \in Threads, NEW n \in KeyNodes, NEW S, CallOK(p, n, S),
           cache[0][n[2]] = NoValue, LocalUplinkEntry(p, n, S),
           UNCHANGED <<cache, holds, goals, at, faulted, promised, gcVars, ghostVars>>
    PROVE  StepOf(p)
  <1> DEFINE g == at[p]
             v == cache[g][n[2]]
             todo == UplinkedWith(n[2], v)
  <1>1. /\ n \in Nodes /\ n \notin LargeItems /\ n \notin Objects /\ n \notin TreeItems
        /\ n \notin BlobItems /\ n[2] \in Keys /\ n = <<"key", n[2]>>
    BY NodeKinds DEF KeyNodes
  <1>2. /\ g \in Generations /\ Current(p).mode # "entry" /\ InUplink(p, S)
        /\ S = <<>> => n = Current(p).node
    BY <1>1, CallerOK DEF CallOK
  <1>3. v \in Values \cup {NoValue}
    BY <1>1, <1>2 DEF StorageInv, TypeOK
  <1>4. CASE Readable(g, n[2])
    <2>1. v # NoValue /\ g # 0 /\ v \in Values
      BY <1>3, <1>4 DEF Readable
    <2>2. AddFile(g, {<<"f", ValueBlob[v]>>}) /\ Descend(p, n, S, todo, "no")
      BY <1>4 DEF LocalUplinkEntry
    <2>3. Justified(cas, cache, cas', cache')
      BY <1>2, <2>1, <2>2, NeedsKind, BlobsAdded DEF StorageInv
    <2>4. todo \subseteq Objects \cup KeyNodes
      BY <2>1, <1>1, UplinkedKind
    <2>5. Needs(v) \ (todo \cup {n}) = {}
      BY <1>1 DEF Needs, UplinkedWith
    <2>6. todo \in SUBSET Nodes
      BY <2>4, NodeKinds
    <2> HIDE DEF todo
    <2>7. EntryOK(n, v, todo, cas', cache')
      BY <2>5 DEF EntryOK
    <2>8. FrameOK([node |-> n, todo |-> todo, large |-> "no"], g, cas', cache')
      BY <1>1, <2>1, <2>4, <2>7 DEF FrameOK
    <2> QED BY <1>1, <1>2, <2>2, <2>3, <2>6, <2>8, DescendStep
  <1>5. CASE ~ Readable(g, n[2])
    <2>0. UNCHANGED cas /\ ReturnFalse(p, n, S)
      BY <1>5 DEF LocalUplinkEntry
    <2>1. Justified(cas, cache, cas', cache') /\ faulted' \in [Threads -> BOOLEAN]
      BY <2>0, Unchanged DEF StorageInv, TypeOK
    <2>2. S # <<>> => S[Len(S)].node \notin LargeItems
      BY <1>1, CallerOK
    <2> QED BY <1>1, <1>2, <2>0, <2>1, <2>2, ReturnFalseStep
  <1> QED BY <1>4, <1>5

(* The call, whatever its node. *)
LEMMA LocalUplinkStep ==
    ASSUME StorageInv, NEW p \in Threads, NEW n, NEW S, CallOK(p, n, S),
           LocalUplink(p, n, S)
    PROVE  StepOf(p)
  <1>1. /\ n \in Nodes /\ InUplink(p, S)
        /\ S = <<>> => n = Current(p).node
        /\ (S # <<>> /\ n \in LargeItems) => n = LargeOf(S[Len(S)].node) /\ S[Len(S)].large = "due"
    BY DEF CallOK
  <1>2. UNCHANGED <<cache, holds, goals, at, faulted, promised, gcVars, ghostVars>>
    BY DEF LocalUplink
  <1>3. CASE InYoungest(n)
    <2>1. UNCHANGED cas /\ ReturnTrue(p, n, S)
      BY <1>3 DEF LocalUplink
    <2>2. Justified(cas, cache, cas', cache')
      BY <1>2, <2>1, Unchanged DEF StorageInv
    <2>3. InYoungest(n)' /\ Present(n, cas', cache') /\ (n \in LargeItems => n \in cas'[0])
      BY <1>1, <1>2, <1>3, <2>1, Tests, NodeKinds DEF InYoungest, Present, Vouched, Has
    <2> QED BY <1>1, <1>2, <2>1, <2>2, <2>3, ReturnTrueStep
  <1>4. CASE ~ InYoungest(n)
    <2>1. /\ n \in LargeItems => n \notin cas[0]
          /\ n \in KeyNodes => cache[0][n[2]] = NoValue
      BY <1>1, <1>4, Tests, NodeKinds DEF InYoungest
    <2> QED BY <1>2, <1>4, <2>1, BlobCall, TreeCall, LargeCall, EntryCall DEF LocalUplink
  <1> QED BY <1>3, <1>4

-----------------------------------------------------------------------------
(* The steps of an uplink. *)

LEMMA UplinkKeeps ==
    ASSUME StorageInv, NEW p \in Threads, Uplink(p)
    PROVE  StepOf(p)
  <1>1. phase[p] = "enter" /\ Uplinks(Current(p)) /\ LocalUplink(p, Current(p).node, <<>>)
    BY DEF Uplink
  <1>2. /\ goals[p] # <<>> /\ p \in holds /\ Current(p).node \in Nodes
    BY <1>1, CurrentOK
  <1>3. <<>> \in Seq(Frames) /\ StackOK(<<>>, at[p], cas, cache)
    BY EmptySeq DEF StackOK
  <1>4. Current(p).mode = "entry" => at[p] = 0
    BY <1>1 DEF StorageInv, ThreadOK
  <1>5. CallOK(p, Current(p).node, <<>>)
    BY <1>1, <1>2, <1>3, <1>4 DEF CallOK, InUplink, Uplinks
  <1> QED BY <1>1, <1>5, LocalUplinkStep

LEMMA RunOK ==
    ASSUME StorageInv, NEW p \in Threads, phase[p] = "run"
    PROVE  /\ InUplink(p, stack[p]) /\ stack[p] # <<>> /\ Current(p).mode # "entry"
           /\ at[p] \in Generations
           /\ Top(p) \in Frames /\ FrameOK(Top(p), at[p], cas, cache)
           /\ Top(p).node \in Nodes /\ Top(p).todo \subseteq Nodes
           /\ InUplink(p, Below(p))
           /\ Len(stack[p]) \in Nat \ {0}
           /\ Below(p) = <<>> <=> Len(stack[p]) = 1
           /\ Below(p) = <<>> => Top(p).node = Current(p).node
           /\ Below(p) # <<>> => Below(p)[Len(Below(p))] \in Frames
           /\ (Below(p) # <<>> /\ Top(p).node \in LargeItems) =>
                 /\ Top(p).node = LargeOf(Below(p)[Len(Below(p))].node)
                 /\ Below(p)[Len(Below(p))].large = "due"
  <1> DEFINE S == stack[p]
             B == Below(p)
  <1>1. S \in Seq(Frames) /\ at[p] \in Generations
    BY DEF StorageInv, TypeOK
  <1>2. /\ S # <<>> /\ S[1].node = Current(p).node /\ StackOK(S, at[p], cas, cache)
        /\ Current(p).todo = {} /\ Current(p).mode \notin {"enter", "value", "write", "entry"}
    BY DEF StorageInv, ThreadOK
  <1>3. goals[p] # <<>> /\ p \in holds
    BY CurrentOK
  <1>4. InUplink(p, S)
    BY <1>1, <1>2, <1>3 DEF InUplink
  <1>5. B = Callers(S)
    BY DEF Below, Callers
  <1>6. /\ B \in Seq(Frames) /\ Len(B) = Len(S) - 1 /\ Len(S) \in Nat \ {0}
        /\ \A i \in 1 .. Len(S) - 1 : B[i] = S[i]
        /\ B = <<>> <=> Len(S) = 1
    BY <1>1, <1>2, <1>5, CallersShape
  <1>7. StackOK(B, at[p], cas, cache)
    BY <1>1, <1>2, <1>5, CallersKeep
  <1>8. Top(p) = S[Len(S)]
    BY DEF Top
  <1> HIDE DEF S, B
  <1>9. Len(S) \in 1 .. Len(S) /\ S[Len(S)] \in Frames
    BY <1>1, <1>6, LenProperties
  <1>10. B # <<>> => Len(S) > 1 /\ Len(B) \in 1 .. Len(S) - 1 /\ 1 \in 1 .. Len(S) - 1
    BY <1>6
  <1>11. B # <<>> => B[1] = S[1] /\ B[Len(B)] = S[Len(S) - 1] /\ B[Len(B)] \in Frames
    <2> SUFFICES ASSUME B # <<>>
                 PROVE  B[1] = S[1] /\ B[Len(B)] = S[Len(S) - 1] /\ B[Len(B)] \in Frames
      OBVIOUS
    <2>1. B[1] = S[1] /\ B[Len(B)] = S[Len(S) - 1]
      BY <1>6, <1>10
    <2>2. Len(B) \in 1 .. Len(B)
      BY <1>6, <1>10
    <2> QED BY <1>6, <2>1, <2>2, LenProperties
  <1>12. InUplink(p, B)
    BY <1>2, <1>4, <1>6, <1>7, <1>11 DEF InUplink
  <1>13. FrameOK(S[Len(S)], at[p], cas, cache)
    BY <1>2, <1>9 DEF StackOK, S
  <1>14. (B # <<>> /\ S[Len(S)].node \in LargeItems) =>
            S[Len(S)].node = LargeOf(B[Len(B)].node) /\ B[Len(B)].large = "due"
    BY <1>2, <1>9, <1>10, <1>11 DEF StackOK, S
  <1>15. S[Len(S)].node \in Nodes /\ S[Len(S)].todo \subseteq Nodes
    BY <1>9 DEF Frames
  <1>16. B = <<>> => S[Len(S)].node = Current(p).node
    BY <1>2, <1>6 DEF S
  <1> QED BY <1>1, <1>2, <1>4, <1>6, <1>8, <1>9, <1>11, <1>12, <1>13, <1>14, <1>15, <1>16
          DEF S, B

LEMMA UplinkChildKeeps ==
    ASSUME StorageInv, NEW p \in Threads, UplinkChild(p)
    PROVE  StepOf(p)
  <1>1. phase[p] = "run"
    BY DEF UplinkChild
  <1>2. PICK n \in Top(p).todo : LocalUplink(p, n, stack[p])
    BY DEF UplinkChild
  <1>3. n \in Nodes /\ n \in Objects \cup KeyNodes
    BY <1>1, <1>2, RunOK DEF FrameOK
  <1>4. n \notin LargeItems
    BY <1>3, NodeKinds
  <1>5. CallOK(p, n, stack[p])
    BY <1>1, <1>2, <1>3, <1>4, RunOK DEF CallOK, Top
  <1> QED BY <1>2, <1>5, LocalUplinkStep

LEMMA UplinkLargeObjectKeeps ==
    ASSUME StorageInv, NEW p \in Threads, UplinkLargeObject(p)
    PROVE  StepOf(p)
  <1> DEFINE n == LargeOf(Top(p).node)
  <1>1. /\ phase[p] = "run" /\ Top(p).todo = {} /\ Top(p).large = "due"
        /\ LocalUplink(p, n, stack[p])
    BY DEF UplinkLargeObject
  <1>2. Top(p).node \in Objects
    BY <1>1, RunOK DEF FrameOK
  <1>3. n \in LargeItems /\ n \in Nodes
    BY <1>2, LargeOfKind, LargeKind
  <1>4. CallOK(p, n, stack[p])
    BY <1>1, <1>3, RunOK DEF CallOK, Top
  <1> QED BY <1>1, <1>4, LocalUplinkStep

LEMMA UplinkStoreKeeps ==
    ASSUME StorageInv, NEW p \in Threads, UplinkStore(p)
    PROVE  StepOf(p)
  <1> SUFFICES ASSUME NEW n, n = Top(p).node, NEW S, S = Below(p)
               PROVE  StepOf(p)
    OBVIOUS
  <1> DEFINE k == n[2]
             g == at[p]
  <1>1. /\ phase[p] = "run" /\ Top(p).todo = {} /\ Top(p).large # "due"
        /\ ReturnTrue(p, n, S)
        /\ UNCHANGED <<holds, goals, at, faulted, promised, gcVars, ghostVars>>
    BY DEF UplinkStore
  <1>2. /\ g \in Generations /\ InUplink(p, S) /\ n \in Nodes
        /\ Top(p) \in Frames /\ FrameOK(Top(p), g, cas, cache)
        /\ S = <<>> <=> Len(stack[p]) = 1
        /\ S = <<>> => n = Current(p).node
        /\ (S # <<>> /\ n \in LargeItems) =>
              n = LargeOf(S[Len(S)].node) /\ S[Len(S)].large = "due"
    BY <1>1, RunOK
  <1>3. /\ cas' = IF n \in KeyNodes \/ (Top(p).large = "done" /\ Len(stack[p]) > 1)
                  THEN cas ELSE [cas EXCEPT ![0] = @ \cup {n}]
        /\ cache' = IF n \in KeyNodes /\ cache[0][k] = NoValue
                    THEN [cache EXCEPT ![0][k] = cache[g][k]] ELSE cache
    BY <1>2, Tests DEF UplinkStore
  <1>4. TypeOK
    BY DEF StorageInv
  <1>5. CASE n \in KeyNodes
    <2>1. n \notin LargeItems /\ k \in Keys /\ n = <<"key", k>>
      BY <1>5, LargeKind DEF KeyNodes
    <2>2. cache[g][k] # NoValue /\ cache[g][k] \in Values /\ EntryOK(n, cache[g][k], {}, cas, cache)
      BY <1>1, <1>2, <1>4, <1>5, <2>1 DEF FrameOK, TypeOK
    <2>3. Justified(cas, cache, cas', cache') /\ cache'[0][k] # NoValue
      <3>1. CASE cache[0][k] = NoValue
        <4>1. cas' = cas /\ cache' = [cache EXCEPT ![0][k] = cache[g][k]]
          BY <1>3, <1>5, <3>1
        <4> QED BY <1>4, <2>1, <2>2, <4>1, EntryAdded
      <3>2. CASE cache[0][k] # NoValue
        BY <1>3, <1>4, <1>5, <3>2, Unchanged
      <3> QED BY <3>1, <3>2
    <2>4. InYoungest(n)' /\ Present(n, cas', cache')
      BY <1>2, <1>5, <2>3, Tests DEF InYoungest, Present
    <2> QED BY <1>1, <1>2, <2>1, <2>3, <2>4, ReturnTrueStep
  <1>6. CASE n \notin KeyNodes /\ Top(p).large = "done" /\ Len(stack[p]) > 1
    <2>1. n \in Objects /\ n \notin LargeItems /\ Vouched(cas[0], n)
      BY <1>2, <1>6, LargeKind DEF FrameOK, Vouched, Has
    <2>2. cas' = cas /\ cache' = cache /\ S # <<>>
      <3>1. cas' = cas
        BY <1>3, <1>6
      <3>2. cache' = cache
        BY <1>3, <1>6
      <3>3. Len(stack[p]) # 1
        <4>1. Len(stack[p]) \in Nat
          BY <1>1, RunOK
        <4>2. \A l \in Nat : l > 1 => l # 1
          OBVIOUS
        <4> QED BY <4>1, <4>2, <1>6
      <3> QED BY <1>2, <3>1, <3>2, <3>3
    <2>3. Justified(cas, cache, cas', cache') /\ Present(n, cas', cache')
      BY <1>4, <1>6, <2>1, <2>2, Unchanged DEF Present
    <2> QED BY <1>1, <1>2, <2>1, <2>2, <2>3, ReturnTrueStep
  <1>7. CASE n \notin KeyNodes /\ ~ (Top(p).large = "done" /\ Len(stack[p]) > 1)
    <2>1. n \in Items /\ ~ IsKey(n)
      BY <1>2, <1>7, NodeKinds, Tests
    <2>2. AddFile(0, {n}) /\ cache' = cache
      BY <1>3, <1>7 DEF AddFile
    <2>3. /\ n \in TreeItems => \A x \in Entries[n[2]] : Vouched(cas[0], x)
          /\ n \in LargeItems => LargeOK(n, {}, cas)
      BY <1>1, <1>2 DEF FrameOK
    <2>4. Justified(cas, cache, cas', cache') /\ n \in cas'[0]
      BY <1>4, <2>1, <2>2, <2>3, NodeAdded
    <2>5. InYoungest(n)' /\ Present(n, cas', cache')
      BY <1>7, <2>1, <2>4 DEF InYoungest, IsKey, Present, Vouched, Has
    <2> QED BY <1>1, <1>2, <2>4, <2>5, ReturnTrueStep
  <1> QED BY <1>5, <1>6, <1>7

LEMMA CallersInUplink ==
    ASSUME NEW p \in Threads, NEW S, InUplink(p, S), S # <<>>
    PROVE  /\ InUplink(p, Callers(S))
           /\ (Callers(S) # <<>> /\ S[Len(S)].node \in LargeItems) =>
                 Callers(S)[Len(Callers(S))].large = "due"
  <1>1. S \in Seq(Frames) /\ StackOK(S, at[p], cas, cache) /\ S[1].node = Current(p).node
    BY DEF InUplink
  <1>2. /\ Callers(S) \in Seq(Frames) /\ Len(Callers(S)) = Len(S) - 1 /\ Len(S) \in Nat \ {0}
        /\ \A i \in 1 .. Len(S) - 1 : Callers(S)[i] = S[i]
        /\ Callers(S) = <<>> <=> Len(S) = 1
    BY <1>1, CallersShape
  <1>3. StackOK(Callers(S), at[p], cas, cache)
    BY <1>1, CallersKeep
  <1>4. Callers(S) # <<>> => /\ Len(S) > 1 /\ Len(S) \in 1 .. Len(S)
                             /\ 1 \in 1 .. Len(S) - 1 /\ Len(S) - 1 \in 1 .. Len(S) - 1
    BY <1>2
  <1>5. Callers(S) # <<>> => /\ Callers(S)[1] = S[1]
                             /\ Callers(S)[Len(Callers(S))] = S[Len(S) - 1]
    BY <1>2, <1>4
  <1>6. (Callers(S) # <<>> /\ S[Len(S)].node \in LargeItems) =>
           Callers(S)[Len(Callers(S))].large = "due"
    BY <1>1, <1>4, <1>5 DEF StackOK
  <1> QED BY <1>1, <1>2, <1>3, <1>5, <1>6 DEF InUplink

(* The call that splices an object goes on although its large entry was not *)
(* uplinked.                                                                *)
LEMMA SplicedAnyway ==
    ASSUME StorageInv, IgnoredWritesFail, NEW p \in Threads, NEW S, InUplink(p, S),
           S # <<>> => S[Len(S)].large = "due",
           IF S = <<>>
           THEN /\ stack' = [stack EXCEPT ![p] = <<>>]
                /\ phase' = [phase EXCEPT ![p] = "false"]
           ELSE /\ stack' = [stack EXCEPT ![p] = [S EXCEPT ![Len(S)].large = "done"]]
                /\ phase' = [phase EXCEPT ![p] = "run"],
           UNCHANGED <<holds, goals, at, promised, gcVars, ghostVars>>,
           faulted' \in [Threads -> BOOLEAN],
           Justified(cas, cache, cas', cache'), Current(p).mode # "entry"
    PROVE  StepOf(p)
  <1>1. CASE S = <<>>
    <2>1. StackOK(<<>>, at[p], cas', cache') /\ <<>> \in Seq(Frames)
      BY EmptySeq DEF StackOK
    <2> QED BY <1>1, <2>1, UplinkStep
  <1>2. CASE S # <<>>
    <2>1. S \in Seq(Frames) /\ StackOK(S, at[p], cas, cache)
      BY DEF InUplink
    <2>2. Len(S) \in 1 .. Len(S) /\ S[Len(S)] \in Frames
      BY <1>2, <2>1, EmptySeq, LenProperties
    <2>3. S[Len(S)].node \in Objects
      BY <1>2, <2>1, <2>2 DEF StackOK, FrameOK
    <2> DEFINE n == LargeOf(S[Len(S)].node)
    <2>4. n \in LargeItems /\ n \in Nodes /\ IsLarge(n)
      BY <2>3, LargeOfKind, LargeKind, Tests
    <2>5. Pop(S, n) = [S EXCEPT ![Len(S)].large = "done"]
      BY <2>4 DEF Pop
    <2>6. n = LargeOf(S[Len(S)].node)
      OBVIOUS
    <2> HIDE DEF n
    <2> QED BY <1>2, <2>4, <2>5, <2>6, StrikeStep
  <1> QED BY <1>1, <1>2

LEMMA UplinkFailsKeeps ==
    ASSUME StorageInv, NEW p \in Threads, UplinkFails(p)
    PROVE  StepOf(p)
  <1> SUFFICES ASSUME NEW n, n = Top(p).node, NEW S, S = Below(p)
               PROVE  StepOf(p)
    OBVIOUS
  <1>1. /\ phase[p] = "run" /\ ReturnFalse(p, n, S)
        /\ \/ IgnoredWritesFail
           \/ ~ IsLarge(n) /\ (S # <<>> => ~ IsLarge(S[Len(S)].node))
        /\ UNCHANGED <<cas, cache, holds, goals, at, promised, gcVars, ghostVars>>
        /\ faulted' = [faulted EXCEPT ![p] = TRUE]
    BY DEF UplinkFails
  <1>2. /\ InUplink(p, S) /\ n \in Nodes /\ Current(p).mode # "entry"
        /\ S # <<>> => S[Len(S)] \in Frames
        /\ (S # <<>> /\ n \in LargeItems) => S[Len(S)].large = "due"
    BY <1>1, RunOK
  <1>3. IsLarge(n) <=> n \in LargeItems
    BY <1>2, Tests
  <1>4. S # <<>> => (IsLarge(S[Len(S)].node) <=> S[Len(S)].node \in LargeItems)
    BY <1>2, Tests DEF Frames
  <1>5. Justified(cas, cache, cas', cache') /\ faulted' \in [Threads -> BOOLEAN]
    BY <1>1, Unchanged DEF StorageInv, TypeOK
  <1>6. CASE n \notin LargeItems /\ (S # <<>> => S[Len(S)].node \notin LargeItems)
    BY <1>1, <1>2, <1>5, <1>6, ReturnFalseStep
  <1>7. CASE n \in LargeItems
    BY <1>1, <1>2, <1>3, <1>5, <1>7, SplicedAnyway DEF ReturnFalse
  <1>8. CASE n \notin LargeItems /\ S # <<>> /\ S[Len(S)].node \in LargeItems
    <2>1. /\ InUplink(p, Callers(S))
          /\ Callers(S) # <<>> => Callers(S)[Len(Callers(S))].large = "due"
      BY <1>2, <1>8, CallersInUplink
    <2> DEFINE C == Callers(S)
    <2>2. IF C = <<>>
          THEN /\ stack' = [stack EXCEPT ![p] = <<>>]
               /\ phase' = [phase EXCEPT ![p] = "false"]
          ELSE /\ stack' = [stack EXCEPT ![p] = [C EXCEPT ![Len(C)].large = "done"]]
               /\ phase' = [phase EXCEPT ![p] = "run"]
      BY <1>1, <1>3, <1>4, <1>8 DEF ReturnFalse, Callers
    <2>3. IgnoredWritesFail
      BY <1>1, <1>4, <1>8
    <2> HIDE DEF C
    <2> QED BY <1>1, <1>2, <1>5, <2>1, <2>2, <2>3, SplicedAnyway DEF C
  <1> QED BY <1>6, <1>7, <1>8

-----------------------------------------------------------------------------
(* The steps of a request. *)

LEMMA AtGoal ==
    ASSUME StorageInv, NEW p \in Threads, phase[p] \in {"enter", "true", "false"}
    PROVE  /\ stack[p] = <<>> /\ p \in holds
           /\ goals[p] \in Seq(Goals) /\ goals[p] # <<>> /\ GoalsOK(goals[p], cas, cache)
           /\ Current(p) \in Goals /\ Current(p).node \in Nodes
           /\ GoalOK(Current(p), cas, cache)
           /\ Tail(goals[p]) \in Seq(Goals) /\ GoalsOK(Tail(goals[p]), cas, cache)
           /\ referenced \subseteq Nodes /\ kept \subseteq Nodes
  <1>1. phase[p] # "idle" /\ phase[p] # "run"
    OBVIOUS
  <1>2. stack[p] = <<>>
    BY <1>1 DEF StorageInv, ThreadOK
  <1>3. referenced \subseteq Nodes /\ kept \subseteq Nodes
    BY DEF StorageInv, TypeOK
  <1> QED BY <1>1, <1>2, <1>3, CurrentOK, TailKeeps

LEMMA BecomeStep ==
    ASSUME StorageInv, NEW p \in Threads, phase[p] \in {"enter", "true", "false"},
           NEW g \in Goals, GoalOK(g, cas, cache), Become(p, g),
           UNCHANGED <<cas, cache, holds, gcVars>>,
           referenced' \subseteq Nodes, UNCHANGED kept
    PROVE  StepOf(p)
  <1> DEFINE gs == <<g>> \o Tail(goals[p])
  <1>1. gs \in Seq(Goals) /\ GoalsOK(gs, cas, cache)
    BY AtGoal, ConsKeeps
  <1>2. Pursue(p, gs)
    BY DEF Become
  <1> HIDE DEF gs
  <1>3. Justified(cas, cache, cas', cache')
    BY Unchanged DEF StorageInv
  <1> QED BY <1>1, <1>2, <1>3, AtGoal, PursueStep

LEMMA FinishStep ==
    ASSUME StorageInv, NEW p \in Threads, phase[p] \in {"enter", "true", "false"},
           Finish(p), Justified(cas, cache, cas', cache'), UNCHANGED <<holds, gcVars>>,
           referenced' \subseteq Nodes, UNCHANGED kept,
           Current(p).node \in LargeItems \/ Present(Current(p).node, cas', cache')
    PROVE  StepOf(p)
  <1>1. Pursue(p, Finished(goals[p]))
    BY DEF Finish, Finished, Current
  <1>2. \A m \in cas'[0] \cap LargeItems : m[2] \in Splittable
    BY LargeKept, NodeKinds DEF StorageInv, LargeInvariant
  <1>3. GoalsOK(goals[p], cas', cache') /\ cas' \in [Generations -> SUBSET Items]
    BY AtGoal, GoalsGrow DEF Justified
  <1>4. Finished(goals[p]) \in Seq(Goals) /\ GoalsOK(Finished(goals[p]), cas', cache')
    BY <1>2, <1>3, AtGoal, FinishKeeps DEF Current
  <1> QED BY <1>1, <1>4, AtGoal, PursueStep

LEMMA GiveUpStep ==
    ASSUME StorageInv, NEW p \in Threads, phase[p] \in {"enter", "true", "false"},
           GiveUp(p), UNCHANGED <<cas, cache, holds, gcVars, ghostVars>>
    PROVE  StepOf(p)
  <1>1. Justified(cas, cache, cas', cache')
    BY Unchanged DEF StorageInv
  <1>2. <<>> \in Seq(Goals) /\ GoalsOK(<<>>, cas', cache') /\ Pursue(p, <<>>)
    BY EmptySeq DEF GoalsOK, GiveUp
  <1>3. stack[p] = <<>> /\ p \in holds /\ referenced' \subseteq Nodes /\ kept' \subseteq Nodes
    BY AtGoal DEF ghostVars
  <1> QED BY <1>1, <1>2, <1>3, PursueStep

LEMMA GoalType ==
    ASSUME NEW mode \in Modes, NEW n \in Nodes, NEW todo \in SUBSET Nodes
    PROVE  /\ Goal(mode, n, todo) \in Goals
           /\ Goal(mode, n, todo).mode = mode /\ Goal(mode, n, todo).node = n
           /\ Goal(mode, n, todo).todo = todo
  BY DEF Goal, Goals

LEMMA CreateOK ==
    ASSUME NEW n \in Objects, NEW c, NEW h
    PROVE  /\ Create(n) \in Goals /\ GoalOK(Create(n), c, h)
           /\ Add(n) \in Goals /\ GoalOK(Add(n), c, h)
           /\ Add(n).todo = IF n \in TreeItems THEN Entries[n[2]] ELSE {}
  <1> DEFINE todo == IF n \in TreeItems THEN Entries[n[2]] ELSE {}
  <1>1. n \in Nodes /\ todo \subseteq Objects /\ todo \subseteq Nodes
    <2>1. n \in Nodes
      BY NodeKinds
    <2>2. todo \subseteq Objects
      BY NodeKinds, StorageAssumption
    <2> QED BY <2>1, <2>2, NodeKinds
  <1>2. Create(n) = Goal("create", n, todo) /\ Add(n) = Goal("add", n, todo)
    BY <1>1, Tests DEF Create, Add
  <1> HIDE DEF todo
  <1>3. ASSUME NEW m \in {"create", "add"}
        PROVE  /\ Goal(m, n, todo) \in Goals /\ Goal(m, n, todo).todo = todo
               /\ GoalOK(Goal(m, n, todo), c, h)
    <2>1. m \in Modes
      BY DEF Modes
    <2>2. /\ Goal(m, n, todo) \in Goals /\ Goal(m, n, todo).mode = m
          /\ Goal(m, n, todo).node = n /\ Goal(m, n, todo).todo = todo
      BY <1>1, <2>1, GoalType
    <2>3. n \in TreeItems => Entries[n[2]] \ todo = {}
      BY DEF todo
    <2> QED BY <1>1, <2>2, <2>3 DEF GoalOK
  <1> QED BY <1>2, <1>3 DEF todo

LEMMA SimpleOK ==
    ASSUME NEW n \in Objects, NEW m \in {"lookup", "only", "check", "split"}, NEW c, NEW h
    PROVE  Goal(m, n, {}) \in Goals /\ GoalOK(Goal(m, n, {}), c, h)
  <1>1. n \in Nodes /\ m \in Modes /\ {} \in SUBSET Nodes
    BY NodeKinds DEF Modes
  <1>2. /\ Goal(m, n, {}) \in Goals /\ Goal(m, n, {}).mode = m
        /\ Goal(m, n, {}).node = n /\ Goal(m, n, {}).todo = {}
    BY <1>1, GoalType
  <1> QED BY <1>2 DEF GoalOK

LEMMA ReadOK ==
    ASSUME NEW n \in KeyNodes, NEW c, NEW h
    PROVE  Goal("read", n, {}) \in Goals /\ GoalOK(Goal("read", n, {}), c, h)
  <1>1. n \in Nodes /\ "read" \in Modes /\ {} \in SUBSET Nodes
    BY NodeKinds DEF Modes
  <1>2. /\ Goal("read", n, {}) \in Goals /\ Goal("read", n, {}).mode = "read"
        /\ Goal("read", n, {}).node = n /\ Goal("read", n, {}).todo = {}
    BY <1>1, GoalType
  <1> QED BY <1>2 DEF GoalOK

LEMMA SubGoalOK ==
    ASSUME NEW g \in Goals, NEW c, NEW h, GoalOK(g, c, h), NEW n \in g.todo
    PROVE  SubGoal(g, n) \in Goals /\ GoalOK(SubGoal(g, n), c, h)
  <1>1. n \in Objects \cup KeyNodes /\ (g.mode # "write" => n \in Objects)
    BY DEF GoalOK
  <1>2. g.mode \in {"create", "add", "sync", "resplice", "enter", "value", "write"}
    BY DEF GoalOK
  <1>3. IsKey(n) <=> n \in KeyNodes
    BY <1>1, Tests, NodeKinds
  <1>4. CASE g.mode \in {"create", "enter"}
    <2>1. SubGoal(g, n) = Create(n)
      BY <1>4 DEF SubGoal
    <2> QED BY <1>1, <1>4, <2>1, CreateOK
  <1>5. CASE g.mode = "add"
    <2>1. SubGoal(g, n) = Goal("check", n, {})
      BY <1>5 DEF SubGoal
    <2> QED BY <1>1, <1>5, <2>1, SimpleOK
  <1>6. CASE g.mode \in {"sync", "resplice"}
    <2>1. SubGoal(g, n) = Goal("only", n, {})
      BY <1>6 DEF SubGoal
    <2> QED BY <1>1, <1>6, <2>1, SimpleOK
  <1>7. CASE g.mode = "value"
    <2>1. SubGoal(g, n) = Goal("lookup", n, {})
      BY <1>7 DEF SubGoal
    <2> QED BY <1>1, <1>7, <2>1, SimpleOK
  <1>8. CASE g.mode = "write"
    <2>1. SubGoal(g, n) = IF IsKey(n) THEN Goal("read", n, {}) ELSE Create(n)
      BY <1>8 DEF SubGoal
    <2> QED BY <1>1, <1>3, <2>1, ReadOK, CreateOK
  <1> QED BY <1>2, <1>4, <1>5, <1>6, <1>7, <1>8

LEMMA WriteOK ==
    ASSUME NEW k \in Keys, NEW v \in Values, NEW c, NEW h
    PROVE  Write(k, v) \in Goals /\ GoalOK(Write(k, v), c, h)
  <1> DEFINE todo == (Needs(v) \ {<<"key", k>>}) \cup Unlinked[v]
             w == Write(k, v)
  <1>1. todo \subseteq Objects \cup KeyNodes /\ <<"key", k>> \in KeyNodes
    BY NeedsKind DEF KeyNodes
  <1>2. todo \subseteq Nodes /\ <<"key", k>> \in Nodes
    BY <1>1, NodeKinds
  <1>3. Needs(v) \ (todo \cup {<<"key", k>>}) = {}
    OBVIOUS
  <1>4. w = [mode |-> "write", node |-> <<"key", k>>, value |-> v, todo |-> todo]
    BY DEF Write
  <1> HIDE DEF todo, w
  <1>5. /\ w.mode = "write" /\ w.node = <<"key", k>> /\ w.value = v /\ w.todo = todo
        /\ w \in Goals
    BY <1>2, <1>4 DEF Goals, Modes
  <1>6. EntryOK(w.node, w.value, w.todo, c, h)
    BY <1>3, <1>5 DEF EntryOK
  <1>7. w.todo # {} => w.mode \in {"write"}
    BY <1>5
  <1> QED BY <1>1, <1>5, <1>6 DEF GoalOK, w

LEMMA RequestOK ==
    ASSUME NEW r \in Requests, NEW c, NEW h
    PROVE  GoalOf(r) \in Goals /\ GoalOK(GoalOf(r), c, h)
  <1>1. r \in AllRequests
    BY StorageAssumption
  <1>2. CASE r[1] = "lookup"
    <2>1. GoalOf(r) = Goal("lookup", r[2], {}) /\ r[2] \in Objects
      BY <1>1, <1>2 DEF GoalOf, AllRequests
    <2> QED BY <2>1, SimpleOK
  <1>3. CASE r[1] = "create"
    <2>1. GoalOf(r) = Create(r[2]) /\ r[2] \in Objects
      BY <1>1, <1>3 DEF GoalOf, AllRequests
    <2> QED BY <2>1, CreateOK
  <1>4. CASE r[1] = "add"
    <2>1. GoalOf(r) = Add(r[2]) /\ r[2] \in Objects
      BY <1>1, <1>4 DEF GoalOf, AllRequests
    <2> QED BY <2>1, CreateOK
  <1>5. CASE r[1] = "split"
    <2> DEFINE n == LargeOf(r[2])
    <2>1. GoalOf(r) = Goal("entry", n, {}) /\ r[2] \in Objects
      BY <1>1, <1>5 DEF GoalOf, AllRequests
    <2>2. n \in LargeItems
      BY <2>1, LargeOfKind
    <2> HIDE DEF n
    <2>3. n \in Nodes /\ "entry" \in Modes /\ {} \in SUBSET Nodes
      BY <2>2, LargeKind DEF Modes
    <2>4. /\ Goal("entry", n, {}) \in Goals /\ Goal("entry", n, {}).mode = "entry"
          /\ Goal("entry", n, {}).node = n /\ Goal("entry", n, {}).todo = {}
      BY <2>3, GoalType
    <2> QED BY <2>1, <2>2, <2>4 DEF GoalOK
  <1>6. CASE r[1] = "splice"
    <2> DEFINE n == r[2]
    <2>1. GoalOf(r) = Goal("splice", n, {}) /\ n \in Objects /\ n[2] \in Splittable
      BY <1>1, <1>6 DEF GoalOf, AllRequests
    <2> HIDE DEF n
    <2>3. n \in Nodes /\ "splice" \in Modes /\ {} \in SUBSET Nodes
      BY <2>1, NodeKinds DEF Modes
    <2>4. /\ Goal("splice", n, {}) \in Goals /\ Goal("splice", n, {}).mode = "splice"
          /\ Goal("splice", n, {}).node = n /\ Goal("splice", n, {}).todo = {}
      BY <2>3, GoalType
    <2> QED BY <2>1, <2>4 DEF GoalOK
  <1>7. CASE r[1] = "read"
    <2>1. GoalOf(r) = Goal("read", r[2], {}) /\ r[2] \in KeyNodes
      BY <1>1, <1>7 DEF GoalOf, AllRequests
    <2> QED BY <2>1, ReadOK
  <1>8. CASE r[1] = "store"
    <2>1. GoalOf(r) = Write(r[2][1], r[2][2]) /\ r[2][1] \in Keys /\ r[2][2] \in Values
      BY <1>1, <1>8 DEF GoalOf, AllRequests
    <2> QED BY <2>1, WriteOK
  <1>9. r[1] \in {"lookup", "create", "add", "split", "splice", "read", "store"}
    BY <1>1 DEF AllRequests
  <1> QED BY <1>2, <1>3, <1>4, <1>5, <1>6, <1>7, <1>8, <1>9

LEMMA BeginKeeps ==
    ASSUME StorageInv, NEW p \in Threads, Begin(p)
    PROVE  StepOf(p)
  <1>1. PICK r \in Requests : Pursue(p, <<GoalOf(r)>>)
    BY DEF Begin
  <1>2. /\ phase[p] = "idle" /\ p \in holds
        /\ UNCHANGED <<cas, cache, holds, gcVars, ghostVars>>
    BY DEF Begin
  <1>3. stack[p] = <<>> /\ referenced \subseteq Nodes /\ kept \subseteq Nodes
    BY <1>2 DEF StorageInv, ThreadOK, TypeOK
  <1> DEFINE g == GoalOf(r)
  <1>4. g \in Goals /\ GoalOK(g, cas', cache')
    BY RequestOK
  <1> HIDE DEF g
  <1>5. <<g>> \in Seq(Goals) /\ Len(<<g>>) = 1 /\ <<g>>[1] = g
    BY <1>4
  <1>6. GoalsOK(<<g>>, cas', cache')
    BY <1>4, <1>5 DEF GoalsOK
  <1>7. Justified(cas, cache, cas', cache')
    BY <1>2, Unchanged DEF StorageInv
  <1> QED BY <1>1, <1>2, <1>3, <1>5, <1>6, <1>7, PursueStep DEF ghostVars, g

LEMMA PoseKeeps ==
    ASSUME StorageInv, NEW p \in Threads, Pose(p)
    PROVE  StepOf(p)
  <1>1. PICK n \in Current(p).todo : Pursue(p, <<SubGoal(Current(p), n)>> \o goals[p])
    BY DEF Pose
  <1>2. phase[p] = "enter" /\ UNCHANGED <<cas, cache, holds, gcVars, ghostVars>>
    BY DEF Pose
  <1> DEFINE gs == <<SubGoal(Current(p), n)>> \o goals[p]
  <1>3. SubGoal(Current(p), n) \in Goals /\ GoalOK(SubGoal(Current(p), n), cas, cache)
    BY <1>2, AtGoal, SubGoalOK
  <1>4. gs \in Seq(Goals) /\ GoalsOK(gs, cas, cache)
    BY <1>2, <1>3, AtGoal, ConsKeeps
  <1>5. Pursue(p, gs)
    BY <1>1
  <1> HIDE DEF gs
  <1>6. Justified(cas, cache, cas', cache')
    BY <1>2, Unchanged DEF StorageInv
  <1> QED BY <1>2, <1>4, <1>5, <1>6, AtGoal, PursueStep DEF ghostVars

LEMMA NextGenerationKeeps ==
    ASSUME StorageInv, NEW p \in Threads, NextGeneration(p)
    PROVE  StepOf(p)
  <1>1. /\ phase[p] = "false" /\ at[p] + 1 < N
        /\ at' = [at EXCEPT ![p] = @ + 1] /\ phase' = [phase EXCEPT ![p] = "enter"]
        /\ UNCHANGED <<cas, cache, holds, goals, stack, faulted, promised, gcVars, ghostVars>>
    BY DEF NextGeneration
  <1>2. TypeOK /\ ThreadOK(p)
    BY DEF StorageInv
  <1>3. at[p] + 1 \in Generations
    BY <1>1, <1>2, StorageAssumption DEF TypeOK, Generations
  <1>4. BuildTypes'
    BY <1>1, <1>2, <1>3 DEF TypeOK, BuildTypes, ghostVars
  <1>5. Justified(cas, cache, cas', cache')
    BY <1>1, <1>2, Unchanged
  <1>6. stack[p] = <<>> /\ StackOK(<<>>, at'[p], cas', cache')
    BY <1>1, <1>2, EmptySeq DEF ThreadOK, StackOK
  <1>7. phase'[p] = "enter" /\ Current(p)' = Current(p) /\ Current(p).mode # "entry"
    BY <1>1, <1>2 DEF TypeOK, Current, ThreadOK
  <1>8. ThreadOK(p)'
    BY <1>1, <1>2, <1>6, <1>7 DEF ThreadOK
  <1> QED BY <1>1, <1>2, <1>4, <1>5, <1>8 DEF StepOf, TypeOK

(* Where a request has found its node. *)
LEMMA HitOK ==
    ASSUME StorageInv, NEW p \in Threads, Hit(p)
    PROVE  /\ phase[p] \in {"true", "false"} /\ Current(p).todo = {}
           /\ Current(p).node \in LargeItems \/ InYoungest(Current(p).node)
           /\ Current(p).node \in LargeItems \/ Present(Current(p).node, cas, cache)
  <1>1. phase[p] \in {"true", "false"}
    BY DEF Hit, Exhausted
  <1>2. Current(p).node \in LargeItems \/ InYoungest(Current(p).node)
    BY DEF Hit, StorageInv, ThreadOK
  <1>3. Current(p).todo = {} /\ Current(p).node \in Nodes
    BY <1>1, AtGoal DEF StorageInv, ThreadOK
  <1>4. InYoungest(Current(p).node) => Present(Current(p).node, cas, cache)
    BY <1>3, Tests DEF InYoungest, Present, Vouched, Has
  <1> QED BY <1>1, <1>2, <1>3, <1>4

LEMMA MissedOK ==
    ASSUME StorageInv, NEW p \in Threads, Missed(p)
    PROVE  phase[p] = "false" /\ Current(p).todo = {}
  BY DEF Missed, Exhausted, StorageInv, ThreadOK

LEMMA Referenced ==
    ASSUME StorageInv, NEW n, Reference(n)
    PROVE  referenced' \subseteq Nodes /\ UNCHANGED kept
  BY StorageAssumption DEF StorageInv, TypeOK, Reference

LEMMA FoundKeeps ==
    ASSUME StorageInv, NEW p \in Threads, Found(p)
    PROVE  StepOf(p)
  <1>1. /\ Hit(p) /\ Finish(p) /\ Reference(Current(p).node)
        /\ UNCHANGED <<cas, cache, holds, gcVars>>
    BY DEF Found
  <1>2. Justified(cas, cache, cas', cache')
    BY <1>1, Unchanged DEF StorageInv
  <1>3. Current(p).node \in LargeItems \/ Present(Current(p).node, cas', cache')
    BY <1>1, HitOK
  <1> QED BY <1>1, <1>2, <1>3, HitOK, Referenced, FinishStep

LEMMA FoundCacheEntryKeeps ==
    ASSUME StorageInv, NEW p \in Threads, FoundCacheEntry(p)
    PROVE  StepOf(p)
  <1> DEFINE n == Current(p).node
             v == cache[0][n[2]]
             todo == {<<"f", ValueBlob[v]>>}
             g == Goal("value", n, todo)
  <1>1. /\ Hit(p) /\ Current(p).mode = "read" /\ Become(p, g) /\ Reference(n)
        /\ UNCHANGED <<cas, cache, holds, gcVars>>
    BY DEF FoundCacheEntry
  <1>2. n \in KeyNodes
    BY <1>1, HitOK, AtGoal DEF GoalOK
  <1>3. n \in Nodes /\ n \notin LargeItems /\ n[2] \in Keys
    BY <1>2, NodeKinds, LargeKind
  <1>4. v # NoValue
    BY <1>1, <1>2, <1>3, HitOK, Tests DEF InYoungest
  <1>5. v \in Values
    BY <1>3, <1>4, NodeKinds DEF StorageInv, TypeOK
  <1>6. todo \subseteq Objects /\ todo \in SUBSET Nodes /\ "value" \in Modes
    BY <1>5, NeedsKind, NodeKinds DEF Modes
  <1>7. g \in Goals /\ g.mode = "value" /\ g.node = n /\ g.todo = todo
    BY <1>3, <1>6, GoalType
  <1> HIDE DEF g, todo
  <1>8. GoalOK(g, cas, cache)
    BY <1>2, <1>4, <1>6, <1>7 DEF GoalOK
  <1>9. phase[p] \in {"enter", "true", "false"} /\ referenced' \subseteq Nodes /\ UNCHANGED kept
    BY <1>1, HitOK, Referenced
  <1> QED BY <1>1, <1>7, <1>8, <1>9, BecomeStep

LEMMA FoundLargeEntryKeeps ==
    ASSUME StorageInv, NEW p \in Threads, FoundLargeEntry(p)
    PROVE  StepOf(p)
  <1> DEFINE n == Current(p).node
             m == <<IF n[1] = "lt" THEN "t" ELSE "f", n[2]>>
  <1>1. /\ Hit(p) /\ Current(p).mode = "entry"
        /\ IF n \in cas[0] THEN Finish(p) ELSE Become(p, Goal("split", m, {}))
        /\ UNCHANGED <<cas, cache, holds, gcVars, ghostVars>>
    BY DEF FoundLargeEntry
  <1>2. n \in LargeItems
    BY <1>1, HitOK, AtGoal DEF GoalOK
  <1>3. phase[p] \in {"enter", "true", "false"} /\ referenced' \subseteq Nodes /\ UNCHANGED kept
    BY <1>1, HitOK, AtGoal DEF ghostVars
  <1>4. m \in Objects
    BY <1>2 DEF LargeItems, Objects, BlobItems, TreeItems
  <1>5. Justified(cas, cache, cas', cache')
    BY <1>1, Unchanged DEF StorageInv
  <1> HIDE DEF m
  <1>6. Goal("split", m, {}) \in Goals /\ GoalOK(Goal("split", m, {}), cas, cache)
    BY <1>4, SimpleOK
  <1> QED BY <1>1, <1>2, <1>3, <1>5, <1>6, BecomeStep, FinishStep

LEMMA FoundToSplitKeeps ==
    ASSUME StorageInv, NEW p \in Threads, FoundToSplit(p)
    PROVE  StepOf(p)
  <1> DEFINE n == Current(p).node
             l == LargeOf(n)
             g == Goal("enter", l, Parts(n[2]))
  <1>1. /\ Hit(p) /\ Current(p).mode = "split" /\ Reference(n)
        /\ IF n[2] \in Splittable THEN Become(p, g) ELSE Finish(p)
        /\ UNCHANGED <<cas, cache, holds, gcVars>>
    BY DEF FoundToSplit
  <1>2. n \in Objects
    BY <1>1, HitOK, AtGoal DEF GoalOK
  <1>3. phase[p] \in {"enter", "true", "false"} /\ referenced' \subseteq Nodes /\ UNCHANGED kept
    BY <1>1, HitOK, Referenced
  <1>4. n \in Nodes /\ n \notin LargeItems
    BY <1>2, NodeKinds
  <1>5. Present(n, cas', cache') /\ InYoungest(n)
    BY <1>1, <1>4, HitOK
  <1>6. CASE n[2] \in Splittable
    <2>1. /\ l \in LargeItems /\ l[2] = n[2] /\ l \in Nodes
          /\ l \in {"lt"} \X Trees <=> n \in TreeItems
      BY <1>2, LargeOfKind, LargeKind
    <2>2. Parts(n[2]) \subseteq Objects /\ Parts(n[2]) \in SUBSET Nodes /\ "enter" \in Modes
      BY <1>6, PartsKind, NodeKinds DEF Modes
    <2>3. n \in TreeItems => \A e \in Entries[n[2]] : Vouched(cas[0], e)
      <3> SUFFICES ASSUME n \in TreeItems, NEW e \in Entries[n[2]] PROVE Vouched(cas[0], e)
        OBVIOUS
      <3>1. n = <<"t", n[2]>> /\ n[2] \in Trees /\ ~ IsKey(n)
        BY DEF TreeItems, IsKey
      <3>2. <<"t", n[2]>> \in cas[0]
        BY <1>5, <3>1 DEF InYoungest
      <3> QED BY <3>1, <3>2, NodeKinds DEF StorageInv, TreeInv
    <2>4. g \in Goals /\ g.mode = "enter" /\ g.node = l /\ g.todo = Parts(n[2])
      BY <2>1, <2>2, GoalType
    <2>5. Become(p, g)
      BY <1>1, <1>6
    <2> HIDE DEF g, l
    <2>6. LargeOK(l, Parts(n[2]), cas)
      BY <1>6, <2>1, <2>3 DEF LargeOK
    <2>7. GoalOK(g, cas, cache)
      BY <2>1, <2>2, <2>4, <2>6 DEF GoalOK
    <2> QED BY <1>1, <1>3, <2>4, <2>5, <2>7, BecomeStep
  <1>7. CASE n[2] \notin Splittable
    <2>1. Justified(cas, cache, cas', cache')
      BY <1>1, Unchanged DEF StorageInv
    <2> QED BY <1>1, <1>3, <1>5, <1>7, <2>1, FinishStep
  <1> QED BY <1>6, <1>7

LEMMA SplitExecutableKeeps ==
    ASSUME StorageInv, NEW p \in Threads, SplitExecutable(p)
    PROVE  StepOf(p)
  <1> DEFINE n == Current(p).node
             m == Flipped(n)
  <1>1. /\ Missed(p) /\ Current(p).mode = "split" /\ n[1] = "f"
        /\ Become(p, Goal("split", m, {}))
        /\ UNCHANGED <<cas, cache, holds, gcVars, ghostVars>>
    BY DEF SplitExecutable
  <1>2. n \in Objects
    BY <1>1, MissedOK, AtGoal DEF GoalOK
  <1>3. m \in Objects
    BY <1>1, <1>2, NodeKinds, FlippedKind
  <1> HIDE DEF m
  <1>4. Goal("split", m, {}) \in Goals /\ GoalOK(Goal("split", m, {}), cas, cache)
    BY <1>3, SimpleOK
  <1> QED BY <1>1, <1>4, MissedOK, AtGoal, BecomeStep DEF ghostVars

LEMMA TrySyncBlobKeeps ==
    ASSUME StorageInv, NEW p \in Threads, TrySyncBlob(p)
    PROVE  StepOf(p)
  <1> DEFINE n == Current(p).node
             todo == {Flipped(n)}
             m == IF Current(p).mode = "splice" THEN "resplice" ELSE "sync"
             g == Goal(m, n, todo)
  <1>1. /\ Missed(p) /\ Current(p).mode \in {"lookup", "check", "splice"} /\ ~ IsTree(n)
        /\ Become(p, g)
        /\ UNCHANGED <<cas, cache, holds, gcVars, ghostVars>>
    BY DEF TrySyncBlob
  <1>2. n \in Nodes /\ n \in Objects /\ (Current(p).mode = "splice" => n[2] \in Splittable)
    BY <1>1, MissedOK, AtGoal DEF GoalOK
  <1>3. n \in BlobItems
    BY <1>1, <1>2, Tests, NodeKinds
  <1>4. todo \subseteq Objects /\ todo \in SUBSET Nodes
    BY <1>3, FlippedKind, NodeKinds
  <1>5. m \in Modes /\ m \in {"sync", "resplice"} /\ (m = "resplice" => n[2] \in Splittable)
    BY <1>2 DEF Modes
  <1>6. g \in Goals /\ g.mode = m /\ g.node = n /\ g.todo = todo
    BY <1>2, <1>4, <1>5, GoalType
  <1> HIDE DEF g, todo, m
  <1>7. GoalOK(g, cas, cache)
    BY <1>2, <1>3, <1>4, <1>5, <1>6 DEF GoalOK
  <1> QED BY <1>1, <1>6, <1>7, MissedOK, AtGoal, BecomeStep DEF ghostVars

(* The object is put together from its parts, below the tree invariant. *)
LEMMA SpliceGoalOK ==
    ASSUME NEW n \in Objects, n[2] \in Splittable, NEW c, NEW h
    PROVE  LET g == Goal("add", n, Parts(n[2]) \cup Add(n).todo)
           IN  g \in Goals /\ GoalOK(g, c, h)
  <1> DEFINE todo == Parts(n[2]) \cup Add(n).todo
             g == Goal("add", n, todo)
  <1>1. Add(n).todo = IF n \in TreeItems THEN Entries[n[2]] ELSE {}
    BY CreateOK
  <1>2. n \in Nodes /\ Parts(n[2]) \subseteq Objects
    BY PartsKind, NodeKinds
  <1>3. Add(n).todo \subseteq Objects
    BY <1>1, NodeKinds, StorageAssumption
  <1>4. todo \subseteq Objects /\ todo \in SUBSET Nodes /\ "add" \in Modes
    BY <1>2, <1>3, NodeKinds DEF Modes
  <1>5. n \in TreeItems => Entries[n[2]] \ todo = {}
    BY <1>1
  <1>6. g \in Goals /\ g.mode = "add" /\ g.node = n /\ g.todo = todo
    BY <1>2, <1>4, GoalType
  <1>7. GoalOK(g, c, h)
    <2> HIDE DEF g, todo
    <2> QED BY <1>4, <1>5, <1>6 DEF GoalOK
  <1> QED BY <1>6, <1>7

LEMMA SpliceKeeps ==
    ASSUME StorageInv, NEW p \in Threads, Splice(p)
    PROVE  StepOf(p)
  <1> DEFINE from(n) == Goal("add", n, Parts(n[2]) \cup Add(n).todo)
             rest == Tail(goals[p])
  <1>1. Missed(p) /\ UNCHANGED <<cas, cache, holds, gcVars, ghostVars>>
    BY DEF Splice
  <1>2. phase[p] \in {"enter", "true", "false"}
    BY <1>1, MissedOK
  <1>3. CASE Current(p).mode = "splice" /\ Become(p, from(Current(p).node))
    <2>1. Current(p).node \in Objects /\ Current(p).node[2] \in Splittable
      BY <1>2, <1>3, AtGoal DEF GoalOK
    <2>2. from(Current(p).node) \in Goals /\ GoalOK(from(Current(p).node), cas, cache)
      BY <2>1, SpliceGoalOK
    <2> HIDE DEF from
    <2> QED BY <1>1, <1>2, <1>3, <2>2, AtGoal, BecomeStep DEF ghostVars
  <1>4. CASE /\ rest # <<>> /\ rest[1].mode = "resplice"
             /\ Pursue(p, <<from(rest[1].node)>> \o Tail(rest))
    <2>1. /\ Tail(rest) \in Seq(Goals) /\ GoalsOK(Tail(rest), cas, cache)
          /\ GoalOK(rest[1], cas, cache)
      BY <1>2, <1>4, AtGoal, TailKeeps
    <2>2. rest[1].node \in Objects /\ rest[1].node[2] \in Splittable
      BY <1>4, <2>1, NodeKinds DEF GoalOK
    <2> DEFINE g == from(rest[1].node)
               gs == <<g>> \o Tail(rest)
    <2>3. g \in Goals /\ GoalOK(g, cas, cache)
      BY <2>2, SpliceGoalOK
    <2> HIDE DEF from
    <2>4. gs \in Seq(Goals) /\ GoalsOK(gs, cas, cache) /\ Pursue(p, gs)
      BY <1>4, <2>1, <2>3, ConsKeeps
    <2> HIDE DEF gs
    <2>5. Justified(cas, cache, cas', cache')
      BY <1>1, Unchanged DEF StorageInv
    <2> QED BY <1>1, <1>2, <2>4, <2>5, AtGoal, PursueStep DEF ghostVars
  <1> QED BY <1>3, <1>4 DEF Splice

LEMMA StoreObjectKeeps ==
    ASSUME StorageInv, NEW p \in Threads, StoreObject(p)
    PROVE  StepOf(p)
  <1> SUFFICES ASSUME NEW n, n = Current(p).node PROVE StepOf(p)
    OBVIOUS
  <1>1. /\ Missed(p) /\ Current(p).mode \in {"create", "add", "sync", "resplice"}
        /\ AddFile(0, {n}) /\ Finish(p) /\ Reference(n)
        /\ UNCHANGED <<cache, holds, gcVars>>
    BY DEF StoreObject
  <1>2. phase[p] \in {"enter", "true", "false"} /\ Current(p).todo = {}
    BY <1>1, MissedOK
  <1>3. GoalOK(Current(p), cas, cache) /\ n \in Objects
    BY <1>1, <1>2, AtGoal DEF GoalOK
  <1>4. n \in Items /\ n \notin LargeItems /\ n \notin KeyNodes
    BY <1>3, NodeKinds
  <1>5. n \in TreeItems => \A x \in Entries[n[2]] : Vouched(cas[0], x)
    <2>1. n \in TreeItems => n \notin BlobItems
      BY NodeKinds
    <2> QED BY <1>1, <1>2, <1>3, <2>1 DEF GoalOK
  <1>6. Justified(cas, cache, cas', cache') /\ n \in cas'[0]
    BY <1>1, <1>4, <1>5, NodeAdded DEF StorageInv
  <1>7. Present(n, cas', cache')
    BY <1>4, <1>6 DEF Present, Vouched, Has
  <1> QED BY <1>1, <1>2, <1>6, <1>7, Referenced, FinishStep

LEMMA MissKeeps ==
    ASSUME StorageInv, NEW p \in Threads, Miss(p)
    PROVE  StepOf(p)
  <1>1. Missed(p) /\ GiveUp(p) /\ UNCHANGED <<cas, cache, holds, gcVars, ghostVars>>
    BY DEF Miss
  <1>2. phase[p] \in {"enter", "true", "false"}
    BY <1>1, MissedOK
  <1> QED BY <1>1, <1>2, GiveUpStep

LEMMA ConcludeKeeps ==
    ASSUME StorageInv, NEW p \in Threads, Conclude(p)
    PROVE  StepOf(p)
  <1> DEFINE n == Current(p).node
  <1>1. /\ phase[p] = "enter" /\ Current(p).mode \notin {"enter", "write"}
        /\ Current(p).todo = {} /\ ~ Uplinks(Current(p))
        /\ Finish(p) /\ Reference(n)
        /\ UNCHANGED <<cas, cache, holds, gcVars>>
    BY DEF Conclude, Performs
  <1>2. \/ Current(p).mode = "value"
        \/ Current(p).mode = "check" /\ LargeOf(n) \in cas[0]
    BY <1>1 DEF Uplinks
  <1>3. Present(n, cas', cache')
    <2>1. CASE Current(p).mode = "value"
      BY <1>1, <2>1, AtGoal DEF GoalOK, Present
    <2>2. CASE Current(p).mode = "check" /\ LargeOf(n) \in cas[0]
      <3>1. n \in Objects
        BY <1>1, <2>2, AtGoal DEF GoalOK
      <3>2. n \notin KeyNodes
        BY <3>1, NodeKinds
      <3> QED BY <1>1, <2>2, <3>2 DEF Present, Vouched, Has
    <2> QED BY <1>2, <2>1, <2>2
  <1>4. Justified(cas, cache, cas', cache')
    BY <1>1, Unchanged DEF StorageInv
  <1> QED BY <1>1, <1>3, <1>4, Referenced, FinishStep

LEMMA WriteEntryKeeps ==
    ASSUME StorageInv, NEW p \in Threads, WriteEntry(p)
    PROVE  StepOf(p)
  <1> SUFFICES ASSUME NEW n, n = Current(p).node PROVE StepOf(p)
    OBVIOUS
  <1>1. /\ phase[p] = "enter" /\ Current(p).mode = "enter" /\ Current(p).todo = {}
        /\ AddFile(0, {n}) /\ Finish(p) /\ Reference(n)
        /\ UNCHANGED <<cache, holds, gcVars>>
    BY DEF WriteEntry, Performs
  <1>2. n \in LargeItems /\ LargeOK(n, {}, cas)
    BY <1>1, AtGoal DEF GoalOK
  <1>3. n \in Items /\ n \notin TreeItems
    BY <1>2, NodeKinds, LargeKind
  <1>4. Justified(cas, cache, cas', cache')
    BY <1>1, <1>2, <1>3, NodeAdded DEF StorageInv
  <1> QED BY <1>1, <1>2, <1>4, Referenced, FinishStep

LEMMA StoreResultKeeps ==
    ASSUME StorageInv, NEW p \in Threads, StoreResult(p)
    PROVE  StepOf(p)
  <1> SUFFICES ASSUME NEW n, n = Current(p).node, NEW v, v = Current(p).value
               PROVE  StepOf(p)
    OBVIOUS
  <1>1. /\ phase[p] = "enter" /\ Current(p).mode = "write" /\ Current(p).todo = {}
        /\ cache' = [cache EXCEPT ![0][n[2]] = v] /\ Finish(p) /\ Reference(n)
        /\ UNCHANGED <<cas, holds, gcVars>>
    BY DEF StoreResult, Performs
  <1>2. n \in KeyNodes /\ v \in Values /\ EntryOK(n, v, {}, cas, cache)
    BY <1>1, AtGoal DEF GoalOK
  <1>3. n[2] \in Keys /\ n = <<"key", n[2]>> /\ v # NoValue
    BY <1>2, StorageAssumption DEF KeyNodes
  <1>4. Justified(cas, cache, cas', cache') /\ cache'[0][n[2]] = v
    BY <1>1, <1>2, <1>3, EntryAdded DEF StorageInv
  <1>5. Present(n, cas', cache')
    BY <1>2, <1>3, <1>4 DEF Present
  <1> QED BY <1>1, <1>4, <1>5, Referenced, FinishStep

LEMMA WriteFailsKeeps ==
    ASSUME StorageInv, NEW p \in Threads, WriteFails(p)
    PROVE  StepOf(p)
  <1>1. GiveUp(p) /\ UNCHANGED <<cas, cache, holds, gcVars, ghostVars>>
    BY DEF WriteFails
  <1>2. phase[p] \in {"enter", "true", "false"}
    BY MissedOK DEF WriteFails, Performs
  <1> QED BY <1>1, <1>2, AtGoal, GiveUpStep DEF ghostVars

LEMMA SharedLockKeeps ==
    ASSUME StorageInv, NEW p \in Threads, SharedLock(p)
    PROVE  StepOf(p)
  <1>1. /\ gc = "off" /\ holds' = holds \cup {p}
        /\ UNCHANGED <<cas, cache, phase, goals, at, stack, faulted, promised, gcVars, ghostVars>>
    BY DEF SharedLock
  <1>2. TypeOK /\ ThreadOK(p)
    BY DEF StorageInv
  <1>3. Justified(cas, cache, cas', cache')
    BY <1>1, <1>2, Unchanged
  <1>4. BuildTypes'
    BY <1>1, <1>2 DEF TypeOK, BuildTypes, ghostVars
  <1>5. ThreadOK(p)'
    BY <1>1, <1>2 DEF ThreadOK, Current, InYoungest
  <1> QED BY <1>1, <1>3, <1>4, <1>5 DEF StepOf

LEMMA EndBuildKeeps ==
    ASSUME StorageInv, NEW p \in Threads, EndBuild(p)
    PROVE  StepOf(p)
  <1>1. /\ p \in holds /\ holds' = holds \ {p}
        /\ phase' = [phase EXCEPT ![p] = "idle"] /\ goals' = [goals EXCEPT ![p] = <<>>]
        /\ stack' = [stack EXCEPT ![p] = <<>>] /\ at' = [at EXCEPT ![p] = 0]
        /\ faulted' = [faulted EXCEPT ![p] = FALSE]
        /\ promised' = [promised EXCEPT ![p] = FALSE]
        /\ UNCHANGED <<cas, cache, gcVars, ghostVars>>
    BY DEF EndBuild
  <1>2. TypeOK /\ ThreadOK(p) /\ gc = "off"
    BY <1>1 DEF StorageInv, CollectorOK
  <1>3. Justified(cas, cache, cas', cache')
    BY <1>1, <1>2, Unchanged
  <1>4. <<>> \in Seq(Goals) /\ <<>> \in Seq(Frames)
    BY EmptySeq
  <1>5. BuildTypes'
    BY <1>1, <1>2, <1>4, NodeKinds DEF TypeOK, BuildTypes, ghostVars
  <1>6. phase'[p] = "idle" /\ goals'[p] = <<>> /\ stack'[p] = <<>>
    BY <1>1, <1>2 DEF TypeOK
  <1>7. GoalsOK(<<>>, cas', cache') /\ StackOK(<<>>, at'[p], cas', cache')
    BY EmptySeq DEF GoalsOK, StackOK
  <1>8. ThreadOK(p)'
    BY <1>6, <1>7 DEF ThreadOK
  <1> QED BY <1>1, <1>2, <1>3, <1>5, <1>8 DEF StepOf, TypeOK

(* Every step of a build thread. *)
LEMMA BuildStep ==
    ASSUME StorageInv, NEW p \in Threads, Build(p)
    PROVE  StepOf(p)
  BY UplinkKeeps, UplinkChildKeeps, UplinkLargeObjectKeeps, UplinkStoreKeeps,
     UplinkFailsKeeps, BeginKeeps, PoseKeeps, NextGenerationKeeps, FoundKeeps,
     FoundCacheEntryKeeps, FoundLargeEntryKeeps, FoundToSplitKeeps,
     SplitExecutableKeeps, TrySyncBlobKeeps, SpliceKeeps, StoreObjectKeeps,
     MissKeeps, ConcludeKeeps, WriteEntryKeeps, StoreResultKeeps, WriteFailsKeeps,
     SharedLockKeeps, EndBuildKeeps
     DEF Build

LEMMA BuildKeeps ==
    ASSUME StorageInv, NEW p \in Threads, Build(p)
    PROVE  StorageInv'
  BY BuildStep, StepKeeps

-----------------------------------------------------------------------------
(* The collector has the build root to itself: no request is under way. *)
LEMMA CollectStep ==
    ASSUME StorageInv, holds = {}, UNCHANGED buildVars, TypeOK',
           TreeInv', LargeInvariant', CacheInv',
           gc' = "split" => /\ splitting' \subseteq cas'[0]
                            /\ \A n \in written' : n[2] \in Splittable => Recorded(n, cas')
    PROVE  StorageInv'
  <1>1. CollectorOK'
    BY DEF CollectorOK, buildVars
  <1>2. ASSUME NEW p \in Threads PROVE ThreadOK(p)'
    <2>1. phase[p] = "idle" /\ goals[p] = <<>> /\ stack[p] = <<>>
      BY DEF StorageInv, ThreadOK
    <2>2. phase'[p] = "idle" /\ goals'[p] = <<>> /\ stack'[p] = <<>>
      BY <2>1 DEF buildVars
    <2>3. GoalsOK(<<>>, cas', cache') /\ StackOK(<<>>, at'[p], cas', cache')
      BY EmptySeq DEF GoalsOK, StackOK
    <2> QED BY <2>2, <2>3 DEF ThreadOK
  <1> QED BY <1>1, <1>2 DEF StorageInv

LEMMA Alone ==
    ASSUME StorageInv, gc # "off"
    PROVE  holds = {} /\ TypeOK /\ TreeInv /\ LargeInvariant /\ CacheInv
  BY DEF StorageInv, CollectorOK

(* A step that changes neither files nor cache entries. *)
LEMMA SameFiles ==
    ASSUME StorageInv, UNCHANGED <<cas, cache>>
    PROVE  TreeInv' /\ LargeInvariant' /\ CacheInv'
  BY DEF StorageInv, TreeInv, LargeInvariant, CacheInv

(* Removing an object that has a large entry loses nothing: it is no chunk  *)
(* of another entry.  Without the entry, it loses that object alone.        *)
LEMMA RemovalKeeps ==
    ASSUME StorageInv, NEW n \in Objects, n[2] \in Splittable, Recorded(n, cas),
           cas' = [cas EXCEPT ![0] = @ \ {n}], UNCHANGED cache
    PROVE  /\ cas' \in [Generations -> SUBSET Items]
           /\ cas'[0] = cas[0] \ {n}
           /\ \A m \in Objects : Has(cas[0], m) =>
              Has(cas'[0], m) \/ (m = n /\ LargeOf(n) \notin cas[0])
           /\ TreeInv' /\ LargeInvariant' /\ CacheInv'
  <1>1. /\ TypeOK /\ TreeInv /\ LargeInvariant /\ CacheInv
        /\ LargeOf(n) \in LargeItems /\ LargeOf(n)[2] = n[2] /\ n \notin LargeItems
    BY LargeOfKind, NodeKinds DEF StorageInv
  <1>2. n[2] \in Splittable
    OBVIOUS
  <1>3. /\ cas' \in [Generations -> SUBSET Items] /\ cas'[0] = cas[0] \ {n}
        /\ \A g \in Generations : cas'[g] \subseteq cas[g] /\ (g # 0 => cas'[g] = cas[g])
    BY <1>1, NodeKinds DEF TypeOK
  <1>4. \A m \in Objects : Has(cas[0], m) =>
              Has(cas'[0], m) \/ (m = n /\ LargeOf(n) \notin cas[0])
    <2> SUFFICES ASSUME NEW m \in Objects, Has(cas[0], m)
                 PROVE  Has(cas'[0], m) \/ (m = n /\ LargeOf(n) \notin cas[0])
      OBVIOUS
    <2>1. LargeOf(m) # n
      BY <1>1, LargeOfKind
    <2>2. LargeOf(n) # n
      BY <1>1
    <2> QED BY <1>3, <2>1, <2>2 DEF Has
  <1>5. \A g \in Generations : \A m \in Objects : Vouched(cas[g], m) => Vouched(cas'[g], m)
    BY <1>3, <1>4 DEF Vouched, Recorded
  <1>6. TreeInv'
    <2> SUFFICES ASSUME NEW g \in Generations, NEW t \in Trees,
                        {<<"t", t>>, <<"lt", t>>} \cap cas'[g] # {}, NEW e \in Entries[t]
                 PROVE  Vouched(cas'[g], e)
      BY DEF TreeInv
    <2>1. {<<"t", t>>, <<"lt", t>>} \cap cas[g] # {}
      BY <1>3
    <2>2. Vouched(cas[g], e) /\ e \in Objects
      BY <1>1, <2>1, StorageAssumption DEF TreeInv
    <2> QED BY <1>5, <2>2
  <1>7. LargeInvariant'
    <2> SUFFICES ASSUME NEW g \in Generations, NEW m \in cas'[g] \cap LargeItems
                 PROVE  m[2] \in Splittable /\ Parts(m[2]) \subseteq cas'[g]
      BY DEF LargeInvariant
    <2>1. m[2] \in Splittable /\ Parts(m[2]) \subseteq cas[g]
      BY <1>1, <1>3 DEF LargeInvariant
    <2>2. n \notin Parts(m[2])
      BY <1>2, <2>1, ChunkAssumption DEF Parts
    <2> QED BY <1>3, <2>1, <2>2
  <1>8. CacheInv'
    <2> SUFFICES ASSUME NEW g \in Generations, NEW k \in Keys, cache[g][k] # NoValue,
                        NEW m \in Needs(cache[g][k])
                 PROVE  IF IsKey(m) THEN cache[g][m[2]] # NoValue ELSE Vouched(cas'[g], m)
      BY DEF CacheInv
    <2>1. cache[g][k] \in Values
      BY <1>1 DEF TypeOK
    <2>2. m \in Objects \cup KeyNodes
      BY <2>1, NeedsKind
    <2>3. IF IsKey(m) THEN cache[g][m[2]] # NoValue ELSE Vouched(cas[g], m)
      BY <1>1 DEF CacheInv
    <2>4. ~ IsKey(m) => m \in Objects
      BY <2>2, NodeKinds DEF IsKey
    <2> QED BY <1>5, <2>3, <2>4
  <1> QED BY <1>3, <1>4, <1>6, <1>7, <1>8

(* Every generation is, after a rename, some generation as it was, or empty. *)
LEMMA MovedKeeps ==
    ASSUME StorageInv,
           \A g \in Generations :
              \/ cas'[g] = {} /\ cache'[g] = [k \in Keys |-> NoValue]
              \/ \E h \in Generations : cas'[g] = cas[h] /\ cache'[g] = cache[h]
    PROVE  TreeInv' /\ LargeInvariant' /\ CacheInv'
  <1>1. TreeInv /\ LargeInvariant /\ CacheInv
    BY DEF StorageInv
  <1>2. TreeInv'
    <2> SUFFICES ASSUME NEW g \in Generations, NEW t \in Trees,
                        {<<"t", t>>, <<"lt", t>>} \cap cas'[g] # {}, NEW e \in Entries[t]
                 PROVE  Vouched(cas'[g], e)
      BY DEF TreeInv
    <2>1. PICK h \in Generations : cas'[g] = cas[h]
      OBVIOUS
    <2> QED BY <1>1, <2>1 DEF TreeInv
  <1>3. LargeInvariant'
    <2> SUFFICES ASSUME NEW g \in Generations, NEW m \in cas'[g] \cap LargeItems
                 PROVE  m[2] \in Splittable /\ Parts(m[2]) \subseteq cas'[g]
      BY DEF LargeInvariant
    <2>1. PICK h \in Generations : cas'[g] = cas[h]
      OBVIOUS
    <2> QED BY <1>1, <2>1 DEF LargeInvariant
  <1>4. CacheInv'
    <2> SUFFICES ASSUME NEW g \in Generations, NEW k \in Keys, cache'[g][k] # NoValue,
                        NEW m \in Needs(cache'[g][k])
                 PROVE  IF IsKey(m) THEN cache'[g][m[2]] # NoValue ELSE Vouched(cas'[g], m)
      BY DEF CacheInv
    <2>1. PICK h \in Generations : cas'[g] = cas[h] /\ cache'[g] = cache[h]
      OBVIOUS
    <2> QED BY <1>1, <2>1 DEF CacheInv
  <1> QED BY <1>2, <1>3, <1>4

LEMMA TriggerKeeps ==
    ASSUME StorageInv, TriggerGarbageCollection
    PROVE  StorageInv'
  <1>1. holds = {} /\ UNCHANGED <<cas, cache, buildVars>> /\ gc' # "split"
    BY DEF TriggerGarbageCollection
  <1>2. TypeOK'
    <2>1. TypeOK /\ UNCHANGED <<cas, cache, buildVars, splitting, written, failed, ghostVars>>
      BY DEF StorageInv, TriggerGarbageCollection
    <2>2. gc' \in {"off", "spliced", "split", "rotate", "all"} /\ norotate' \in BOOLEAN
      BY DEF TriggerGarbageCollection
    <2>3. index' \in 0 .. N
      BY StorageAssumption DEF TriggerGarbageCollection
    <2> QED BY <2>1, <2>2, <2>3 DEF TypeOK, buildVars, ghostVars
  <1> QED BY <1>1, <1>2, SameFiles, CollectStep

LEMMA RemoveSplicedKeeps ==
    ASSUME StorageInv, RemoveSpliced
    PROVE  StorageInv' /\ \A m \in Objects : Has(cas[0], m) => Has(cas'[0], m)
  <1>1. PICK n \in cas[0] \cap Objects :
           LargeOf(n) \in cas[0] /\ cas' = [cas EXCEPT ![0] = @ \ {n}]
    BY DEF RemoveSpliced
  <1>2. gc = "spliced" /\ UNCHANGED <<cache, buildVars, gcVars, ghostVars>>
    BY DEF RemoveSpliced
  <1>3. /\ cas' \in [Generations -> SUBSET Items]
        /\ \A m \in Objects : Has(cas[0], m) => Has(cas'[0], m)
        /\ TreeInv' /\ LargeInvariant' /\ CacheInv'
    <2>1. n[2] \in Splittable /\ Recorded(n, cas)
      BY <1>1, LargeOfKind, NodeKinds DEF StorageInv, LargeInvariant, Recorded
    <2> QED BY <1>1, <1>2, <2>1, RemovalKeeps
  <1>4. holds = {} /\ TypeOK
    BY <1>2, Alone
  <1>5. TypeOK'
    BY <1>2, <1>3, <1>4 DEF TypeOK, buildVars, gcVars, ghostVars
  <1>6. gc' # "split" /\ UNCHANGED buildVars
    BY <1>2 DEF gcVars
  <1> QED BY <1>3, <1>4, <1>5, <1>6, CollectStep

LEMMA FilterEntriesKeeps ==
    ASSUME StorageInv, FilterEntries
    PROVE  StorageInv' /\ UNCHANGED cas
  <1>1. /\ gc = "spliced" /\ gc' = "split" /\ written' = {}
        /\ splitting' \subseteq cas[0] \cap Objects
        /\ UNCHANGED <<cas, cache, buildVars, norotate, failed, index, ghostVars>>
    BY DEF FilterEntries
  <1>2. holds = {} /\ TypeOK
    BY <1>1, Alone
  <1>3. TypeOK'
    BY <1>1, <1>2 DEF TypeOK, buildVars, ghostVars
  <1> QED BY <1>1, <1>2, <1>3, SameFiles, CollectStep

LEMMA SplitStorePartKeeps ==
    ASSUME StorageInv, SplitStorePart
    PROVE  StorageInv' /\ Grows(cas, cache, cas', cache')
  <1>1. gc = "split" /\ UNCHANGED <<cache, buildVars, gcVars, ghostVars>>
    BY DEF SplitStorePart
  <1>2. PICK n \in splitting :
           n[2] \in Splittable /\ \E c \in Parts(n[2]) : AddFile(0, {c})
    BY DEF SplitStorePart
  <1>2a. PICK c \in Parts(n[2]) : AddFile(0, {c})
    BY <1>2
  <1>3. /\ holds = {} /\ TypeOK /\ TreeInv /\ LargeInvariant /\ CacheInv
        /\ CollectorOK
    BY <1>1, Alone DEF StorageInv
  <1>4. c \in BlobItems
    BY <1>2, PartsKind
  <1>5. Justified(cas, cache, cas', cache')
    BY <1>1, <1>2a, <1>3, <1>4, NodeKinds, BlobsAdded
  <1>6. TypeOK' /\ cas[0] \subseteq cas'[0]
    BY <1>1, <1>3, <1>5, NodeKinds DEF Justified, Grows, TypeOK, buildVars, gcVars, ghostVars
  <1>7. UNCHANGED <<splitting, written>> /\ UNCHANGED buildVars
    BY <1>1 DEF gcVars
  <1>8. TreeInv' /\ LargeInvariant' /\ CacheInv'
    BY <1>3, <1>5, TreeKept, LargeKept, CacheKept
  <1>9. StorageInv'
    BY <1>1, <1>3, <1>6, <1>7, <1>8, CollectStep DEF CollectorOK, Recorded
  <1> QED BY <1>5, <1>9 DEF Justified

LEMMA SplitWriteEntryKeeps ==
    ASSUME StorageInv, SplitWriteEntry
    PROVE  StorageInv' /\ Grows(cas, cache, cas', cache')
  <1>1. /\ gc = "split"
        /\ UNCHANGED <<cache, buildVars, gc, norotate, splitting, failed, index, ghostVars>>
    BY DEF SplitWriteEntry
  <1>2. PICK n \in splitting \ written :
           /\ n[2] \in Splittable /\ Parts(n[2]) \subseteq cas[0]
           /\ AddFile(0, {LargeOf(n)}) \/ (IgnoredWritesFail /\ UNCHANGED cas)
           /\ written' = written \cup {n}
    BY DEF SplitWriteEntry
  <1>3. /\ holds = {} /\ TypeOK /\ TreeInv /\ LargeInvariant /\ CacheInv
        /\ CollectorOK
    BY <1>1, Alone DEF StorageInv
  <1>4. n \in Objects /\ n \in cas[0]
    BY <1>1, <1>3 DEF TypeOK, CollectorOK
  <1> DEFINE l == LargeOf(n)
  <1>5. /\ l \in LargeItems /\ l[2] = n[2] /\ l \in Items
        /\ l \in {"lt"} \X Trees <=> n \in TreeItems
    BY <1>4, LargeOfKind, NodeKinds
  <1>6. n \in TreeItems => \A e \in Entries[n[2]] : Vouched(cas[0], e)
    <2> SUFFICES ASSUME n \in TreeItems, NEW e \in Entries[n[2]] PROVE Vouched(cas[0], e)
      OBVIOUS
    <2>1. n = <<"t", n[2]>> /\ n[2] \in Trees
      BY DEF TreeItems
    <2> QED BY <1>3, <1>4, <2>1, NodeKinds DEF TreeInv
  <1> HIDE DEF l
  <1>7. LargeOK(l, {}, cas) /\ l \notin TreeItems
    BY <1>2, <1>5, <1>6, LargeKind DEF LargeOK
  <1>8. Justified(cas, cache, cas', cache') /\ (l \in cas'[0] \/ IgnoredWritesFail)
    <2>1. CASE AddFile(0, {l})
      BY <1>1, <1>3, <1>5, <1>7, <2>1, NodeAdded
    <2>2. CASE IgnoredWritesFail /\ UNCHANGED cas
      BY <1>1, <1>3, <2>2, Unchanged
    <2> QED BY <1>2, <2>1, <2>2 DEF l
  <1>9. TypeOK' /\ cas[0] \subseteq cas'[0]
    BY <1>1, <1>2, <1>3, <1>4, <1>8, NodeKinds
       DEF Justified, Grows, TypeOK, buildVars, ghostVars
  <1>10. TreeInv' /\ LargeInvariant' /\ CacheInv'
    BY <1>3, <1>8, TreeKept, LargeKept, CacheKept
  <1>11. /\ splitting' \subseteq cas'[0]
         /\ \A m \in written' : m[2] \in Splittable => Recorded(m, cas')
    BY <1>1, <1>2, <1>3, <1>8, <1>9 DEF CollectorOK, Recorded, l
  <1>12. StorageInv'
    BY <1>1, <1>3, <1>9, <1>10, <1>11, CollectStep
  <1> QED BY <1>8, <1>12 DEF Justified

(* WriteEntry failed unnoticed for the object. *)
Unrecorded(n) == IgnoredWritesFail /\ n[2] \in Splittable /\ LargeOf(n) \notin cas[0]

LEMMA SplitRemoveKeeps ==
    ASSUME StorageInv, SplitRemove
    PROVE  /\ StorageInv'
           /\ \A m \in Objects : Has(cas[0], m) =>
                 Has(cas'[0], m) \/ (m \in splitting \cap written /\ Unrecorded(m))
  <1>1. /\ gc = "split"
        /\ UNCHANGED <<cache, buildVars, gc, norotate, written, failed, index, ghostVars>>
    BY DEF SplitRemove
  <1>2. PICK n \in splitting :
           /\ n \in written \/ n[2] \notin Splittable
           /\ cas' = IF n[2] \in Splittable THEN [cas EXCEPT ![0] = @ \ {n}] ELSE cas
           /\ splitting' = splitting \ {n}
    BY DEF SplitRemove
  <1>3. holds = {} /\ TypeOK /\ CollectorOK
    BY <1>1, Alone DEF StorageInv
  <1>4. n \in Objects /\ \A m \in written : m \in Objects
    BY <1>3 DEF TypeOK
  <1>5. CASE n[2] \in Splittable
    <2>1. n \in written /\ Recorded(n, cas) /\ cas' = [cas EXCEPT ![0] = @ \ {n}]
      BY <1>1, <1>2, <1>3, <1>5 DEF CollectorOK
    <2>2. /\ cas' \in [Generations -> SUBSET Items] /\ cas'[0] = cas[0] \ {n}
          /\ \A m \in Objects : Has(cas[0], m) =>
              Has(cas'[0], m) \/ (m = n /\ LargeOf(n) \notin cas[0])
          /\ TreeInv' /\ LargeInvariant' /\ CacheInv'
      BY <1>1, <1>4, <1>5, <2>1, RemovalKeeps
    <2>3. TypeOK'
      BY <1>1, <1>2, <1>3, <2>2 DEF TypeOK, buildVars, ghostVars
    <2>4. splitting' \subseteq cas'[0]
      BY <1>1, <1>2, <1>3, <2>2 DEF CollectorOK
    <2>5. \A m \in written' : m[2] \in Splittable => Recorded(m, cas')
      <3> SUFFICES ASSUME NEW m \in written, m[2] \in Splittable PROVE Recorded(m, cas')
        BY <1>1
      <3>1. Recorded(m, cas)
        BY <1>1, <1>3 DEF CollectorOK
      <3>2. LargeOf(m) # n
        BY <1>4, LargeOfKind, NodeKinds
      <3> QED BY <2>2, <3>1, <3>2 DEF Recorded
    <2>6. StorageInv'
      BY <1>1, <1>3, <2>2, <2>3, <2>4, <2>5, CollectStep
    <2> QED BY <1>5, <2>1, <2>2, <2>6 DEF Recorded, Unrecorded
  <1>6. CASE n[2] \notin Splittable
    <2>1. cas' = cas
      BY <1>2, <1>6
    <2>2. TypeOK'
      BY <1>1, <1>2, <1>3, <2>1 DEF TypeOK, buildVars, ghostVars
    <2>3. StorageInv'
      BY <1>1, <1>2, <1>3, <2>1, <2>2, SameFiles, CollectStep DEF CollectorOK
    <2> QED BY <2>1, <2>3
  <1> QED BY <1>5, <1>6

LEMMA SplitFailsKeeps ==
    ASSUME StorageInv, SplitFails
    PROVE  StorageInv' /\ UNCHANGED cas
  <1>1. /\ gc = "split" /\ failed' = TRUE /\ splitting' \subseteq splitting
        /\ UNCHANGED <<cas, cache, buildVars, gc, norotate, written, index, ghostVars>>
    BY DEF SplitFails
  <1>2. holds = {} /\ TypeOK /\ CollectorOK
    BY <1>1, Alone DEF StorageInv
  <1>3. TypeOK'
    BY <1>1, <1>2 DEF TypeOK, buildVars, ghostVars
  <1> QED BY <1>1, <1>2, <1>3, SameFiles, CollectStep DEF CollectorOK

LEMMA CompactifiedKeeps ==
    ASSUME StorageInv, Compactified
    PROVE  StorageInv' /\ UNCHANGED cas
  <1>1. /\ gc = "split" /\ gc' = "rotate"
        /\ UNCHANGED <<cas, cache, buildVars, norotate, splitting, written, failed, index,
                       ghostVars>>
    BY DEF Compactified
  <1>2. holds = {} /\ TypeOK
    BY <1>1, Alone
  <1>3. TypeOK'
    BY <1>1, <1>2 DEF TypeOK, buildVars, ghostVars
  <1> QED BY <1>1, <1>2, <1>3, SameFiles, CollectStep

LEMMA EndCollectionKeeps ==
    ASSUME StorageInv, EndCollection
    PROVE  StorageInv' /\ UNCHANGED cas
  <1>1. /\ gc # "off" /\ gc' = "off" /\ norotate' = FALSE /\ failed' = FALSE /\ index' = 0
        /\ splitting' = {} /\ written' = {}
        /\ UNCHANGED <<cas, cache, buildVars, ghostVars>>
    BY DEF EndCollection
  <1>2. holds = {} /\ TypeOK
    BY <1>1, Alone
  <1>3. 0 \in 0 .. N
    BY StorageAssumption
  <1>4. TypeOK'
    BY <1>1, <1>2, <1>3 DEF TypeOK, buildVars, ghostVars
  <1> QED BY <1>1, <1>2, <1>4, SameFiles, CollectStep

LEMMA RenameKeeps ==
    ASSUME StorageInv, Rename
    PROVE  StorageInv'
  <1> DEFINE from == index - 1
             none == [k \in Keys |-> NoValue]
  <1>1. /\ gc \in {"rotate", "all"} /\ index > 0
        /\ UNCHANGED <<buildVars, gc, norotate, splitting, written, failed>>
        /\ index' = from
        /\ cas' = IF gc = "rotate" /\ index < N
                  THEN [cas EXCEPT ![index] = cas[from], ![from] = {}]
                  ELSE [cas EXCEPT ![from] = {}]
        /\ cache' = IF gc = "rotate" /\ index < N
                    THEN [cache EXCEPT ![index] = cache[from], ![from] = none]
                    ELSE [cache EXCEPT ![from] = none]
        /\ kept' \in {referenced, {}} /\ referenced' \in {referenced, {}}
    BY DEF Rename
  <1>2. holds = {} /\ TypeOK
    BY <1>1, Alone
  <1>3. /\ from \in Generations /\ from \in 0 .. N /\ from # index
        /\ index < N => index \in Generations
    BY <1>1, <1>2, StorageAssumption DEF TypeOK, Generations
  <1>4. none \in [Keys -> Values \cup {NoValue}]
    OBVIOUS
  <1> HIDE DEF none, from
  <1>5. /\ cas' \in [Generations -> SUBSET Items]
        /\ \A g \in Generations : cas'[g] = IF g = from THEN {}
                 ELSE IF g = index /\ gc = "rotate" /\ index < N THEN cas[from] ELSE cas[g]
    BY <1>1, <1>2, <1>3 DEF TypeOK
  <1>6. /\ cache' \in [Generations -> [Keys -> Values \cup {NoValue}]]
        /\ \A g \in Generations : cache'[g] = IF g = from THEN none
                 ELSE IF g = index /\ gc = "rotate" /\ index < N THEN cache[from] ELSE cache[g]
    BY <1>1, <1>2, <1>3, <1>4 DEF TypeOK
  <1>7. \A g \in Generations :
              \/ cas'[g] = {} /\ cache'[g] = none
              \/ \E h \in Generations : cas'[g] = cas[h] /\ cache'[g] = cache[h]
    BY <1>3, <1>5, <1>6
  <1>8. TreeInv' /\ LargeInvariant' /\ CacheInv'
    BY <1>7, MovedKeeps DEF none
  <1>9. TypeOK'
    BY <1>1, <1>2, <1>3, <1>5, <1>6 DEF TypeOK, buildVars
  <1>10. gc' # "split" /\ UNCHANGED buildVars
    BY <1>1
  <1> QED BY <1>2, <1>8, <1>9, <1>10, CollectStep

-----------------------------------------------------------------------------
LEMMA InitOK ==
    ASSUME Init
    PROVE  StorageInv
  <1>1. TypeOK
    <2>1. <<>> \in Seq(Goals) /\ <<>> \in Seq(Frames) /\ 0 \in Generations /\ 0 \in 0 .. N
      BY EmptySeq, NodeKinds, StorageAssumption
    <2> QED BY <2>1 DEF Init, TypeOK
  <1>2. TreeInv /\ LargeInvariant /\ CacheInv
    BY DEF Init, TreeInv, LargeInvariant, CacheInv
  <1>3. ASSUME NEW p \in Threads PROVE ThreadOK(p)
    <2>1. phase[p] = "idle" /\ goals[p] = <<>> /\ stack[p] = <<>>
      BY DEF Init
    <2>2. GoalsOK(<<>>, cas, cache) /\ StackOK(<<>>, at[p], cas, cache)
      BY EmptySeq DEF GoalsOK, StackOK
    <2> QED BY <2>1, <2>2 DEF ThreadOK
  <1>4. CollectorOK
    BY DEF Init, CollectorOK
  <1> QED BY <1>1, <1>2, <1>3, <1>4 DEF StorageInv

LEMMA CollectKeeps ==
    ASSUME StorageInv, Collect
    PROVE  StorageInv'
  BY TriggerKeeps, RemoveSplicedKeeps, FilterEntriesKeeps, SplitStorePartKeeps,
     SplitWriteEntryKeeps, SplitRemoveKeeps, SplitFailsKeeps, CompactifiedKeeps,
     RenameKeeps, EndCollectionKeeps
     DEF Collect

LEMMA StutterKeeps ==
    ASSUME StorageInv, UNCHANGED vars
    PROVE  StorageInv'
  <1>1. /\ UNCHANGED <<cas, cache, holds, phase, goals, at, stack, faulted, promised>>
        /\ UNCHANGED <<gc, norotate, splitting, written, failed, index>>
        /\ UNCHANGED <<referenced, kept>>
    BY DEF vars, buildVars, gcVars, ghostVars
  <1>2. TypeOK' /\ CollectorOK'
    BY <1>1 DEF StorageInv, TypeOK, CollectorOK
  <1>3. \A p \in Threads : ThreadOK(p)'
    BY <1>1 DEF StorageInv, ThreadOK, Current, InYoungest
  <1> QED BY <1>1, <1>2, <1>3, SameFiles DEF StorageInv

LEMMA NextKeeps ==
    ASSUME StorageInv, [Next]_vars
    PROVE  StorageInv'
  BY BuildKeeps, CollectKeeps, StutterKeeps DEF Next

(* The inductive invariant: every generation satisfies the invariants of    *)
(* the build root but for objects whose split was not recorded, and what    *)
(* every request still relies on is there.                                  *)
THEOREM StorageSafe == Spec => []StorageInv
  <1>1. Init => StorageInv
    BY InitOK
  <1>2. StorageInv /\ [Next]_vars => StorageInv'
    BY NextKeeps
  <1> QED BY <1>1, <1>2, PTL DEF Spec

(* If no write fails unnoticed, what is promised is there. *)
LEMMA Strong ==
    ASSUME ~ IgnoredWritesFail
    PROVE  /\ \A files, n : Vouched(files, n) <=> Has(files, n)
           /\ StorageInv => TreeInvariant /\ CacheInvariant
  <1>1. \A files, n : Vouched(files, n) <=> Has(files, n)
    BY DEF Vouched
  <1> QED BY <1>1 DEF StorageInv, TreeInv, CacheInv, TreeInvariant, CacheInvariant

(* A tree is in a generation only with its immediate parts.                 *)
THEOREM TreesComplete ==
    ASSUME ~ IgnoredWritesFail
    PROVE  Spec => []TreeInvariant
  <1>1. StorageInv => TreeInvariant
    BY Strong
  <1> QED BY <1>1, StorageSafe, PTL

(* A large-objects entry is in a generation only with its chunks, whatever  *)
(* write fails unnoticed.                                                   *)
THEOREM LargeEntriesComplete == Spec => []LargeInvariant
  <1>1. StorageInv => LargeInvariant
    BY DEF StorageInv
  <1> QED BY <1>1, StorageSafe, PTL

(* A cache entry is in a generation only with its value, the artifacts      *)
(* uplinked with it and the implied entries.                                *)
THEOREM CacheEntriesComplete ==
    ASSUME ~ IgnoredWritesFail
    PROVE  Spec => []CacheInvariant
  <1>1. StorageInv => CacheInvariant
    BY Strong
  <1> QED BY <1>1, StorageSafe, PTL

(* All that compactification can lose, file by file and wherever it stops:  *)
(* an object just split whose WriteEntry failed, as Split ignores that.     *)
OnlyUnrecordedLost ==
    [][(gc \in {"spliced", "split"}) =>
          (\A n \in Objects : Has(cas[0], n) =>
              Has(cas'[0], n) \/ (n \in splitting \cap written /\ Unrecorded(n)))]_vars

(* Compactification keeps what can be obtained from the youngest generation *)
(* but for those objects, while WriteEntry and every other write may fail.  *)
THEOREM CompactificationLosses == Spec => OnlyUnrecordedLost
  <1> DEFINE Keeps ==
        (gc \in {"spliced", "split"}) =>
           (\A n \in Objects : Has(cas[0], n) =>
               Has(cas'[0], n) \/ (n \in splitting \cap written /\ Unrecorded(n)))
  <1>1. Grows(cas, cache, cas', cache') => Keeps
    BY NodeKinds DEF Grows, Has
  <1>2. StorageInv /\ Next => Keeps
    <2> SUFFICES ASSUME StorageInv, Next, gc \in {"spliced", "split"} PROVE Keeps
      OBVIOUS
    <2>1. ASSUME NEW p \in Threads, Build(p) PROVE FALSE
      <3>1. holds = {}
        BY Alone
      <3>2. phase[p] = "idle" /\ p \notin holds
        BY <3>1 DEF StorageInv, ThreadOK
      <3> QED BY <2>1, <3>2
              DEF Build, Uplink, UplinkChild, UplinkLargeObject, UplinkStore, UplinkFails,
                  Begin, Pose, NextGeneration, Found, FoundCacheEntry, FoundLargeEntry,
                  FoundToSplit, SplitExecutable, TrySyncBlob, Splice, StoreObject, Miss,
                  Conclude, WriteEntry, StoreResult, WriteFails, SharedLock, EndBuild,
                  Hit, Missed, Exhausted, Performs
    <2>2. Collect
      BY <2>1 DEF Next
    <2>3. CASE RemoveSpliced
      BY <2>3, RemoveSplicedKeeps
    <2>4. CASE SplitRemove
      BY <2>4, SplitRemoveKeeps
    <2>5. CASE SplitStorePart \/ SplitWriteEntry
      BY <1>1, <2>5, SplitStorePartKeeps, SplitWriteEntryKeeps
    <2>6. CASE UNCHANGED cas
      BY <2>6
    <2>7. ~ TriggerGarbageCollection /\ ~ Rename
      BY DEF TriggerGarbageCollection, Rename
    <2> QED BY <2>2, <2>3, <2>4, <2>5, <2>6, <2>7, FilterEntriesKeeps, SplitFailsKeeps,
               CompactifiedKeeps, EndCollectionKeeps DEF Collect
  <1>3. StorageInv /\ [Next]_vars => [Keeps]_vars
    BY <1>2
  <1> QED BY <1>3, StorageSafe, PTL DEF Spec, OnlyUnrecordedLost

(* Promoting an old cache entry never replaces one a build has written      *)
(* meanwhile.                                                               *)
THEOREM FreshEntriesKept == Spec => UplinkKeepsFreshEntry
  <1> DEFINE Fresh == \A k \in Keys :
                         cache[0][k] \notin {NoValue, cache'[0][k]} =>
                            \/ gc # "off"
                            \/ \E p \in Threads : /\ phase[p] = "enter"
                                                  /\ Current(p).mode = "write"
  <1>1. ASSUME StorageInv, NEW p \in Threads, Build(p)
        PROVE  Fresh
    <2>1. CASE UNCHANGED cache
      BY <2>1
    <2>2. CASE UplinkStore(p)
      <3> SUFFICES ASSUME NEW n, n = Top(p).node, NEW k \in Keys, cache[0][k] # NoValue
                   PROVE  cache'[0][k] = cache[0][k]
        OBVIOUS
      <3>1. cache' = IF IsKey(n) /\ cache[0][n[2]] = NoValue
                     THEN [cache EXCEPT ![0][n[2]] = cache[at[p]][n[2]]] ELSE cache
        BY <2>2 DEF UplinkStore
      <3> QED BY <3>1, NodeKinds DEF StorageInv, TypeOK
    <2>3. CASE StoreResult(p)
      BY <2>3 DEF StoreResult, Performs
    <2> QED BY <1>1, <2>1, <2>2, <2>3
            DEF Build, Uplink, UplinkChild, UplinkLargeObject, LocalUplink, UplinkFails,
                Begin, Pose, NextGeneration, Found, FoundCacheEntry, FoundLargeEntry,
                FoundToSplit, SplitExecutable, TrySyncBlob, Splice, StoreObject, Miss,
                Conclude, WriteEntry, WriteFails, SharedLock, EndBuild
  <1>2. ASSUME Collect PROVE Fresh
    <2>1. gc # "off" \/ UNCHANGED cache
      BY <1>2 DEF Collect, TriggerGarbageCollection, RemoveSpliced, FilterEntries,
                  SplitStorePart, SplitWriteEntry, SplitRemove, SplitFails, Compactified,
                  Rename, EndCollection
    <2> QED BY <2>1
  <1>3. StorageInv /\ [Next]_vars => [Fresh]_vars
    BY <1>1, <1>2 DEF Next
  <1> QED BY <1>3, StorageSafe, PTL DEF Spec, UplinkKeepsFreshEntry

-----------------------------------------------------------------------------
(* Retention.  A value the chunker cuts is unreadable in a generation that   *)
(* holds it in split form only, as reading an entry does not splice.         *)
SmallValues == \A v \in Values : ValueBlob[v] \notin Splittable

(* What an uplink from generation g can serve. *)
Offers(g, n, c, h) == IF n \in KeyNodes THEN h[g][n[2]] # NoValue
                      ELSE n \in LargeItems \/ Has(c[g], n)

(* What was referenced is still to be had, one generation per rotation. *)
Promises ==
    /\ \A n \in referenced : Offers(0, n, cas, cache)
    /\ \A n \in kept : 1 \in Generations /\ Offers(1, n, cas, cache)

(* The generation that can serve a promised node is yet to be asked.         *)
Sought(p) ==
    promised[p] /\ ~ faulted[p] /\ phase[p] # "idle" =>
        \E g \in Generations : /\ Offers(g, Current(p).node, cas, cache)
                               /\ at[p] < g \/ (at[p] = g /\ phase[p] # "false")

(* What the calls S still have to promote can be had from generation g. *)
Served(S, g, c, h) == \A i \in 1 .. Len(S) : \A m \in S[i].todo : Offers(g, m, c, h)

ThreadServed(p) == Sought(p) /\ Served(stack[p], at[p], cas, cache)

RetentionInv == Promises /\ \A p \in Threads : ThreadServed(p)

LEMMA OffersGrows ==
    ASSUME NEW c, NEW h, NEW d, NEW e, Grows(c, h, d, e), NEW g \in Generations,
           NEW n, Offers(g, n, c, h)
    PROVE  Offers(g, n, d, e)
  <1>1. c[g] \subseteq d[g] /\ (g # 0 => e[g] = h[g])
    BY DEF Grows
  <1>2. CASE n \in KeyNodes
    <2>1. n[2] \in Keys /\ h[g][n[2]] # NoValue
      BY <1>2, NodeKinds DEF Offers
    <2>2. e[g][n[2]] # NoValue
      BY <1>1, <2>1 DEF Grows
    <2> QED BY <1>2, <2>2 DEF Offers
  <1>3. CASE n \notin KeyNodes
    BY <1>1, <1>3 DEF Offers, Has
  <1> QED BY <1>2, <1>3

LEMMA ServedGrows ==
    ASSUME NEW c, NEW h, NEW d, NEW e, Grows(c, h, d, e), NEW g \in Generations,
           NEW S, Served(S, g, c, h)
    PROVE  Served(S, g, d, e)
  BY OffersGrows DEF Served

LEMMA PushServed ==
    ASSUME NEW S \in Seq(Frames), NEW g, NEW c, NEW h, Served(S, g, c, h),
           NEW n \in Nodes, NEW todo \in SUBSET Nodes, NEW large \in {"no", "due", "done"},
           \A m \in todo : Offers(g, m, c, h)
    PROVE  Served(Push(S, n, todo, large), g, c, h)
  <1> DEFINE P == Push(S, n, todo, large)
             f == [node |-> n, todo |-> todo, large |-> large]
  <1>1. /\ Len(P) = Len(S) + 1 /\ P[Len(S) + 1] = f /\ Len(S) \in Nat
        /\ \A i \in 1 .. Len(S) : P[i] = S[i]
    BY PushShape
  <1>2. f.todo = todo
    OBVIOUS
  <1> HIDE DEF P, f
  <1> SUFFICES ASSUME NEW i \in 1 .. Len(S) + 1, NEW m \in P[i].todo
               PROVE  Offers(g, m, c, h)
    BY <1>1 DEF Served, P
  <1>3. CASE i = Len(S) + 1
    BY <1>1, <1>2, <1>3
  <1>4. CASE i # Len(S) + 1
    <2>1. i \in 1 .. Len(S) /\ P[i] = S[i]
      BY <1>1, <1>4
    <2> QED BY <2>1 DEF Served
  <1> QED BY <1>3, <1>4

LEMMA PopServed ==
    ASSUME NEW S \in Seq(Frames), S # <<>>, NEW g, NEW c, NEW h, Served(S, g, c, h), NEW n
    PROVE  Served(Pop(S, n), g, c, h)
  <1> DEFINE P == Pop(S, n)
             t == S[Len(S)]
  <1>1. /\ Len(P) = Len(S) /\ Len(S) \in Nat \ {0}
        /\ \A i \in 1 .. Len(S) - 1 : P[i] = S[i]
        /\ t \in Frames
        /\ P[Len(S)] = IF IsLarge(n) THEN [t EXCEPT !.large = "done"]
                                     ELSE [t EXCEPT !.todo = @ \ {n}]
    BY PopShape
  <1>2. P[Len(S)].todo \subseteq t.todo
    BY <1>1 DEF Frames
  <1> HIDE DEF P
  <1> SUFFICES ASSUME NEW i \in 1 .. Len(S), NEW m \in P[i].todo PROVE Offers(g, m, c, h)
    BY <1>1 DEF Served, P
  <1>3. CASE i = Len(S)
    BY <1>1, <1>2, <1>3 DEF Served
  <1>4. CASE i # Len(S)
    <2>1. i \in 1 .. Len(S) - 1
      BY <1>1, <1>4
    <2> QED BY <1>1, <2>1 DEF Served
  <1> QED BY <1>3, <1>4

LEMMA CallersServed ==
    ASSUME NEW S \in Seq(Frames), S # <<>>, NEW g, NEW c, NEW h, Served(S, g, c, h)
    PROVE  Served(Callers(S), g, c, h)
  <1>1. /\ Len(Callers(S)) = Len(S) - 1 /\ Len(S) \in Nat \ {0}
        /\ \A i \in 1 .. Len(S) - 1 : Callers(S)[i] = S[i]
    BY CallersShape
  <1> SUFFICES ASSUME NEW i \in 1 .. Len(S) - 1, NEW m \in Callers(S)[i].todo
               PROVE  Offers(g, m, c, h)
    BY <1>1 DEF Served
  <1>2. i \in 1 .. Len(S) /\ Callers(S)[i] = S[i]
    BY <1>1
  <1> QED BY <1>2 DEF Served

-----------------------------------------------------------------------------
(* In a generation that offers a node, all that it refers to is offered too. *)
LEMMA LargeServed ==
    ASSUME StorageInv, NEW g \in Generations, NEW n \in LargeItems, n \in cas[g]
    PROVE  \A m \in Parts(n[2]) : Offers(g, m, cas, cache)
  <1>1. n[2] \in Splittable /\ Parts(n[2]) \subseteq cas[g] /\ Parts(n[2]) \subseteq BlobItems
    BY PartsKind DEF StorageInv, LargeInvariant
  <1>2. \A m \in BlobItems : m \notin KeyNodes
    BY NodeKinds
  <1> QED BY <1>1, <1>2 DEF Offers, Has

LEMMA TreeServed ==
    ASSUME StorageInv, ~ IgnoredWritesFail, NEW g \in Generations, NEW n \in TreeItems, Has(cas[g], n)
    PROVE  \A m \in Entries[n[2]] : Offers(g, m, cas, cache)
  <1>1. n = <<"t", n[2]>> /\ n[2] \in Trees
    BY DEF TreeItems
  <1>2. LargeOf(n) = <<"lt", n[2]>>
    BY <1>1 DEF LargeOf, IsTree
  <1>3. \A m \in Entries[n[2]] : Has(cas[g], m) /\ m \in Objects
    BY <1>1, <1>2, Strong, StorageAssumption DEF TreeInvariant, Has
  <1>4. \A m \in Objects : m \notin KeyNodes
    BY NodeKinds
  <1> QED BY <1>3, <1>4 DEF Offers

(* An object a generation offers in split form can be spliced there. *)
LEMMA SpliceOffered ==
    ASSUME StorageInv, NEW g \in Generations, NEW n \in Objects, LargeOf(n) \in cas[g]
    PROVE  Spliceable(g, n)
  <1>1. LargeOf(n) \in LargeItems /\ LargeOf(n)[2] = n[2]
    BY LargeOfKind
  <1>2. n[2] \in Splittable /\ Parts(n[2]) \subseteq cas[g]
    BY <1>1 DEF StorageInv, LargeInvariant
  <1> QED BY <1>2 DEF Spliceable

LEMMA EntryServed ==
    ASSUME StorageInv, SmallValues, ~ IgnoredWritesFail, NEW g \in Generations, NEW k \in Keys,
           cache[g][k] # NoValue
    PROVE  /\ Readable(g, k)
           /\ \A m \in UplinkedWith(k, cache[g][k]) : Offers(g, m, cas, cache)
  <1> DEFINE v == cache[g][k]
             b == <<"f", ValueBlob[v]>>
  <1>1. v \in Values
    BY DEF StorageInv, TypeOK
  <1>2. \A m \in Needs(v) : IF IsKey(m) THEN cache[g][m[2]] # NoValue ELSE Has(cas[g], m)
    BY Strong DEF CacheInvariant
  <1>3. Needs(v) \subseteq Objects \cup KeyNodes /\ b \in BlobItems
    BY <1>1, NeedsKind
  <1> HIDE DEF v
  <1>4. b \in Needs(v) /\ ~ IsKey(b) /\ b \in Objects /\ b[2] = ValueBlob[v]
    BY <1>3, NodeKinds DEF Needs, IsKey
  <1>5. Has(cas[g], b)
    BY <1>2, <1>4
  <1>6. b[2] \notin Splittable
    BY <1>1, <1>4 DEF SmallValues
  <1>7. LargeOf(b) \notin cas[g]
    BY <1>4, <1>6, SpliceOffered DEF Spliceable
  <1>8. b \in cas[g]
    BY <1>5, <1>7 DEF Has
  <1>9. Readable(g, k)
    BY <1>8 DEF Readable, v
  <1>10. UplinkedWith(k, v) \subseteq Needs(v)
    BY DEF UplinkedWith, Needs
  <1>11. \A m \in Needs(v) : Offers(g, m, cas, cache)
    <2> SUFFICES ASSUME NEW m \in Needs(v) PROVE Offers(g, m, cas, cache)
      OBVIOUS
    <2>1. m \in Nodes
      BY <1>3, NodeKinds
    <2>2. IsKey(m) <=> m \in KeyNodes
      BY <2>1, Tests
    <2>3. IF IsKey(m) THEN cache[g][m[2]] # NoValue ELSE Has(cas[g], m)
      BY <1>2
    <2> QED BY <2>2, <2>3 DEF Offers
  <1> QED BY <1>9, <1>10, <1>11 DEF v

(* A nested call is only made for what its generation offers.  A call       *)
(* returns true, promotes what its generation offers first, or fails for    *)
(* want of the node itself.                                                 *)
CallServed(p, n, S) ==
    \/ ReturnTrue(p, n, S)
    \/ \E todo \in SUBSET Nodes, large \in {"no", "due", "done"} :
          /\ Descend(p, n, S, todo, large)
          /\ \A m \in todo : Offers(at[p], m, cas, cache)
    \/ ReturnFalse(p, n, S) /\ ~ Offers(at[p], n, cas, cache)

LEMMA BlobServed ==
    ASSUME StorageInv, NEW p \in Threads, NEW n \in BlobItems, NEW S,
           LocalUplinkBlob(p, n, S)
    PROVE  CallServed(p, n, S)
  <1>1. /\ n \in Objects /\ n \notin LargeItems /\ n \notin KeyNodes
        /\ at[p] \in Generations
    BY NodeKinds DEF StorageInv, TypeOK
  <1>2. CASE Descend(p, n, S, {}, "no") \/ Descend(p, n, S, {}, "due")
    BY <1>2 DEF CallServed
  <1>3. CASE ReturnFalse(p, n, S) /\ n \notin cas[at[p]] /\ ~ Spliceable(at[p], n)
    <2>1. ~ Has(cas[at[p]], n)
      BY <1>1, <1>3, SpliceOffered DEF Has
    <2> QED BY <1>1, <1>3, <2>1 DEF CallServed, Offers
  <1> QED BY <1>2, <1>3 DEF LocalUplinkBlob

LEMMA GitTreeServed ==
    ASSUME StorageInv, ~ IgnoredWritesFail, NEW p \in Threads, NEW n \in TreeItems, NEW S,
           LocalUplinkGitTree(p, n, S)
    PROVE  CallServed(p, n, S)
  <1>1. /\ n \in Objects /\ n \notin LargeItems /\ n \notin KeyNodes
        /\ at[p] \in Generations
    BY NodeKinds DEF StorageInv, TypeOK
  <1> DEFINE todo == Entries[n[2]]
  <1>2. todo \in SUBSET Nodes
    BY NodeKinds, StorageAssumption
  <1>3. CASE Has(cas[at[p]], n)
    <2>1. \A m \in todo : Offers(at[p], m, cas, cache)
      BY <1>1, <1>3, TreeServed
    <2>2. n \in cas[at[p]] \/ Spliceable(at[p], n)
      BY <1>1, <1>3, SpliceOffered DEF Has
    <2>3. \E large \in {"no", "due", "done"} : Descend(p, n, S, todo, large)
      BY <2>2 DEF LocalUplinkGitTree
    <2> HIDE DEF todo
    <2> QED BY <1>2, <2>1, <2>3 DEF CallServed
  <1>4. CASE ~ Has(cas[at[p]], n)
    <2>1. n \notin cas[at[p]] /\ ~ Spliceable(at[p], n)
      BY <1>4 DEF Has, Spliceable
    <2>2. ReturnFalse(p, n, S)
      BY <2>1 DEF LocalUplinkGitTree
    <2> QED BY <1>1, <1>4, <2>2 DEF CallServed, Offers
  <1> QED BY <1>3, <1>4

LEMMA LargeObjectServed ==
    ASSUME StorageInv, NEW p \in Threads, NEW n \in LargeItems, NEW S,
           LocalUplinkLarge(p, n, S)
    PROVE  CallServed(p, n, S)
  <1>1. at[p] \in Generations
    BY DEF StorageInv, TypeOK
  <1>2. CASE n \in cas[at[p]]
    <2> DEFINE todo == Parts(n[2])
    <2>1. \A m \in todo : Offers(at[p], m, cas, cache)
      BY <1>1, <1>2, LargeServed
    <2>2. n[2] \in Splittable
      BY <1>1, <1>2 DEF StorageInv, LargeInvariant
    <2>3. todo \in SUBSET Nodes
      BY <2>2, PartsKind, NodeKinds
    <2>4. Descend(p, n, S, todo, "no")
      BY <1>2 DEF LocalUplinkLarge
    <2> HIDE DEF todo
    <2> QED BY <2>1, <2>3, <2>4 DEF CallServed
  <1>3. CASE n \notin cas[at[p]]
    BY <1>3 DEF LocalUplinkLarge, CallServed
  <1> QED BY <1>2, <1>3

LEMMA EntryCallServed ==
    ASSUME StorageInv, SmallValues, ~ IgnoredWritesFail, NEW p \in Threads, NEW n \in KeyNodes, NEW S,
           LocalUplinkEntry(p, n, S)
    PROVE  CallServed(p, n, S)
  <1> DEFINE g == at[p]
             todo == UplinkedWith(n[2], cache[g][n[2]])
  <1>1. g \in Generations /\ n[2] \in Keys
    BY NodeKinds DEF StorageInv, TypeOK
  <1>2. CASE cache[g][n[2]] # NoValue
    <2>1. Readable(g, n[2]) /\ \A m \in todo : Offers(g, m, cas, cache)
      BY <1>1, <1>2, EntryServed
    <2>2. cache[g][n[2]] \in Values
      BY <1>1, <1>2 DEF StorageInv, TypeOK
    <2>3. todo \in SUBSET Nodes
      BY <1>1, <2>2, UplinkedKind, NodeKinds
    <2>4. Descend(p, n, S, todo, "no")
      BY <2>1 DEF LocalUplinkEntry
    <2> HIDE DEF todo
    <2> QED BY <2>1, <2>3, <2>4 DEF CallServed
  <1>3. CASE cache[g][n[2]] = NoValue
    <2>1. ReturnFalse(p, n, S)
      BY <1>3 DEF LocalUplinkEntry, Readable
    <2> QED BY <1>3, <2>1 DEF CallServed, Offers
  <1> QED BY <1>2, <1>3

LEMMA LocalUplinkServed ==
    ASSUME StorageInv, SmallValues, ~ IgnoredWritesFail, NEW p \in Threads, NEW n, NEW S, LocalUplink(p, n, S)
    PROVE  CallServed(p, n, S)
  <1>1. CASE InYoungest(n)
    BY <1>1 DEF LocalUplink, CallServed
  <1>2. CASE ~ InYoungest(n)
    BY <1>2, BlobServed, GitTreeServed, LargeObjectServed, EntryCallServed DEF LocalUplink
  <1> QED BY <1>1, <1>2

-----------------------------------------------------------------------------
(* What a step of a build thread p does to retention. *)
Retains(p) ==
    /\ Promises'
    /\ \A q \in Threads \ {p} : faulted'[q] = faulted[q] /\ promised'[q] = promised[q]
    /\ ThreadServed(p)'

LEMMA OtherServed ==
    ASSUME StorageInv, NEW q \in Threads, ThreadServed(q), Grows(cas, cache, cas', cache'),
           phase'[q] = phase[q], goals'[q] = goals[q], at'[q] = at[q], stack'[q] = stack[q],
           faulted'[q] = faulted[q], promised'[q] = promised[q]
    PROVE  ThreadServed(q)'
  <1>1. Current(q)' = Current(q) /\ at[q] \in Generations
    BY DEF Current, StorageInv, TypeOK
  <1>2. Served(stack[q], at[q], cas', cache')
    BY <1>1, ServedGrows DEF ThreadServed
  <1>3. Sought(q)'
    <2> SUFFICES ASSUME promised[q], ~ faulted[q], phase[q] # "idle"
                 PROVE  \E g \in Generations : /\ Offers(g, Current(q).node, cas', cache')
                                               /\ \/ at[q] < g
                                                  \/ at[q] = g /\ phase[q] # "false"
      BY <1>1 DEF Sought
    <2>1. PICK g \in Generations : /\ Offers(g, Current(q).node, cas, cache)
                                   /\ at[q] < g \/ (at[q] = g /\ phase[q] # "false")
      BY DEF ThreadServed, Sought
    <2>2. Offers(g, Current(q).node, cas', cache')
      BY <2>1, OffersGrows
    <2> QED BY <2>1, <2>2
  <1> QED BY <1>2, <1>3 DEF ThreadServed

LEMMA RetainsKeeps ==
    ASSUME StorageInv, RetentionInv, NEW p \in Threads, StepOf(p), Retains(p)
    PROVE  RetentionInv'
  <1>1. ASSUME NEW q \in Threads PROVE ThreadServed(q)'
    <2>1. CASE q = p
      BY <2>1 DEF Retains
    <2>2. CASE q # p
      BY <2>2, OtherServed DEF RetentionInv, StepOf, Retains, Justified
    <2> QED BY <2>1, <2>2
  <1> QED BY <1>1 DEF RetentionInv, Retains

(* Promises stay kept as files are added. *)
LEMMA PromisesGrow ==
    ASSUME RetentionInv, Grows(cas, cache, cas', cache'), UNCHANGED ghostVars
    PROVE  Promises'
  BY OffersGrows, NodeKinds DEF RetentionInv, Promises, ghostVars

LEMMA ReferenceGrows ==
    ASSUME RetentionInv, ~ IgnoredWritesFail, Grows(cas, cache, cas', cache'), NEW n, Reference(n),
           n \in LargeItems \/ Present(n, cas', cache')
    PROVE  Promises'
  <1>1. Offers(0, n, cas', cache')
    <2>1. n \in LargeItems => n \notin KeyNodes
      BY LargeKind
    <2> QED BY <2>1, Strong DEF Offers, Present
  <1>2. \A m \in referenced : Offers(0, m, cas', cache')
    BY OffersGrows, NodeKinds DEF RetentionInv, Promises
  <1>3. \A m \in kept : 1 \in Generations /\ Offers(1, m, cas', cache')
    BY OffersGrows DEF RetentionInv, Promises
  <1> QED BY <1>1, <1>2, <1>3 DEF Reference, Promises

(* A thread that turns to a promised node finds it in generation 0 or 1. *)
LEMMA PursueRetains ==
    ASSUME StorageInv, RetentionInv, NEW p \in Threads, phase[p] # "run", StepOf(p),
           NEW gs, Pursue(p, gs), Promises'
    PROVE  Retains(p)
  <1>1. /\ goals'[p] = gs /\ at'[p] = 0 /\ stack'[p] = <<>>
        /\ phase'[p] = IF gs = <<>> THEN "idle" ELSE "enter"
        /\ promised'[p] = (gs # <<>> /\ gs[1].node \in referenced \cup kept)
        /\ \A q \in Threads \ {p} : faulted'[q] = faulted[q] /\ promised'[q] = promised[q]
    BY DEF Pursue, StorageInv, TypeOK, ThreadOK
  <1>2. Grows(cas, cache, cas', cache')
    BY DEF StepOf, Justified
  <1>3. Served(<<>>, 0, cas', cache')
    BY EmptySeq DEF Served
  <1>4. Sought(p)'
    <2> SUFFICES ASSUME promised'[p], phase'[p] # "idle"
                 PROVE  \E g \in Generations : /\ Offers(g, gs[1].node, cas', cache')
                                               /\ 0 < g \/ (0 = g /\ phase'[p] # "false")
      BY <1>1 DEF Sought, Current
    <2>1. gs[1].node \in referenced \/ gs[1].node \in kept
      BY <1>1
    <2>2. phase'[p] # "false"
      BY <1>1
    <2>3. CASE gs[1].node \in referenced
      <3>1. 0 \in Generations /\ Offers(0, gs[1].node, cas', cache')
        BY <1>2, <2>3, OffersGrows, NodeKinds DEF RetentionInv, Promises
      <3> QED BY <2>2, <3>1
    <2>4. CASE gs[1].node \in kept
      <3>1. 1 \in Generations /\ Offers(1, gs[1].node, cas', cache')
        BY <1>2, <2>4, OffersGrows DEF RetentionInv, Promises
      <3>2. 0 < 1
        OBVIOUS
      <3> QED BY <3>1, <3>2
    <2> QED BY <2>1, <2>3, <2>4
  <1> QED BY <1>1, <1>3, <1>4 DEF Retains, ThreadServed

LEMMA QuietRetains ==
    ASSUME StorageInv, RetentionInv, NEW p \in Threads, phase[p] # "run", StepOf(p),
           NEW gs, Pursue(p, gs), UNCHANGED ghostVars
    PROVE  Retains(p)
  <1>1. Grows(cas, cache, cas', cache')
    BY DEF StepOf, Justified
  <1> QED BY <1>1, PromisesGrow, PursueRetains

LEMMA ReferenceRetains ==
    ASSUME StorageInv, RetentionInv, ~ IgnoredWritesFail, NEW p \in Threads, phase[p] # "run", StepOf(p),
           NEW gs, Pursue(p, gs), NEW n, Reference(n),
           n \in LargeItems \/ Present(n, cas', cache')
    PROVE  Retains(p)
  <1>1. Grows(cas, cache, cas', cache')
    BY DEF StepOf, Justified
  <1> QED BY <1>1, ReferenceGrows, PursueRetains

LEMMA HitPresent ==
    ASSUME StorageInv, NEW p \in Threads, Hit(p), UNCHANGED <<cas, cache>>
    PROVE  /\ phase[p] # "run"
           /\ Current(p).node \in LargeItems \/ Present(Current(p).node, cas', cache')
  BY HitOK

(* The steps that turn a thread to other goals and reference nothing. *)
LEMMA QuietStepsRetain ==
    ASSUME StorageInv, RetentionInv, NEW p \in Threads,
           \/ Begin(p) \/ Pose(p) \/ FoundLargeEntry(p) \/ SplitExecutable(p)
           \/ TrySyncBlob(p) \/ Splice(p) \/ Miss(p) \/ WriteFails(p)
    PROVE  Retains(p)
  <1>1. StepOf(p)
    BY BeginKeeps, PoseKeeps, FoundLargeEntryKeeps, SplitExecutableKeeps, TrySyncBlobKeeps,
       SpliceKeeps, MissKeeps, WriteFailsKeeps
  <1>2. UNCHANGED ghostVars
    BY DEF Begin, Pose, FoundLargeEntry, SplitExecutable, TrySyncBlob, Splice, Miss, WriteFails
  <1>3. phase[p] # "run"
    BY HitOK, MissedOK
       DEF Begin, Pose, FoundLargeEntry, SplitExecutable, TrySyncBlob, Splice, Miss,
           WriteFails, Performs
  <1>4. \E gs : Pursue(p, gs)
    BY DEF Begin, Pose, FoundLargeEntry, SplitExecutable, TrySyncBlob, Splice, Miss,
           WriteFails, Finish, Become, GiveUp
  <1> QED BY <1>1, <1>2, <1>3, <1>4, QuietRetains

LEMMA FoundRetains ==
    ASSUME StorageInv, RetentionInv, ~ IgnoredWritesFail, NEW p \in Threads,
           Found(p) \/ FoundCacheEntry(p) \/ FoundToSplit(p)
    PROVE  Retains(p)
  <1>1. StepOf(p)
    BY FoundKeeps, FoundCacheEntryKeeps, FoundToSplitKeeps
  <1>2. Hit(p) /\ Reference(Current(p).node) /\ UNCHANGED <<cas, cache>>
    BY DEF Found, FoundCacheEntry, FoundToSplit
  <1>3. \E gs : Pursue(p, gs)
    BY DEF Found, FoundCacheEntry, FoundToSplit, Finish, Become
  <1> QED BY <1>1, <1>2, <1>3, HitPresent, ReferenceRetains

(* The steps that store the node of a goal, or conclude that it is there. *)
LEMMA StoreObjectRetains ==
    ASSUME StorageInv, RetentionInv, ~ IgnoredWritesFail, NEW p \in Threads, StoreObject(p)
    PROVE  Retains(p)
  <1> SUFFICES ASSUME NEW n, n = Current(p).node PROVE Retains(p)
    OBVIOUS
  <1>1. /\ Missed(p) /\ Current(p).mode \in {"create", "add", "sync", "resplice"}
        /\ AddFile(0, {n}) /\ Finish(p) /\ Reference(n)
    BY DEF StoreObject
  <1>2. phase[p] \in {"enter", "true", "false"} /\ phase[p] # "run"
    BY <1>1, MissedOK
  <1>3. n \in Objects
    BY <1>1, <1>2, AtGoal, NodeKinds DEF GoalOK
  <1>4. n \notin KeyNodes /\ n \in cas'[0]
    BY <1>1, <1>3, NodeKinds DEF AddFile, StorageInv, TypeOK
  <1>5. Present(n, cas', cache')
    BY <1>4 DEF Present, Vouched, Has
  <1>6. StepOf(p) /\ \E gs : Pursue(p, gs)
    BY <1>1, StoreObjectKeeps DEF Finish
  <1> QED BY <1>1, <1>2, <1>5, <1>6, ReferenceRetains

LEMMA ConcludeRetains ==
    ASSUME StorageInv, RetentionInv, ~ IgnoredWritesFail, NEW p \in Threads, Conclude(p)
    PROVE  Retains(p)
  <1> SUFFICES ASSUME NEW n, n = Current(p).node PROVE Retains(p)
    OBVIOUS
  <1>1. /\ phase[p] = "enter" /\ Current(p).mode \notin {"enter", "write"}
        /\ Current(p).todo = {} /\ ~ Uplinks(Current(p))
        /\ Finish(p) /\ Reference(n) /\ UNCHANGED <<cas, cache>>
    BY DEF Conclude, Performs
  <1>2. GoalOK(Current(p), cas, cache)
    BY <1>1, AtGoal
  <1>3. Present(n, cas', cache')
    <2>1. CASE Current(p).mode = "value"
      BY <1>1, <1>2, <2>1 DEF GoalOK, Present
    <2>2. CASE Current(p).mode = "check" /\ LargeOf(n) \in cas[0]
      <3>1. n \notin KeyNodes
        BY <1>2, <2>2, NodeKinds DEF GoalOK
      <3> QED BY <1>1, <2>2, <3>1 DEF Present, Vouched, Has
    <2> QED BY <1>1, <2>1, <2>2 DEF Uplinks
  <1>4. StepOf(p) /\ phase[p] # "run" /\ \E gs : Pursue(p, gs)
    BY <1>1, ConcludeKeeps DEF Finish
  <1> QED BY <1>1, <1>3, <1>4, ReferenceRetains

LEMMA WriteEntryRetains ==
    ASSUME StorageInv, RetentionInv, ~ IgnoredWritesFail, NEW p \in Threads, WriteEntry(p)
    PROVE  Retains(p)
  <1>1. /\ phase[p] = "enter" /\ Current(p).mode = "enter"
        /\ Finish(p) /\ Reference(Current(p).node)
    BY DEF WriteEntry, Performs
  <1>2. Current(p).node \in LargeItems
    BY <1>1, AtGoal DEF GoalOK
  <1>3. StepOf(p) /\ phase[p] # "run" /\ \E gs : Pursue(p, gs)
    BY <1>1, WriteEntryKeeps DEF Finish
  <1> QED BY <1>1, <1>2, <1>3, ReferenceRetains

LEMMA StoreResultRetains ==
    ASSUME StorageInv, RetentionInv, ~ IgnoredWritesFail, NEW p \in Threads, StoreResult(p)
    PROVE  Retains(p)
  <1> SUFFICES ASSUME NEW n, n = Current(p).node, NEW v, v = Current(p).value
               PROVE  Retains(p)
    OBVIOUS
  <1>1. /\ phase[p] = "enter" /\ Current(p).mode = "write"
        /\ cache' = [cache EXCEPT ![0][n[2]] = v] /\ Finish(p) /\ Reference(n)
    BY DEF StoreResult, Performs
  <1>2. n \in KeyNodes /\ v \in Values
    BY <1>1, AtGoal DEF GoalOK
  <1>3. n[2] \in Keys /\ v # NoValue /\ 0 \in Generations
    BY <1>2, NodeKinds, StorageAssumption
  <1>4. cache'[0][n[2]] # NoValue
    BY <1>1, <1>3 DEF StorageInv, TypeOK
  <1>5. Present(n, cas', cache')
    BY <1>2, <1>4 DEF Present
  <1>6. StepOf(p) /\ phase[p] # "run" /\ \E gs : Pursue(p, gs)
    BY <1>1, StoreResultKeeps DEF Finish
  <1> QED BY <1>1, <1>5, <1>6, ReferenceRetains

LEMMA NextGenerationRetains ==
    ASSUME StorageInv, RetentionInv, NEW p \in Threads, NextGeneration(p)
    PROVE  Retains(p)
  <1>1. /\ phase[p] = "false"
        /\ at' = [at EXCEPT ![p] = @ + 1] /\ phase' = [phase EXCEPT ![p] = "enter"]
        /\ UNCHANGED <<cas, cache, goals, stack, faulted, promised, ghostVars>>
    BY DEF NextGeneration
  <1>2. at'[p] = at[p] + 1 /\ phase'[p] = "enter" /\ Current(p)' = Current(p) /\ stack'[p] = <<>>
    BY <1>1 DEF StorageInv, TypeOK, ThreadOK, Current
  <1>3. at[p] \in Nat
    BY DEF StorageInv, TypeOK, Generations
  <1>4. Sought(p)'
    <2> SUFFICES ASSUME promised[p], ~ faulted[p]
                 PROVE  \E g \in Generations : /\ Offers(g, Current(p).node, cas, cache)
                                               /\ at[p] + 1 < g \/ at[p] + 1 = g
      BY <1>1, <1>2 DEF Sought
    <2>1. PICK g \in Generations : Offers(g, Current(p).node, cas, cache) /\ at[p] < g
      BY <1>1 DEF RetentionInv, ThreadServed, Sought
    <2>2. g \in Nat
      BY DEF Generations
    <2>3. at[p] + 1 < g \/ at[p] + 1 = g
      BY <1>3, <2>1, <2>2
    <2> QED BY <2>1, <2>3
  <1>5. Served(<<>>, at'[p], cas', cache')
    BY EmptySeq DEF Served
  <1>6. Promises'
    BY <1>1 DEF RetentionInv, Promises, ghostVars
  <1> QED BY <1>1, <1>2, <1>4, <1>5, <1>6 DEF Retains, ThreadServed

LEMMA SharedLockRetains ==
    ASSUME StorageInv, RetentionInv, NEW p \in Threads, SharedLock(p)
    PROVE  Retains(p)
  <1>1. UNCHANGED <<cas, cache, phase, goals, at, stack, faulted, promised, ghostVars>>
    BY DEF SharedLock
  <1> QED BY <1>1 DEF RetentionInv, Retains, Promises, ThreadServed, Sought, Current, ghostVars

LEMMA EndBuildRetains ==
    ASSUME StorageInv, RetentionInv, NEW p \in Threads, EndBuild(p)
    PROVE  Retains(p)
  <1>1. /\ phase' = [phase EXCEPT ![p] = "idle"] /\ stack' = [stack EXCEPT ![p] = <<>>]
        /\ faulted' = [faulted EXCEPT ![p] = FALSE]
        /\ promised' = [promised EXCEPT ![p] = FALSE]
        /\ UNCHANGED <<cas, cache, ghostVars>>
    BY DEF EndBuild
  <1>2. stack'[p] = <<>> /\ phase'[p] = "idle"
    BY <1>1 DEF StorageInv, TypeOK
  <1>3. Served(<<>>, at'[p], cas', cache')
    BY EmptySeq DEF Served
  <1>4. \A q \in Threads \ {p} : faulted'[q] = faulted[q] /\ promised'[q] = promised[q]
    BY <1>1 DEF StorageInv, TypeOK
  <1> QED BY <1>1, <1>2, <1>3, <1>4
          DEF RetentionInv, Retains, Promises, ThreadServed, Sought, ghostVars

-----------------------------------------------------------------------------
(* An uplink's calls: thread p goes on with the stack T in phase ph. *)
LEMMA UplinkRetains ==
    ASSUME StorageInv, RetentionInv, NEW p \in Threads, StepOf(p), phase[p] # "idle",
           NEW T, NEW ph,
           stack' = [stack EXCEPT ![p] = T], phase' = [phase EXCEPT ![p] = ph],
           UNCHANGED <<goals, at, promised, faulted, ghostVars>>,
           Served(T, at[p], cas', cache'),
           ph = "false" => ~ Offers(at[p], Current(p).node, cas, cache)
    PROVE  Retains(p)
  <1>1. Grows(cas, cache, cas', cache')
    BY DEF StepOf, Justified
  <1>2. stack'[p] = T /\ phase'[p] = ph /\ at'[p] = at[p] /\ Current(p)' = Current(p)
    BY DEF StorageInv, TypeOK, Current
  <1>3. Sought(p)'
    <2> SUFFICES ASSUME promised[p], ~ faulted[p]
                 PROVE  \E g \in Generations : /\ Offers(g, Current(p).node, cas', cache')
                                               /\ at[p] < g \/ (at[p] = g /\ ph # "false")
      BY <1>2 DEF Sought
    <2>1. PICK g \in Generations : /\ Offers(g, Current(p).node, cas, cache)
                                   /\ at[p] < g \/ (at[p] = g /\ phase[p] # "false")
      BY DEF RetentionInv, ThreadServed, Sought
    <2>2. Offers(g, Current(p).node, cas', cache')
      BY <1>1, <2>1, OffersGrows
    <2>3. at[p] < g \/ (at[p] = g /\ ph # "false")
      BY <2>1
    <2> QED BY <2>2, <2>3
  <1>4. Promises'
    BY <1>1, PromisesGrow
  <1> QED BY <1>2, <1>3, <1>4 DEF Retains, ThreadServed

LEMMA ReturnTrueRetains ==
    ASSUME StorageInv, RetentionInv, NEW p \in Threads, StepOf(p), phase[p] # "idle",
           NEW S \in Seq(Frames), NEW n, ReturnTrue(p, n, S),
           UNCHANGED <<goals, at, promised, faulted, ghostVars>>,
           Served(S, at[p], cas, cache)
    PROVE  Retains(p)
  <1> DEFINE T == IF S = <<>> THEN S ELSE Pop(S, n)
             ph == IF S = <<>> THEN "true" ELSE "run"
  <1>1. Grows(cas, cache, cas', cache') /\ at[p] \in Generations
    BY DEF StepOf, Justified, StorageInv, TypeOK
  <1>2. Served(S, at[p], cas', cache')
    BY <1>1, ServedGrows
  <1>3. Served(T, at[p], cas', cache')
    BY <1>2, PopServed
  <1>4. stack' = [stack EXCEPT ![p] = T] /\ phase' = [phase EXCEPT ![p] = ph] /\ ph # "false"
    BY DEF ReturnTrue
  <1> HIDE DEF T, ph
  <1> QED BY <1>3, <1>4, UplinkRetains

LEMMA LocalUplinkRetains ==
    ASSUME StorageInv, RetentionInv, SmallValues, ~ IgnoredWritesFail, NEW p \in Threads, StepOf(p),
           phase[p] # "idle", NEW n \in Nodes, NEW S \in Seq(Frames), LocalUplink(p, n, S),
           Served(S, at[p], cas, cache),
           IF S = <<>> THEN n = Current(p).node ELSE Offers(at[p], n, cas, cache)
    PROVE  Retains(p)
  <1>1. UNCHANGED <<goals, at, promised, faulted, ghostVars>>
    BY DEF LocalUplink
  <1>2. CallServed(p, n, S)
    BY LocalUplinkServed
  <1>3. CASE ReturnTrue(p, n, S)
    BY <1>1, <1>3, ReturnTrueRetains
  <1>4. CASE \E todo \in SUBSET Nodes, large \in {"no", "due", "done"} :
                /\ Descend(p, n, S, todo, large)
                /\ \A m \in todo : Offers(at[p], m, cas, cache)
    <2>1. PICK todo \in SUBSET Nodes, large \in {"no", "due", "done"} :
                /\ Descend(p, n, S, todo, large)
                /\ \A m \in todo : Offers(at[p], m, cas, cache)
      BY <1>4
    <2> DEFINE T == Push(S, n, todo, large)
    <2>2. Served(T, at[p], cas, cache)
      BY <2>1, PushServed
    <2>3. stack' = [stack EXCEPT ![p] = T] /\ phase' = [phase EXCEPT ![p] = "run"]
      BY <2>1 DEF Descend
    <2> HIDE DEF T
    <2>4. Served(T, at[p], cas', cache')
      BY <2>2, ServedGrows DEF StepOf, Justified, StorageInv, TypeOK
    <2> QED BY <1>1, <2>3, <2>4, UplinkRetains
  <1>5. CASE ReturnFalse(p, n, S) /\ ~ Offers(at[p], n, cas, cache)
    <2>1. S = <<>> /\ n = Current(p).node
      BY <1>5
    <2>2. n \notin LargeItems
      BY <1>5, LargeKind DEF Offers
    <2>3. stack' = [stack EXCEPT ![p] = <<>>] /\ phase' = [phase EXCEPT ![p] = "false"]
      BY <1>5, <2>1, <2>2, Tests DEF ReturnFalse
    <2>4. Served(<<>>, at[p], cas', cache')
      BY EmptySeq DEF Served
    <2> QED BY <1>1, <1>5, <2>1, <2>3, <2>4, UplinkRetains
  <1> QED BY <1>2, <1>3, <1>4, <1>5 DEF CallServed

LEMMA UplinkStartRetains ==
    ASSUME StorageInv, RetentionInv, SmallValues, ~ IgnoredWritesFail, NEW p \in Threads, Uplink(p)
    PROVE  Retains(p)
  <1>1. phase[p] = "enter" /\ LocalUplink(p, Current(p).node, <<>>)
    BY DEF Uplink
  <1>2. Current(p).node \in Nodes
    BY <1>1, CurrentOK
  <1>3. Served(<<>>, at[p], cas, cache) /\ <<>> \in Seq(Frames)
    BY EmptySeq DEF Served
  <1> QED BY <1>1, <1>2, <1>3, UplinkKeeps, LocalUplinkRetains

LEMMA UplinkChildRetains ==
    ASSUME StorageInv, RetentionInv, SmallValues, ~ IgnoredWritesFail, NEW p \in Threads, UplinkChild(p)
    PROVE  Retains(p)
  <1>1. phase[p] = "run"
    BY DEF UplinkChild
  <1>2. PICK n \in Top(p).todo : LocalUplink(p, n, stack[p])
    BY DEF UplinkChild
  <1>3. /\ n \in Nodes /\ stack[p] \in Seq(Frames) /\ stack[p] # <<>>
        /\ Len(stack[p]) \in 1 .. Len(stack[p])
    BY <1>1, <1>2, RunOK DEF StorageInv, TypeOK
  <1>4. Served(stack[p], at[p], cas, cache)
    BY DEF RetentionInv, ThreadServed
  <1>5. Offers(at[p], n, cas, cache)
    BY <1>2, <1>3, <1>4 DEF Served, Top
  <1> QED BY <1>1, <1>2, <1>3, <1>4, <1>5, UplinkChildKeeps, LocalUplinkRetains

LEMMA UplinkLargeObjectRetains ==
    ASSUME StorageInv, RetentionInv, SmallValues, ~ IgnoredWritesFail, NEW p \in Threads, UplinkLargeObject(p)
    PROVE  Retains(p)
  <1> DEFINE n == LargeOf(Top(p).node)
  <1>1. /\ phase[p] = "run" /\ Top(p).large = "due" /\ LocalUplink(p, n, stack[p])
    BY DEF UplinkLargeObject
  <1>2. Top(p).node \in Objects /\ stack[p] # <<>> /\ stack[p] \in Seq(Frames)
    BY <1>1, RunOK DEF FrameOK, StorageInv, TypeOK
  <1>3. n \in LargeItems /\ n \in Nodes /\ n \notin KeyNodes
    BY <1>2, LargeOfKind, LargeKind
  <1>4. Served(stack[p], at[p], cas, cache)
    BY DEF RetentionInv, ThreadServed
  <1> HIDE DEF n
  <1>5. Offers(at[p], n, cas, cache)
    BY <1>3 DEF Offers
  <1> QED BY <1>1, <1>2, <1>3, <1>4, <1>5, UplinkLargeObjectKeeps, LocalUplinkRetains

LEMMA UplinkStoreRetains ==
    ASSUME StorageInv, RetentionInv, NEW p \in Threads, UplinkStore(p)
    PROVE  Retains(p)
  <1>1. /\ phase[p] = "run" /\ ReturnTrue(p, Top(p).node, Below(p))
        /\ UNCHANGED <<goals, at, promised, faulted, ghostVars>>
    BY DEF UplinkStore
  <1>2. stack[p] \in Seq(Frames) /\ stack[p] # <<>> /\ Below(p) = Callers(stack[p])
    BY <1>1, RunOK DEF StorageInv, TypeOK, Below, Callers
  <1>3. Served(stack[p], at[p], cas, cache)
    BY DEF RetentionInv, ThreadServed
  <1>4. Below(p) \in Seq(Frames) /\ Served(Below(p), at[p], cas, cache)
    BY <1>2, <1>3, CallersServed, CallersShape
  <1> QED BY <1>1, <1>4, UplinkStoreKeeps, ReturnTrueRetains

(* A call that fails on its own is an I/O error of the request. *)
LEMMA UplinkFailsRetains ==
    ASSUME StorageInv, RetentionInv, ~ IgnoredWritesFail, NEW p \in Threads, UplinkFails(p)
    PROVE  Retains(p)
  <1> DEFINE S == Below(p)
             n == Top(p).node
  <1>1. /\ phase[p] = "run" /\ ReturnFalse(p, n, S) /\ ~ IsLarge(n)
        /\ S # <<>> => ~ IsLarge(S[Len(S)].node)
        /\ UNCHANGED <<cas, cache, promised, ghostVars>>
        /\ faulted' = [faulted EXCEPT ![p] = TRUE]
    BY DEF UplinkFails
  <1>2. stack' = [stack EXCEPT ![p] = <<>>]
    BY <1>1 DEF ReturnFalse
  <1>3. stack'[p] = <<>> /\ faulted'[p]
    BY <1>1, <1>2 DEF StorageInv, TypeOK
  <1>4. \A q \in Threads \ {p} : faulted'[q] = faulted[q] /\ promised'[q] = promised[q]
    BY <1>1 DEF StorageInv, TypeOK
  <1>5. Served(<<>>, at'[p], cas', cache')
    BY EmptySeq DEF Served
  <1>6. Promises'
    BY <1>1 DEF RetentionInv, Promises, ghostVars
  <1>7. Sought(p)'
    BY <1>3 DEF Sought
  <1> QED BY <1>3, <1>4, <1>5, <1>6, <1>7 DEF Retains, ThreadServed

LEMMA BuildRetains ==
    ASSUME StorageInv, RetentionInv, SmallValues, ~ IgnoredWritesFail, NEW p \in Threads,
           Build(p)
    PROVE  RetentionInv'
  <1>1. StepOf(p)
    BY BuildStep
  <1>2. Retains(p)
    BY QuietStepsRetain, FoundRetains, StoreObjectRetains, ConcludeRetains,
       WriteEntryRetains, StoreResultRetains, NextGenerationRetains, SharedLockRetains,
       EndBuildRetains, UplinkStartRetains, UplinkChildRetains, UplinkLargeObjectRetains,
       UplinkStoreRetains, UplinkFailsRetains DEF Build
  <1> QED BY <1>1, <1>2, RetainsKeeps

-----------------------------------------------------------------------------
(* While the collector has the build root to itself no thread seeks a node. *)
LEMMA CollectRetains ==
    ASSUME StorageInv, gc # "off" \/ holds = {}, UNCHANGED buildVars, Promises'
    PROVE  RetentionInv'
  <1>1. ASSUME NEW p \in Threads PROVE ThreadServed(p)'
    <2>1. holds = {}
      BY Alone
    <2>2. phase[p] = "idle" /\ stack[p] = <<>>
      BY <2>1 DEF StorageInv, ThreadOK
    <2>3. phase'[p] = "idle" /\ stack'[p] = <<>>
      BY <2>2 DEF buildVars
    <2>4. Served(<<>>, at'[p], cas', cache')
      BY EmptySeq DEF Served
    <2> QED BY <2>3, <2>4 DEF ThreadServed, Sought
  <1> QED BY <1>1 DEF RetentionInv

(* Compactification touches the youngest generation only, and keeps what    *)
(* can be obtained from it.                                                 *)
LEMMA CompactRetains ==
    ASSUME StorageInv, RetentionInv, gc # "off" \/ holds = {},
           UNCHANGED <<cache, buildVars, ghostVars>>,
           \A n \in Objects : Has(cas[0], n) => Has(cas'[0], n),
           \A g \in Generations \ {0} : cas'[g] = cas[g]
    PROVE  RetentionInv'
  <1>1. ASSUME NEW n \in referenced PROVE Offers(0, n, cas', cache')
    <2>1. n \in KeyNodes \/ n \in LargeItems \/ n \in Objects
      BY NodeKinds DEF StorageInv, TypeOK
    <2>2. Offers(0, n, cas, cache)
      BY DEF RetentionInv, Promises
    <2> QED BY <2>1, <2>2 DEF Offers
  <1>2. ASSUME NEW n \in kept PROVE 1 \in Generations /\ Offers(1, n, cas', cache')
    <2>1. 1 \in Generations /\ Offers(1, n, cas, cache)
      BY DEF RetentionInv, Promises
    <2>2. cas'[1] = cas[1]
      BY <2>1
    <2> QED BY <2>1, <2>2 DEF Offers
  <1>3. Promises'
    BY <1>1, <1>2 DEF Promises, ghostVars
  <1> QED BY <1>3, CollectRetains

LEMMA RemoveSplicedRetains ==
    ASSUME StorageInv, RetentionInv, RemoveSpliced
    PROVE  RetentionInv'
  <1>1. gc # "off" /\ UNCHANGED <<cache, buildVars, ghostVars>>
    BY DEF RemoveSpliced
  <1>2. \A g \in Generations \ {0} : cas'[g] = cas[g]
    BY NodeKinds DEF RemoveSpliced, StorageInv, TypeOK
  <1> QED BY <1>1, <1>2, RemoveSplicedKeeps, CompactRetains

LEMMA SplitStepsRetain ==
    ASSUME StorageInv, RetentionInv, ~ IgnoredWritesFail,
           SplitStorePart \/ SplitWriteEntry \/ SplitRemove
    PROVE  RetentionInv'
  <1>1. gc # "off" /\ UNCHANGED <<cache, buildVars, ghostVars>>
    BY DEF SplitStorePart, SplitWriteEntry, SplitRemove
  <1>2. \A g \in Generations \ {0} : cas'[g] = cas[g]
    BY NodeKinds DEF SplitStorePart, SplitWriteEntry, SplitRemove, AddFile, StorageInv, TypeOK
  <1>3. \A n \in Objects : Has(cas[0], n) => Has(cas'[0], n)
    BY SplitStorePartKeeps, SplitWriteEntryKeeps, SplitRemoveKeeps, NodeKinds
       DEF Grows, Has, Unrecorded
  <1> QED BY <1>1, <1>2, <1>3, CompactRetains

LEMMA OtherCollectStepsRetain ==
    ASSUME StorageInv, RetentionInv,
           \/ TriggerGarbageCollection \/ FilterEntries \/ SplitFails \/ Compactified
           \/ EndCollection
    PROVE  RetentionInv'
  <1>1. UNCHANGED <<cas, cache, buildVars, ghostVars>> /\ (gc # "off" \/ holds = {})
    BY DEF TriggerGarbageCollection, FilterEntries, SplitFails, Compactified, EndCollection
  <1> QED BY <1>1, CompactRetains

(* A rotation moves what was referenced into generation 1, and no earlier   *)
(* rename touches the youngest generation.                                  *)
LEMMA RenameRetains ==
    ASSUME StorageInv, RetentionInv, Rename
    PROVE  RetentionInv'
  <1> DEFINE from == index - 1
             none == [k \in Keys |-> NoValue]
  <1>1. /\ gc \in {"rotate", "all"} /\ index > 0 /\ UNCHANGED buildVars
        /\ cas' = IF gc = "rotate" /\ index < N
                  THEN [cas EXCEPT ![index] = cas[from], ![from] = {}]
                  ELSE [cas EXCEPT ![from] = {}]
        /\ cache' = IF gc = "rotate" /\ index < N
                    THEN [cache EXCEPT ![index] = cache[from], ![from] = none]
                    ELSE [cache EXCEPT ![from] = none]
        /\ kept' = IF gc = "rotate" /\ from = 0 /\ N > 1 THEN referenced ELSE {}
        /\ referenced' = IF from = 0 THEN {} ELSE referenced
    BY DEF Rename
  <1>2. TypeOK /\ gc # "off" /\ index \in 0 .. N /\ N \in Nat \ {0}
    BY <1>1, StorageAssumption DEF StorageInv, TypeOK
  <1>3. from \in Generations /\ 0 \in Generations /\ (index < N => index \in Generations)
    BY <1>1, <1>2 DEF Generations
  <1>4. ASSUME from # 0 PROVE cas'[0] = cas[0] /\ cache'[0] = cache[0]
    <2>1. from # 0 /\ index # 0
      BY <1>4, <1>1
    <2> HIDE DEF from, none
    <2> QED BY <1>1, <1>2, <1>3, <2>1 DEF TypeOK
  <1>5. ASSUME gc = "rotate", from = 0, N > 1
        PROVE  1 \in Generations /\ cas'[1] = cas[0] /\ cache'[1] = cache[0]
    <2>1. index = 1 /\ index < N /\ 1 \in Generations
      BY <1>2, <1>5 DEF Generations
    <2>2. /\ cas' = [cas EXCEPT ![1] = cas[0], ![0] = {}]
          /\ cache' = [cache EXCEPT ![1] = cache[0], ![0] = none]
      BY <1>1, <1>5, <2>1
    <2> HIDE DEF none
    <2> QED BY <1>2, <2>1, <2>2 DEF TypeOK
  <1> HIDE DEF from, none
  <1>6. ASSUME NEW n \in referenced' PROVE Offers(0, n, cas', cache')
    <2>1. from # 0 /\ n \in referenced
      BY <1>1, <1>6
    <2> QED BY <1>4, <2>1 DEF RetentionInv, Promises, Offers
  <1>7. ASSUME NEW n \in kept' PROVE 1 \in Generations /\ Offers(1, n, cas', cache')
    <2>1. gc = "rotate" /\ from = 0 /\ N > 1 /\ n \in referenced
      BY <1>1, <1>7
    <2>2. Offers(0, n, cas, cache)
      BY <2>1 DEF RetentionInv, Promises
    <2> QED BY <1>5, <2>1, <2>2 DEF Offers
  <1>8. Promises'
    BY <1>6, <1>7 DEF Promises
  <1> QED BY <1>1, <1>2, <1>8, CollectRetains

LEMMA InitRetains ==
    ASSUME Init
    PROVE  RetentionInv
  <1>1. ASSUME NEW p \in Threads PROVE ThreadServed(p)
    <2>1. phase[p] = "idle" /\ stack[p] = <<>>
      BY DEF Init
    <2>2. Served(<<>>, at[p], cas, cache)
      BY EmptySeq DEF Served
    <2> QED BY <2>1, <2>2 DEF ThreadServed, Sought
  <1> QED BY <1>1 DEF Init, RetentionInv, Promises

LEMMA NextRetains ==
    ASSUME StorageInv, RetentionInv, SmallValues, ~ IgnoredWritesFail, [Next]_vars
    PROVE  RetentionInv'
  <1>1. CASE UNCHANGED vars
    <2>1. /\ UNCHANGED <<cas, cache, phase, goals, at, stack, faulted, promised>>
          /\ UNCHANGED <<referenced, kept>>
      BY <1>1 DEF vars, buildVars, ghostVars
    <2> QED BY <2>1 DEF RetentionInv, Promises, ThreadServed, Sought, Current
  <1>2. CASE Collect
    BY <1>2, RemoveSplicedRetains, SplitStepsRetain, OtherCollectStepsRetain, RenameRetains
       DEF Collect
  <1>3. ASSUME NEW p \in Threads, Build(p) PROVE RetentionInv'
    BY <1>3, BuildRetains
  <1> QED BY <1>1, <1>2, <1>3 DEF Next

(* What was referenced before a request looks for it, since the last        *)
(* rotation or the one before, is found: nothing the garbage collector      *)
(* does, whatever other builds do meanwhile, loses it.                      *)
THEOREM ReferencedKept ==
    ASSUME ~ IgnoredWritesFail, SmallValues
    PROVE  Spec => []NothingReferencedLost
  <1>1. Init => StorageInv /\ RetentionInv
    BY InitOK, InitRetains
  <1>2. StorageInv /\ RetentionInv /\ [Next]_vars => (StorageInv /\ RetentionInv)'
    BY NextKeeps, NextRetains
  <1>3. StorageInv /\ RetentionInv => NothingReferencedLost
    <2> SUFFICES ASSUME StorageInv, RetentionInv, NEW p \in Threads, Missed(p), promised[p],
                        ~ faulted[p]
                 PROVE  FALSE
      BY DEF StorageInv, TypeOK, NothingReferencedLost
    <2>1. phase[p] = "false" /\ at[p] + 1 = N
      BY DEF Missed, Exhausted
    <2>2. PICK g \in Generations : at[p] < g
      BY <2>1 DEF RetentionInv, ThreadServed, Sought
    <2>3. at[p] \in Nat /\ g \in Nat /\ g <= N - 1 /\ N \in Nat
      BY StorageAssumption DEF StorageInv, TypeOK, Generations
    <2> QED BY <2>1, <2>2, <2>3
  <1> QED BY <1>1, <1>2, <1>3, PTL DEF Spec
=============================================================================
