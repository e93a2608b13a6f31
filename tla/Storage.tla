------------------------------ MODULE Storage ------------------------------
(***************************************************************************)
(* The local build root: N generations of content-addressable storage and  *)
(* of the two caches (action cache, target-level cache), build threads     *)
(* that look things up and add them while holding the shared lock, and the *)
(* garbage collector that compactifies the youngest generation and rotates *)
(* the generations under the exclusive lock.                               *)
(*                                                                         *)
(* One step is one file-system operation, so threads interleave, and       *)
(* threads and the collector may be killed, between any two of them.       *)
(* Native (git-tree) mode is modelled.                                     *)
(***************************************************************************)
EXTENDS Naturals, Sequences, FiniteSets

CONSTANTS
    N,              \* number of generations; 0 is the youngest
    Threads,        \* build threads
    Blobs, Trees,   \* digests of blobs and of git trees
    Entries,        \* the entries of every tree
    Splittable,     \* digests the chunker cuts into at least two parts
    Chunks,         \* the parts of a splittable digest
    TooLarge,       \* digests of at least the compactification threshold
    Keys,           \* cache keys: action ids and target-cache keys
    Values,         \* cache values: action results and target-cache entries
    NoValue,
    ValueBlob,      \* the blob a cache value is stored as
    Outputs,        \* the artifacts of a value that are uplinked with it
    Unlinked,       \* what a value names besides: v2.1 symlinks, stdout, stderr
    Implied,        \* keys of the implied export targets
    Requests,       \* what the builds ask for: subset of AllRequests
    Watched,        \* the nodes whose retention is followed
    IgnoredWritesFail   \* may a write fail whose result the code ignores?

-----------------------------------------------------------------------------
Generations == 0 .. N - 1
Digests == Blobs \cup Trees
BlobItems == {"f", "x"} \X Blobs        \* casf and casx
TreeItems == {"t"} \X Trees             \* cast
Objects == BlobItems \cup TreeItems
LargeItems == ({"lf"} \X Blobs) \cup ({"lt"} \X Trees)  \* cas-large-f/-t
Items == Objects \cup LargeItems
KeyNodes == {"key"} \X Keys
Nodes == Items \cup KeyNodes

AllRequests == {"lookup", "create", "add", "split"} \X Objects
                  \cup {"splice"} \X {n \in Objects : n[1] # "x" /\ n[2] \in Splittable}
                  \cup {"read"} \X KeyNodes
                  \cup {"store"} \X (Keys \X Values)

ASSUME StorageAssumption ==
    /\ N \in Nat \ {0}
    /\ Blobs \cap Trees = {}
    /\ Entries \in [Trees -> SUBSET Objects]
    /\ Splittable \subseteq Digests
    /\ TooLarge \subseteq Digests
    /\ Chunks \in [Splittable -> SUBSET Blobs]
    /\ NoValue \notin Values
    /\ ValueBlob \in [Values -> Blobs]
    /\ Outputs \in [Values -> SUBSET Objects]
    /\ Unlinked \in [Values -> SUBSET BlobItems]
    /\ Implied \in [Values -> SUBSET Keys]
    /\ Requests \subseteq AllRequests
    /\ Watched \subseteq Nodes
    /\ IgnoredWritesFail \in BOOLEAN

(* FileChunker never returns a part longer than max_chunk_size_, and a file *)
(* of at most that size is its own only part.                               *)
ASSUME ChunkAssumption ==
    \A d \in Splittable : Chunks[d] \cap Splittable = {}

VARIABLES
    cas,        \* the files of each generation
    cache,      \* the value each generation's cache holds for a key
    holds,      \* the threads that hold the shared lock
    phase,      \* idle, enter, run, true or false: see Uplink below
    goals,      \* the goals of the thread's request, the current one first
    at,         \* the generation UplinkXxx is trying
    stack,      \* the frames of the recursive LocalUplinkXxx calls
    faulted,    \* did a write fail during the thread's request?
    promised,   \* was the thread's node referenced before it looked for it?
    gc,         \* off, spliced, split, rotate or all
    norotate,   \* the --no-rotate option
    splitting,  \* files of the youngest generation still to be split
    written,    \* those of them whose WriteEntry was called
    failed,     \* did a compactification task fail?
    index,      \* next generation to rename, plus one
    referenced, \* nodes found or stored since the last rotation
    kept        \* nodes found or stored between the last two rotations

buildVars == <<holds, phase, goals, at, stack, faulted, promised>>
gcVars == <<gc, norotate, splitting, written, failed, index>>
ghostVars == <<referenced, kept>>
vars == <<cas, cache, buildVars, gcVars, ghostVars>>

Frames == [node : Nodes, todo : SUBSET Nodes, large : {"no", "due", "done"}]
Modes == {"lookup", "sync", "only", "check", "create", "add", "entry", "split",
          "enter", "splice", "resplice", "read", "value", "write"}
Goals == [mode : Modes, node : Nodes, todo : SUBSET Nodes, value : Values \cup {NoValue}]

-----------------------------------------------------------------------------
IsTree(n) == n[1] = "t"
IsLarge(n) == n[1] \in {"lf", "lt"}
IsKey(n) == n[1] = "key"

(* The large-objects entry that stands for an object. *)
LargeOf(n) == IF IsTree(n) THEN <<"lt", n[2]>> ELSE <<"lf", n[2]>>

(* The same blob with the inverse x-bit. *)
Flipped(n) == IF n[1] = "f" THEN <<"x", n[2]>> ELSE <<"f", n[2]>>

Parts(d) == {"f"} \X Chunks[d]

(* What a generation can serve: the file itself, or a file spliced from the *)
(* large-objects entry.                                                     *)
Has(files, n) == n \in files \/ LargeOf(n) \in files

-----------------------------------------------------------------------------
(* LocalUplinkXxx: promote a node of generation g, children first, to the   *)
(* youngest generation.  Found is what the call needs to see in g.          *)

(* BlobPath in a single generation synchronises casf and casx. *)
Synced(g, n) == ~ IsTree(n) /\ Flipped(n) \in cas[g]

Spliceable(g, n) ==
    /\ n[2] \in Splittable
    /\ LargeOf(n) \in cas[g]
    /\ \A c \in Parts(n[2]) : c \in cas[g] \/ Synced(g, c)

(* An entry's value is read by BlobPath of that generation: no splicing. *)
Readable(g, k) ==
    LET v == cache[g][k]
        b == <<"f", ValueBlob[v]>>
    IN  v # NoValue /\ (b \in cas[g] \/ Synced(g, b))

InYoungest(n) == IF IsKey(n) THEN cache[0][n[2]] # NoValue ELSE n \in cas[0]

Push(S, n, todo, large) == Append(S, [node |-> n, todo |-> todo, large |-> large])

(* A nested call returned true: strike it off its caller's list. *)
Pop(S, n) == IF IsLarge(n)
             THEN [S EXCEPT ![Len(S)].large = "done"]
             ELSE [S EXCEPT ![Len(S)].todo = @ \ {n}]

ReturnTrue(p, n, S) ==
    /\ stack' = [stack EXCEPT ![p] = IF S = <<>> THEN S ELSE Pop(S, n)]
    /\ phase' = [phase EXCEPT ![p] = IF S = <<>> THEN "true" ELSE "run"]

(* A caller passes false on, except that the outcome of                     *)
(* LocalUplinkLargeObject is ignored by the call that splices the object.   *)
ReturnFalse(p, n, S) ==
    LET up == IF IsLarge(n) THEN S
              ELSE IF S # <<>> /\ IsLarge(S[Len(S)].node) THEN SubSeq(S, 1, Len(S) - 1)
              ELSE <<>>
    IN  IF up = <<>>
        THEN /\ stack' = [stack EXCEPT ![p] = <<>>]
             /\ phase' = [phase EXCEPT ![p] = "false"]
        ELSE /\ stack' = [stack EXCEPT ![p] = [up EXCEPT ![Len(up)].large = "done"]]
             /\ phase' = [phase EXCEPT ![p] = "run"]

Descend(p, n, S, todo, large) ==
    /\ stack' = [stack EXCEPT ![p] = Push(S, n, todo, large)]
    /\ phase' = [phase EXCEPT ![p] = "run"]

AddFile(g, new) == cas' = [cas EXCEPT ![g] = @ \cup new]

LocalUplinkBlob(p, n, S) ==
    LET g    == at[p]
        sync == S # <<>> /\ ~ IsLarge(S[Len(S)].node)   \* not skip_sync
    IN  \/ /\ n \in cas[g]
           /\ Descend(p, n, S, {}, "no")
           /\ UNCHANGED cas
        \/ /\ n \notin cas[g]
           /\ sync /\ Synced(g, n)
           /\ AddFile(g, {n})
           /\ Descend(p, n, S, {}, "no")
        \/ /\ n \notin cas[g]
           /\ ~ (sync /\ Synced(g, n))
           /\ IF Spliceable(g, n)
              THEN /\ AddFile(g, Parts(n[2]))
                   /\ Descend(p, n, S, {}, "due")
              ELSE UNCHANGED cas /\ ReturnFalse(p, n, S)

(* Mutant: a tree is uplinked without its entries. *)
LocalUplinkShallowTree(p, n, S) ==
    LET g == at[p]
    IN  IF n \in cas[g]
        THEN UNCHANGED cas /\ Descend(p, n, S, {}, "no")
        ELSE IF Spliceable(g, n)
        THEN AddFile(g, Parts(n[2])) /\ Descend(p, n, S, {}, "due")
        ELSE UNCHANGED cas /\ ReturnFalse(p, n, S)

LocalUplinkGitTree(p, n, S) ==
    LET g == at[p]
    IN  IF n \in cas[g]
        THEN UNCHANGED cas /\ Descend(p, n, S, Entries[n[2]], "no")
        ELSE IF Spliceable(g, n)
        THEN AddFile(g, Parts(n[2])) /\ Descend(p, n, S, Entries[n[2]], "due")
        ELSE UNCHANGED cas /\ ReturnFalse(p, n, S)

(* Mutant: a large entry is uplinked without its chunks. *)
LocalUplinkBareLarge(p, n, S) ==
    /\ UNCHANGED cas
    /\ IF n \in cas[at[p]]
       THEN Descend(p, n, S, {}, "no")
       ELSE ReturnTrue(p, n, S)

(* No large entry in this generation counts as success. *)
LocalUplinkLarge(p, n, S) ==
    /\ UNCHANGED cas
    /\ IF n \in cas[at[p]]
       THEN Descend(p, n, S, Parts(n[2]), "no")
       ELSE ReturnTrue(p, n, S)

(* Mutant: the implied export targets are left behind. *)
UplinkedAlone(k, v) == Outputs[v] \cup {<<"f", ValueBlob[v]>>}

(* What is uplinked before an entry: the implied export targets, the       *)
(* artifacts and the blob with the value.                                  *)
UplinkedWith(k, v) == {"key"} \X (Implied[v] \ {k}) \cup Outputs[v] \cup {<<"f", ValueBlob[v]>>}

LocalUplinkEntry(p, n, S) ==
    LET g == at[p]
        v == cache[g][n[2]]
    IN  IF Readable(g, n[2])
        THEN /\ AddFile(g, {<<"f", ValueBlob[v]>>})
             /\ Descend(p, n, S, UplinkedWith(n[2], v), "no")
        ELSE UNCHANGED cas /\ ReturnFalse(p, n, S)

LocalUplink(p, n, S) ==
    /\ IF InYoungest(n) THEN UNCHANGED cas /\ ReturnTrue(p, n, S)
       ELSE \/ n \in BlobItems /\ LocalUplinkBlob(p, n, S)
            \/ n \in TreeItems /\ LocalUplinkGitTree(p, n, S)
            \/ n \in LargeItems /\ LocalUplinkLarge(p, n, S)
            \/ n \in KeyNodes /\ LocalUplinkEntry(p, n, S)
    /\ UNCHANGED <<cache, holds, goals, at, faulted, promised, gcVars, ghostVars>>

(***************************************************************************)
(* UplinkBlob, UplinkTree, UplinkLargeBlob, Uplink...CacheEntry: try the   *)
(* generations from the youngest on until one LocalUplinkXxx returns true. *)
(* phase "enter": call it for generation at[p]; "run": it is at work;      *)
(* "true", "false": it has returned.                                       *)
(***************************************************************************)
Current(p) == goals[p][1]

(* A tree entry with a large-objects entry is not looked for in the main CAS. *)
Uplinks(g) == /\ g.todo = {}
              /\ g.mode \notin {"enter", "value", "write"}
              /\ ~ (g.mode = "check" /\ LargeOf(g.node) \in cas[0])

Uplink(p) ==
    /\ phase[p] = "enter"
    /\ Uplinks(Current(p))
    /\ LocalUplink(p, Current(p).node, <<>>)

Top(p) == stack[p][Len(stack[p])]
Below(p) == SubSeq(stack[p], 1, Len(stack[p]) - 1)

UplinkChild(p) ==
    /\ phase[p] = "run"
    /\ \E n \in Top(p).todo : LocalUplink(p, n, stack[p])

UplinkLargeObject(p) ==
    /\ phase[p] = "run"
    /\ Top(p).todo = {} /\ Top(p).large = "due"
    /\ LocalUplink(p, LargeOf(Top(p).node), stack[p])

(* Mutant: the stores of the youngest generation are LastWins. *)
UplinkStoreOverwrites(p) ==
    /\ phase[p] = "run"
    /\ Top(p).todo = {} /\ Top(p).large # "due"
    /\ LET n == Top(p).node
           k == n[2]
       IN  /\ ReturnTrue(p, n, Below(p))
           /\ cas' = IF IsKey(n) THEN cas ELSE [cas EXCEPT ![0] = @ \cup {n}]
           /\ cache' = IF IsKey(n) THEN [cache EXCEPT ![0][k] = cache[at[p]][k]] ELSE cache
    /\ UNCHANGED <<holds, goals, at, faulted, promised, gcVars, ghostVars>>

(* The last step of LocalUplinkXxx: link the file into the youngest        *)
(* generation.  Its stores are FirstWins: an existing entry stays.  A      *)
(* spliced object is stored only if the caller asked for the object itself *)
(* (splice_result), and not as a part of something else.                   *)
UplinkStore(p) ==
    /\ phase[p] = "run"
    /\ Top(p).todo = {} /\ Top(p).large # "due"
    /\ LET n == Top(p).node
           k == n[2]
       IN  /\ ReturnTrue(p, n, Below(p))
           /\ cas' = IF IsKey(n) \/ (Top(p).large = "done" /\ Len(stack[p]) > 1)
                     THEN cas ELSE [cas EXCEPT ![0] = @ \cup {n}]
           /\ cache' = IF IsKey(n) /\ cache[0][k] = NoValue
                       THEN [cache EXCEPT ![0][k] = cache[at[p]][k]] ELSE cache
    /\ UNCHANGED <<holds, goals, at, faulted, promised, gcVars, ghostVars>>

(* Reading, splicing or linking fails. *)
UplinkFails(p) ==
    /\ phase[p] = "run"
    /\ LET S == Below(p)
           n == Top(p).node
       IN  /\ \/ IgnoredWritesFail
              \/ ~ IsLarge(n) /\ (S # <<>> => ~ IsLarge(S[Len(S)].node))
           /\ ReturnFalse(p, n, S)
    /\ faulted' = [faulted EXCEPT ![p] = TRUE]
    /\ UNCHANGED <<cas, cache, holds, goals, at, promised, gcVars, ghostVars>>

-----------------------------------------------------------------------------
(***************************************************************************)
(* The requests of a build thread.  A goal first works off the goals in    *)
(* its todo and then does its own step; finishing it strikes its node off  *)
(* the todo of the goal below.                                             *)
(***************************************************************************)
Goal(mode, n, todo) == [mode |-> mode, node |-> n, todo |-> todo, value |-> NoValue]

(* CreateDigestFromLocalOwnedTree and BlobTree: the entries before the tree. *)
Create(n) == Goal("create", n, IF IsTree(n) THEN Entries[n[2]] ELSE {})

(* CASContentValidator::Add: CheckTreeInvariant before the tree is stored. *)
Add(n) == Goal("add", n, IF IsTree(n) THEN Entries[n[2]] ELSE {})

(* A cache entry is written after what it names. *)
Needs(v) == ({"key"} \X Implied[v]) \cup Outputs[v] \cup {<<"f", ValueBlob[v]>>}

Write(k, v) == [mode |-> "write", node |-> <<"key", k>>, value |-> v,
                todo |-> (Needs(v) \ {<<"key", k>>}) \cup Unlinked[v]]

GoalOf(r) ==
    CASE r[1] = "lookup" -> Goal("lookup", r[2], {})
      [] r[1] = "create" -> Create(r[2])
      [] r[1] = "add"    -> Add(r[2])
      [] r[1] = "split"  -> Goal("entry", LargeOf(r[2]), {})
      [] r[1] = "splice" -> Goal("splice", r[2], {})
      [] r[1] = "read"   -> Goal("read", r[2], {})
      [] r[1] = "store"  -> Write(r[2][1], r[2][2])

(* The goal a goal poses for a node of its todo. *)
SubGoal(g, n) ==
    CASE g.mode = "create" -> Create(n)
      [] g.mode = "add"    -> Goal("check", n, {})
      [] g.mode \in {"sync", "resplice"} -> Goal("only", n, {})
      [] g.mode = "enter"  -> Create(n)
      [] g.mode = "value"  -> Goal("lookup", n, {})
      [] g.mode = "write"  -> IF IsKey(n) THEN Goal("read", n, {}) ELSE Create(n)

(* The thread turns to the first of these goals. *)
Pursue(p, gs) ==
    /\ goals' = [goals EXCEPT ![p] = gs]
    /\ phase' = [phase EXCEPT ![p] = IF gs = <<>> THEN "idle" ELSE "enter"]
    /\ at' = [at EXCEPT ![p] = 0]
    /\ faulted' = [faulted EXCEPT ![p] = @ /\ gs # <<>>]
    /\ promised' = [promised EXCEPT ![p] = gs # <<>> /\ gs[1].node \in referenced \cup kept]
    /\ UNCHANGED stack

Become(p, g) == Pursue(p, <<g>> \o Tail(goals[p]))

GiveUp(p) == Pursue(p, <<>>)

Finish(p) ==
    LET rest == Tail(goals[p])
    IN  Pursue(p, IF rest = <<>> THEN rest
                  ELSE [rest EXCEPT ![1].todo = @ \ {Current(p).node}])

Begin(p) ==
    /\ phase[p] = "idle" /\ p \in holds
    /\ \E r \in Requests : Pursue(p, <<GoalOf(r)>>)
    /\ UNCHANGED <<cas, cache, holds, gcVars, ghostVars>>

Pose(p) ==
    /\ phase[p] = "enter"
    /\ \E n \in Current(p).todo :
          Pursue(p, <<SubGoal(Current(p), n)>> \o goals[p])
    /\ UNCHANGED <<cas, cache, holds, gcVars, ghostVars>>

Reference(n) == /\ referenced' = referenced \cup ({n} \cap Watched)
                /\ UNCHANGED kept

NextGeneration(p) ==
    /\ phase[p] = "false" /\ at[p] + 1 < N
    /\ at' = [at EXCEPT ![p] = @ + 1]
    /\ phase' = [phase EXCEPT ![p] = "enter"]
    /\ UNCHANGED <<cas, cache, holds, goals, stack, faulted, promised, gcVars, ghostVars>>

(* No generation could uplink the node. *)
Exhausted(p) == phase[p] = "false" /\ at[p] + 1 = N

(* Whatever the uplinker answered, the file is then looked for in the      *)
(* youngest generation: another thread may have added it meanwhile.        *)
Hit(p) == phase[p] = "true" \/ (Exhausted(p) /\ InYoungest(Current(p).node))
Missed(p) == Exhausted(p) /\ ~ InYoungest(Current(p).node)

Found(p) ==
    /\ Hit(p) /\ Current(p).mode \notin {"entry", "split", "read"}
    /\ Finish(p)
    /\ Reference(Current(p).node)
    /\ UNCHANGED <<cas, cache, holds, gcVars>>

(* The key is there: read the value it names. *)
FoundCacheEntry(p) ==
    /\ Hit(p) /\ Current(p).mode = "read"
    /\ LET n == Current(p).node
       IN  /\ Become(p, Goal("value", n, {<<"f", ValueBlob[cache[0][n[2]]]>>}))
           /\ Reference(n)
    /\ UNCHANGED <<cas, cache, holds, gcVars>>

(* LargeObjectCAS::Split looks for a large entry, which may be missing     *)
(* although the uplinker returned true, then for the object.               *)
FoundLargeEntry(p) ==
    /\ Hit(p) /\ Current(p).mode = "entry"
    /\ LET n == Current(p).node
       IN  IF n \in cas[0] THEN Finish(p)
           ELSE Become(p, Goal("split", <<IF n[1] = "lt" THEN "t" ELSE "f", n[2]>>, {}))
    /\ UNCHANGED <<cas, cache, holds, gcVars, ghostVars>>

FoundToSplit(p) ==
    /\ Hit(p) /\ Current(p).mode = "split"
    /\ LET n == Current(p).node
       IN  /\ IF n[2] \in Splittable
              THEN Become(p, Goal("enter", LargeOf(n), Parts(n[2])))
              ELSE Finish(p)
           /\ Reference(n)
    /\ UNCHANGED <<cas, cache, holds, gcVars>>

(* A split looks for the executable if there is no file. *)
SplitExecutable(p) ==
    /\ Missed(p) /\ Current(p).mode = "split" /\ Current(p).node[1] = "f"
    /\ Become(p, Goal("split", Flipped(Current(p).node), {}))
    /\ UNCHANGED <<cas, cache, holds, gcVars, ghostVars>>

(* The blob is looked for with the inverse x-bit, to be copied. *)
TrySyncBlob(p) ==
    /\ Missed(p) /\ Current(p).mode \in {"lookup", "check", "splice"}
    /\ ~ IsTree(Current(p).node)
    /\ LET n == Current(p).node
       IN  Become(p, Goal(IF Current(p).mode = "splice" THEN "resplice" ELSE "sync",
                          n, {Flipped(n)}))
    /\ UNCHANGED <<cas, cache, holds, gcVars, ghostVars>>

(* Nothing to splice is there yet: put the object together from the parts, *)
(* check the tree invariant and add it.                                    *)
Splice(p) ==
    /\ Missed(p)
    /\ LET rest == Tail(goals[p])
           from(n) == Goal("add", n, Parts(n[2]) \cup Add(n).todo)
       IN  \/ /\ Current(p).mode = "splice" /\ IsTree(Current(p).node)
              /\ Become(p, from(Current(p).node))
           \/ /\ Current(p).mode = "only" /\ rest # <<>> /\ rest[1].mode = "resplice"
              /\ Pursue(p, <<from(rest[1].node)>> \o Tail(rest))
    /\ UNCHANGED <<cas, cache, holds, gcVars, ghostVars>>

StoreObject(p) ==
    /\ Missed(p) /\ Current(p).mode \in {"create", "add", "sync", "resplice"}
    /\ AddFile(0, {Current(p).node})
    /\ Finish(p)
    /\ Reference(Current(p).node)
    /\ UNCHANGED <<cache, holds, gcVars>>

(* The request fails for want of the node. *)
Miss(p) ==
    /\ Missed(p)
    /\ LET m == Current(p).mode
       IN  \/ m = "only" /\ (Len(goals[p]) = 1 \/ goals[p][2].mode # "resplice")
           \/ m = "read"
           \/ m \in {"lookup", "check"} /\ IsTree(Current(p).node)
           \/ m = "split" /\ Current(p).node[1] # "f"
    /\ GiveUp(p)
    /\ UNCHANGED <<cas, cache, holds, gcVars, ghostVars>>

(* Goals that need no uplinking, after their todo is done. *)
Performs(p) == /\ phase[p] = "enter"
               /\ Current(p).todo = {} /\ ~ Uplinks(Current(p))

(* The value was read, or the large entry of a tree entry is there. *)
Conclude(p) ==
    /\ Performs(p) /\ Current(p).mode \notin {"enter", "write"}
    /\ Finish(p)
    /\ Reference(Current(p).node)
    /\ UNCHANGED <<cas, cache, holds, gcVars>>

WriteEntry(p) ==
    /\ Performs(p) /\ Current(p).mode = "enter"
    /\ AddFile(0, {Current(p).node})
    /\ Finish(p)
    /\ Reference(Current(p).node)
    /\ UNCHANGED <<cache, holds, gcVars>>

(* The last writer of a cache entry wins. *)
StoreResult(p) ==
    /\ Performs(p) /\ Current(p).mode = "write"
    /\ cache' = [cache EXCEPT ![0][Current(p).node[2]] = Current(p).value]
    /\ Finish(p)
    /\ Reference(Current(p).node)
    /\ UNCHANGED <<cas, holds, gcVars>>

(* A write into the youngest generation fails, and with it the request. *)
WriteFails(p) ==
    /\ \/ Missed(p) /\ Current(p).mode \in {"create", "add", "sync", "resplice"}
       \/ Performs(p) /\ Current(p).mode \in {"write", "enter"}
    /\ GiveUp(p)
    /\ UNCHANGED <<cas, cache, holds, gcVars, ghostVars>>

-----------------------------------------------------------------------------
(* The lock: builds share it, the collector has it to itself. *)

SharedLock(p) ==
    /\ p \notin holds /\ gc = "off"
    /\ holds' = holds \cup {p}
    /\ UNCHANGED <<cas, cache, phase, goals, at, stack, faulted, promised, gcVars, ghostVars>>

(* The build ends, or is killed in the middle of a request. *)
EndBuild(p) ==
    /\ p \in holds
    /\ holds' = holds \ {p}
    /\ phase' = [phase EXCEPT ![p] = "idle"]
    /\ goals' = [goals EXCEPT ![p] = <<>>]
    /\ stack' = [stack EXCEPT ![p] = <<>>]
    /\ at' = [at EXCEPT ![p] = 0]
    /\ faulted' = [faulted EXCEPT ![p] = FALSE]
    /\ promised' = [promised EXCEPT ![p] = FALSE]
    /\ UNCHANGED <<cas, cache, gcVars, ghostVars>>

TriggerGarbageCollection ==
    /\ gc = "off" /\ holds = {}
    /\ \/ gc' = "all" /\ norotate' = FALSE
       \/ gc' = "spliced" /\ norotate' \in BOOLEAN
    /\ index' = N
    /\ UNCHANGED <<cas, cache, buildVars, splitting, written, failed, ghostVars>>

(* Compactifier::RemoveSpliced: one file of the main CAS that has a large entry. *)
RemoveSpliced ==
    /\ gc = "spliced"
    /\ \E n \in cas[0] \cap Objects :
          LargeOf(n) \in cas[0] /\ cas' = [cas EXCEPT ![0] = @ \ {n}]
    /\ UNCHANGED <<cache, buildVars, gcVars, ghostVars>>

(* CompactifyConcurrently: collect the large files, one task for each. *)
FilterEntries ==
    /\ gc = "spliced"
    /\ \A n \in cas[0] \cap Objects : LargeOf(n) \notin cas[0]
    /\ gc' = "split"
    /\ splitting' = {n \in cas[0] \cap Objects : n[2] \in TooLarge}
    /\ written' = {}
    /\ UNCHANGED <<cas, cache, buildVars, norotate, failed, index, ghostVars>>

SplitStorePart ==
    /\ gc = "split"
    /\ \E n \in splitting :
          /\ n[2] \in Splittable /\ LargeOf(n) \notin cas[0]
          /\ \E c \in Parts(n[2]) : c \notin cas[0] /\ AddFile(0, {c})
    /\ UNCHANGED <<cache, buildVars, gcVars, ghostVars>>

(* LargeObjectCAS::Split ignores whether WriteEntry succeeded. *)
SplitWriteEntry ==
    /\ gc = "split"
    /\ \E n \in splitting \ written :
          /\ n[2] \in Splittable /\ Parts(n[2]) \subseteq cas[0]
          /\ \/ AddFile(0, {LargeOf(n)})
             \/ IgnoredWritesFail /\ UNCHANGED cas
          /\ written' = written \cup {n}
    /\ UNCHANGED <<cache, buildVars, gc, norotate, splitting, failed, index, ghostVars>>

(* SplitLarge removes the file, unless it has fewer than two parts. *)
SplitRemove ==
    /\ gc = "split"
    /\ \E n \in splitting :
          /\ n \in written \/ n[2] \notin Splittable
          /\ cas' = IF n[2] \in Splittable THEN [cas EXCEPT ![0] = @ \ {n}] ELSE cas
          /\ splitting' = splitting \ {n}
    /\ UNCHANGED <<cache, buildVars, gc, norotate, written, failed, index, ghostVars>>

(* A task fails; tasks not yet begun are then skipped. *)
SplitFails ==
    /\ gc = "split"
    /\ \E n \in splitting :
          /\ failed' = TRUE
          /\ splitting' = splitting \ {n}
    /\ UNCHANGED <<cas, cache, buildVars, gc, norotate, written, index, ghostVars>>

(* Compactify is over and succeeded. *)
Compactified ==
    /\ gc = "split" /\ splitting = {} /\ ~ failed /\ ~ norotate
    /\ gc' = "rotate"
    /\ UNCHANGED <<cas, cache, buildVars, norotate, splitting, written, failed, index, ghostVars>>

(* Mutant: the youngest generation is taken for the oldest. *)
RenameOffByOne ==
    /\ gc \in {"rotate", "all"} /\ index > 0
    /\ LET from == index - 1
           moved(g, empty) == IF gc = "rotate" /\ index < N - 1
                              THEN [g EXCEPT ![index] = g[from], ![from] = empty]
                              ELSE [g EXCEPT ![from] = empty]
       IN  /\ cas' = moved(cas, {})
           /\ cache' = moved(cache, [k \in Keys |-> NoValue])
           /\ kept' = IF gc = "rotate" /\ from = 0 /\ N > 1 THEN referenced ELSE {}
           /\ referenced' = IF from = 0 THEN {} ELSE referenced
    /\ index' = index - 1
    /\ UNCHANGED <<buildVars, gc, norotate, splitting, written, failed>>

(* The renames, from the oldest generation on.  What was referenced before  *)
(* the previous rotation is no longer promised once this one has begun.     *)
Rename ==
    /\ gc \in {"rotate", "all"} /\ index > 0
    /\ LET from == index - 1
           moved(g, empty) == IF gc = "rotate" /\ index < N
                              THEN [g EXCEPT ![index] = g[from], ![from] = empty]
                              ELSE [g EXCEPT ![from] = empty]
       IN  /\ cas' = moved(cas, {})
           /\ cache' = moved(cache, [k \in Keys |-> NoValue])
           /\ kept' = IF gc = "rotate" /\ from = 0 /\ N > 1 THEN referenced ELSE {}
           /\ referenced' = IF from = 0 THEN {} ELSE referenced
    /\ index' = index - 1
    /\ UNCHANGED <<buildVars, gc, norotate, splitting, written, failed>>

(* The collector gives the exclusive lock up: it is done, or could not      *)
(* compactify, or a rename failed, or it was killed.                        *)
EndCollection ==
    /\ gc # "off"
    /\ gc' = "off" /\ norotate' = FALSE /\ failed' = FALSE /\ index' = 0
    /\ splitting' = {} /\ written' = {}
    /\ UNCHANGED <<cas, cache, buildVars, ghostVars>>

-----------------------------------------------------------------------------
Init ==
    /\ cas = [g \in Generations |-> {}]
    /\ cache = [g \in Generations |-> [k \in Keys |-> NoValue]]
    /\ holds = {}
    /\ phase = [p \in Threads |-> "idle"]
    /\ goals = [p \in Threads |-> <<>>]
    /\ at = [p \in Threads |-> 0]
    /\ stack = [p \in Threads |-> <<>>]
    /\ faulted = [p \in Threads |-> FALSE]
    /\ promised = [p \in Threads |-> FALSE]
    /\ gc = "off" /\ norotate = FALSE /\ failed = FALSE /\ index = 0
    /\ splitting = {} /\ written = {}
    /\ referenced = {} /\ kept = {}

Build(p) ==
    \/ Uplink(p) \/ UplinkChild(p) \/ UplinkLargeObject(p) \/ UplinkStore(p)
    \/ UplinkFails(p)
    \/ Begin(p) \/ Pose(p) \/ NextGeneration(p)
    \/ Found(p) \/ FoundCacheEntry(p) \/ FoundLargeEntry(p) \/ FoundToSplit(p)
    \/ SplitExecutable(p) \/ TrySyncBlob(p) \/ Splice(p) \/ StoreObject(p) \/ Miss(p)
    \/ Conclude(p) \/ WriteEntry(p) \/ StoreResult(p) \/ WriteFails(p)
    \/ SharedLock(p) \/ EndBuild(p)

Collect ==
    \/ TriggerGarbageCollection
    \/ RemoveSpliced \/ FilterEntries
    \/ SplitStorePart \/ SplitWriteEntry \/ SplitRemove \/ SplitFails
    \/ Compactified \/ Rename \/ EndCollection

Next == Collect \/ \E p \in Threads : Build(p)

Spec == Init /\ [][Next]_vars

-----------------------------------------------------------------------------
(* Type correctness of the build root, the threads and the collector. *)
TypeOK ==
    /\ cas \in [Generations -> SUBSET Items]
    /\ cache \in [Generations -> [Keys -> Values \cup {NoValue}]]
    /\ holds \subseteq Threads
    /\ phase \in [Threads -> {"idle", "enter", "run", "true", "false"}]
    /\ goals \in [Threads -> Seq(Goals)]
    /\ at \in [Threads -> Generations]
    /\ stack \in [Threads -> Seq(Frames)]
    /\ faulted \in [Threads -> BOOLEAN]
    /\ promised \in [Threads -> BOOLEAN]
    /\ gc \in {"off", "spliced", "split", "rotate", "all"}
    /\ norotate \in BOOLEAN /\ failed \in BOOLEAN
    /\ splitting \subseteq Objects /\ written \subseteq Objects
    /\ index \in 0 .. N
    /\ referenced \subseteq Nodes /\ kept \subseteq Nodes

(* "If a tree is in CAS, then so are its immediate parts": in every         *)
(* generation by itself, at every moment, whichever threads uplink, store   *)
(* or die half-way, and for trees that are only there in split form too.    *)
TreeInvariant ==
    \A g \in Generations, t \in Trees :
        {<<"t", t>>, <<"lt", t>>} \cap cas[g] # {} =>
            \A e \in Entries[t] : Has(cas[g], e)

(* A large-objects entry promises its chunks in casf of its own generation, *)
(* so compactification never splits or removes a chunk.                     *)
LargeInvariant ==
    \A g \in Generations : \A n \in cas[g] \cap LargeItems :
        n[2] \in Splittable /\ Parts(n[2]) \subseteq cas[g]

(* A cache entry is in a generation only with its value, the artifacts it   *)
(* is uplinked with and the implied target-cache entries.                   *)
CacheInvariant ==
    \A g \in Generations, k \in Keys :
        cache[g][k] # NoValue =>
            \A n \in Needs(cache[g][k]) :
                IF IsKey(n) THEN cache[g][n[2]] # NoValue ELSE Has(cas[g], n)

(* "Everything referenced since the last garbage collection will remain in  *)
(* the effective cache or CAS upon the next garbage collection": whoever    *)
(* looks for it then finds it, at once, unless an I/O error hit the request.*)
NothingReferencedLost ==
    \A p \in Threads : Missed(p) /\ promised[p] => faulted[p]

(* Compactification does "not modify the objects that can be obtained from  *)
(* that CAS generation", file by file and wherever it stops.                *)
CompactificationKeepsObjects ==
    [][(gc \in {"spliced", "split"}) =>
          (\A n \in Objects : Has(cas[0], n) => Has(cas'[0], n))]_vars

(* Uplinking an old cache entry never replaces an entry another build has   *)
(* written meanwhile: only a new result does.                               *)
UplinkKeepsFreshEntry ==
    [][\A k \in Keys :
          cache[0][k] \notin {NoValue, cache'[0][k]} =>
             \/ gc # "off"
             \/ \E p \in Threads : /\ phase[p] = "enter"
                                   /\ Current(p).mode = "write"]_vars

(* "If an artifact is referenced in any cache entry (action cache,          *)
(* target-level cache), then the corresponding artifact is in CAS", in each *)
(* generation, for all that an entry names.                                 *)
CacheEntryComplete ==
    \A g \in Generations, k \in Keys :
        cache[g][k] # NoValue =>
            \A n \in Outputs[cache[g][k]] \cup Unlinked[cache[g][k]] : Has(cas[g], n)
=============================================================================
