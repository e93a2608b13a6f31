--------------------------- MODULE RemoteTransfer ---------------------------
(***************************************************************************)
(* Trees between a build root and an execution service: the upload of a    *)
(* tree of artifacts, entries first, and the retrieval of artifacts with   *)
(* all they consist of into the local CAS. Both are recursive; stack holds *)
(* the open calls.                                                         *)
(***************************************************************************)
EXTENDS Integers, FiniteSets, Sequences, FiniteSetsExt

(***************************************************************************)
(* The CAS of an execution service and how just transfers blobs to it:     *)
(* FindMissingBlobs, the upload of large blobs by stream and of the others *)
(* in batches whose size follows what the server turns out to accept.      *)
(* Every call is one step of the server, which holds the lock of its build *)
(* root meanwhile; its answer, or the request, may get lost. Objects of    *)
(* the server age by collections and get young again when found.           *)
(***************************************************************************)
CONSTANTS Threads,                \* of one client process
          Objects, Trees, Entries,  \* direct entries of trees, {} for blobs
          Size,                   \* of objects
          ServerMax, ReportedMax, \* of a batch: accepted, and said to be
          MinBatch, MaxGrpc,      \* MessageLimits
          Generations,            \* of the server's build root
          MaxAttempts,            \* RetryConfig
          MaxCollections, MaxTrouble  \* bounds of collections and lost calls

ASSUME CasAssumption ==
  /\ IsFiniteSet(Objects) /\ Trees \subseteq Objects /\ Entries \in [Objects -> SUBSET Objects]
  /\ \A o \in Objects \ Trees : Entries[o] = {}
  /\ Size \in [Objects -> Nat] /\ Generations \in Nat \ {0} /\ MaxAttempts \in Nat \ {0}
  /\ {ServerMax, ReportedMax, MinBatch, MaxGrpc, MaxCollections, MaxTrouble} \subseteq Nat

VARIABLES age,          \* generation of each object, Generations: not in CAS
          collections,  \* bound: how often it may still be collected
          limit,        \* client's MaxBatchTransferSize, shared by its threads
          trouble,      \* bound: calls that may still get lost
          pc, then,     \* of each thread; where it goes on after a transfer
          up,           \* its transfer: BatchUpdateBlobs
          tries         \* its attempts of the current call

casVars == <<age, collections>>
upVars  == <<pc, then, up, tries>>

NoTransfer == [blobs |-> {}, left |-> {}, batch |-> {}, updated |-> {}, max |-> 0, failed |-> FALSE]

CasLabels == {"find", "query", "large", "batch", "single"}

CasTypeOK ==
  /\ age \in [Objects -> 0 .. Generations] /\ collections \in 0 .. MaxCollections
  /\ limit \in 0 .. ReportedMax /\ trouble \in 0 .. MaxTrouble
  /\ \A t \in Threads :
       /\ tries[t] \in 0 .. MaxAttempts
       /\ up[t].left \subseteq up[t].blobs /\ up[t].batch \subseteq up[t].left
       /\ up[t].updated \subseteq up[t].blobs \ up[t].left

CasInit ==
  /\ limit = ReportedMax
  /\ then = [t \in Threads |-> "idle"]
  /\ up = [t \in Threads |-> NoTransfer] /\ tries = [t \in Threads |-> 0]

-----------------------------------------------------------------------------
(* The server *)
Closed(S) == \A o \in S : Entries[o] \subseteq S
Below == [o \in Objects |->
            {x \in Objects : \A S \in SUBSET Objects : (o \in S /\ Closed(S)) => x \in S}]

InCas(o) == age[o] < Generations

(* Lookup of S promotes what is there with all it needs. *)
Uplinked(S, a) ==
  [o \in Objects |->
     IF a[o] < Generations /\ \E x \in S : a[x] < Generations /\ o \in Below[x] THEN 0 ELSE a[o]]

(* Mutant of Refused: trees are stored as any blob. *)
RefusedNever(o, S) == FALSE

(* CASContentValidator::Add of S in some order, of trees only with their   *)
(* entries there (CheckTreeInvariant finds, so promotes, them).            *)
Refused(o, S) == o \in Trees /\ \E e \in Entries[o] : ~InCas(e) /\ e \notin S
Storable(S) == \A o \in S : ~Refused(o, S)
Stored(S, a) ==
  [o \in Objects |-> IF o \in S THEN 0 ELSE Uplinked(UNION {Entries[x] : x \in S}, a)[o]]

Lose(n) == trouble >= n /\ trouble' = trouble - n

-----------------------------------------------------------------------------
(* The client. A failed transfer fails the job: none of its callers goes   *)
(* on without what it wanted to upload.                                    *)
Goto(t, label) == pc' = [pc EXCEPT ![t] = label]
TotalSize(S) == MapThenSumSet(LAMBDA o : Size[o], S)

Query(t, S, next) ==
  /\ Goto(t, IF S = {} THEN next ELSE "query") /\ then' = [then EXCEPT ![t] = next] /\ tries' = [tries EXCEPT ![t] = 0]
  /\ up' = [up EXCEPT ![t] = [NoTransfer EXCEPT !.blobs = S]]

UploadBlobs(t, S, skip_find_missing, next) ==
  /\ Goto(t, IF S = {} THEN next ELSE IF skip_find_missing THEN "large" ELSE "find")
  /\ then' = [then EXCEPT ![t] = next] /\ tries' = [tries EXCEPT ![t] = 0]
  /\ up' = [up EXCEPT ![t] = [NoTransfer EXCEPT !.blobs = S,
                                                !.left = IF skip_find_missing THEN S ELSE {}]]

Finish(t) ==
  /\ Goto(t, then[t]) /\ up' = [up EXCEPT ![t] = NoTransfer] /\ tries' = [tries EXCEPT ![t] = 0]
  /\ UNCHANGED then

Fail(t) ==
  /\ Goto(t, "failed") /\ up' = [up EXCEPT ![t] = NoTransfer] /\ tries' = [tries EXCEPT ![t] = 0]
  /\ UNCHANGED then

(* FindMissingBlobs: the missing ones are left in blobs; without an answer *)
(* all are taken for missing.                                              *)
Missing(t, S) ==
  /\ Goto(t, IF pc[t] = "query" \/ S = {} THEN then[t] ELSE "large")
  /\ up' = [up EXCEPT ![t] = [NoTransfer EXCEPT !.blobs = S, !.left = IF pc[t] = "find" THEN S ELSE {}]]
  /\ tries' = [tries EXCEPT ![t] = 0] /\ UNCHANGED then

FindMissingBlobs(t) ==
  /\ pc[t] \in {"find", "query"}
  /\ Missing(t, {o \in up[t].blobs : ~InCas(o)})
  /\ age' = Uplinked(up[t].blobs, age)
  /\ UNCHANGED <<collections, limit, trouble>>

FindMissingLost(t) ==
  /\ pc[t] \in {"find", "query"} /\ Lose(1)
  /\ IF tries[t] + 1 < MaxAttempts
     THEN tries' = [tries EXCEPT ![t] = @ + 1] /\ UNCHANGED <<pc, then, up>>
     ELSE Missing(t, up[t].blobs)
  /\ UNCHANGED <<casVars, limit>>

(* DoUploadBlobs: blobs too large for a message go by stream, which is not *)
(* tried again, then the others in batches.                                *)
UpdateSingleBlob(t, o) ==
  \/ /\ ~Refused(o, {})
     /\ age' = Stored({o}, age) /\ UNCHANGED <<collections, trouble>>
     /\ up' = [up EXCEPT ![t].left = @ \ {o}, ![t].blobs = @ \ {o}] /\ UNCHANGED <<pc, then, tries>>
  \/ /\ Refused(o, {}) \/ trouble > 0
     /\ trouble' = IF Refused(o, {}) THEN trouble ELSE trouble - 1
     /\ IF pc[t] = "large"
        THEN Fail(t)
        ELSE /\ up' = [up EXCEPT ![t].left = @ \ {o}, ![t].failed = TRUE]
             /\ UNCHANGED <<pc, then, tries>>
     /\ UNCHANGED casVars

UploadLarge(t) ==
  /\ pc[t] = "large" /\ UNCHANGED limit
  /\ \/ \E o \in up[t].left : Size[o] > MaxGrpc /\ UpdateSingleBlob(t, o)
     \/ /\ \A o \in up[t].left : Size[o] <= MaxGrpc
        /\ Goto(t, "batch") /\ up' = [up EXCEPT ![t].max = limit]
        /\ UNCHANGED <<then, tries, casVars, trouble>>

(* InitRequest takes blobs, in the order of a hash set, until one does not *)
(* fit; a blob that fits nowhere is skipped.                               *)
InitRequest(t) ==
  /\ pc[t] = "batch" /\ up[t].batch = {} /\ up[t].left # {}
  /\ LET fits(S) == TotalSize(S) <= up[t].max /\ TotalSize(S) <= MaxGrpc
     IN \/ \E S \in (SUBSET up[t].left) \ {{}} :
             /\ fits(S) /\ (S = up[t].left \/ \E o \in up[t].left \ S : ~fits(S \cup {o}))
             /\ up' = [up EXCEPT ![t].batch = S]
        \/ \E o \in up[t].left : ~fits({o}) /\ up' = [up EXCEPT ![t].left = @ \ {o}]
  /\ UNCHANGED <<casVars, limit, trouble, pc, then, tries>>

(* What was updated need not be sent again. *)
Batched(t, S) ==
  /\ up' = [up EXCEPT ![t].left = @ \ up[t].batch, ![t].batch = {}, ![t].updated = @ \cup S]
  /\ tries' = [tries EXCEPT ![t] = 0] /\ UNCHANGED <<pc, then>>

BatchAccepted(t) ==
  /\ pc[t] = "batch" /\ up[t].batch # {} /\ TotalSize(up[t].batch) <= ServerMax
  /\ \E S \in SUBSET up[t].batch :   \* stored until a tree is refused
       /\ Storable(S)
       /\ S # up[t].batch => \E o \in up[t].batch \ S : Refused(o, S)
       /\ age' = Stored(S, age)
       /\ Batched(t, IF S = up[t].batch THEN S ELSE {})
  /\ UNCHANGED <<collections, limit, trouble>>

(* Mutant of ReducedTo: reduced to what has just been refused. *)
ReducedToSame(t) ==
  LET content == TotalSize(up[t].batch)
      asked == Max({Min({up[t].max, content}), MinBatch})
  IN IF content <= MinBatch THEN {} ELSE IF asked <= limit THEN {asked}
     ELSE IF limit < up[t].max THEN {limit} ELSE {}

(* ReduceMaxBatchTransferSize: half of what was refused, or what another   *)
(* thread has reduced the limit to meanwhile; none if that is no progress. *)
ReducedTo(t) ==
  LET content == TotalSize(up[t].batch)
      asked == Max({Min({up[t].max, content}) \div 2, MinBatch})
  IN IF content <= MinBatch THEN {} ELSE IF asked < limit THEN {asked}
     ELSE IF limit < up[t].max THEN {limit} ELSE {}

BatchTooLarge(t) ==
  /\ pc[t] = "batch" /\ up[t].batch # {} /\ TotalSize(up[t].batch) > ServerMax
  /\ IF ReducedTo(t) = {}
     THEN Batched(t, {}) /\ UNCHANGED limit
     ELSE \E new \in ReducedTo(t) :
            /\ limit' = Min({limit, new}) /\ up' = [up EXCEPT ![t].max = new, ![t].batch = {}]
            /\ tries' = [tries EXCEPT ![t] = 0] /\ UNCHANGED <<pc, then>>
  /\ UNCHANGED <<casVars, trouble>>

(* The call gets lost before or after the server has done its work. *)
BatchLost(t) ==
  /\ pc[t] = "batch" /\ up[t].batch # {} /\ Lose(1)
  /\ \/ UNCHANGED age
     \/ TotalSize(up[t].batch) <= ServerMax /\ Storable(up[t].batch) /\ age' = Stored(up[t].batch, age)
  /\ IF tries[t] + 1 < MaxAttempts
     THEN tries' = [tries EXCEPT ![t] = @ + 1] /\ UNCHANGED <<pc, then, up>>
     ELSE Batched(t, {})
  /\ UNCHANGED <<collections, limit>>

(* Mutant of BatchesDone: what was not updated is given up. *)
BatchesDoneOnce(t) ==
  /\ pc[t] = "batch" /\ up[t].left = {}
  /\ IF up[t].blobs = up[t].updated THEN Finish(t) ELSE Fail(t)
  /\ UNCHANGED <<casVars, limit, trouble>>

(* What was not updated is tried again as long as there is any progress,   *)
(* then blob by blob.                                                      *)
BatchesDone(t) ==
  LET missing == up[t].blobs \ up[t].updated
  IN /\ pc[t] = "batch" /\ up[t].left = {}
     /\ IF missing = {} THEN Finish(t)
        ELSE /\ up' = [up EXCEPT ![t] = [NoTransfer EXCEPT !.blobs = missing, !.left = missing, !.max = limit]]
             /\ IF up[t].updated = {} THEN Goto(t, "single") ELSE UNCHANGED pc
             /\ UNCHANGED <<then, tries>>
     /\ UNCHANGED <<casVars, limit, trouble>>

Sequentially(t) ==
  /\ pc[t] = "single" /\ UNCHANGED limit
  /\ \/ \E o \in up[t].left : UpdateSingleBlob(t, o)
     \/ /\ up[t].left = {} /\ IF up[t].failed THEN Fail(t) ELSE Finish(t)
        /\ UNCHANGED <<casVars, trouble>>

Transfer(t) ==
  \/ FindMissingBlobs(t) \/ UploadLarge(t) \/ InitRequest(t) \/ BatchAccepted(t)
  \/ BatchTooLarge(t) \/ BatchesDone(t) \/ Sequentially(t)
TransferLost(t) == FindMissingLost(t) \/ BatchLost(t)

-----------------------------------------------------------------------------
VARIABLES stack,    \* open calls of each thread
          local,    \* objects in the local CAS, which is not collected meanwhile
          done,     \* what the thread knows to be synchronized
          unread    \* trees whose entries could not be read: history

transferVars == <<stack, local, done, unread>>

TransferLabels ==
  {"tree", "available", "level", "nodes", "add", "root", "uploaded",
   "sync", "read", "copy", "ok", "failed"}

TransferTypeOK ==
  /\ local \subseteq Objects /\ unread \subseteq Trees
  /\ \A t \in Threads : done[t] \subseteq Objects /\ Len(stack[t]) <= Cardinality(Objects) + 1

TransferInit ==
  /\ stack = [t \in Threads |-> <<>>] /\ local = {}
  /\ done = [t \in Threads |-> {}] /\ unread = {}

Push(t, frame) == stack' = [stack EXCEPT ![t] = Append(@, frame)]
Top(t) == stack[t][Len(stack[t])]
Pop(t) == stack' = [stack EXCEPT ![t] = SubSeq(@, 1, Len(@) - 1)]
SetTop(t, frame) == stack' = [stack EXCEPT ![t][Len(stack[t])] = frame]
OnlyCall(t) == Len(stack[t]) = 1

-----------------------------------------------------------------------------
(* CommonUploadTreeNative: nothing to do if the root is there.              *)
SubTrees(o) == Entries[o] \cap Trees
OpenNode(t, o) ==
  /\ Push(t, [node |-> o, todo |-> {}, cur |-> o, container |-> {}])
  /\ Query(t, SubTrees(o), "level")

UploadTree(t, root) ==
  /\ pc[t] = "tree" /\ Query(t, {root}, "available")
  /\ UNCHANGED <<casVars, limit, trouble, transferVars>>

Available(t, root) ==
  /\ pc[t] = "available"
  /\ IF up[t].blobs = {}
     THEN /\ Goto(t, "uploaded") /\ UNCHANGED <<stack, then, up, tries>>
     ELSE OpenNode(t, root)
  /\ UNCHANGED <<casVars, limit, trouble, local, done, unread>>

(* CommonUploadBlobTree: the missing nodes, *)
Level(t) ==
  /\ pc[t] = "level" /\ SetTop(t, [Top(t) EXCEPT !.todo = up[t].blobs])
  /\ Goto(t, "nodes") /\ up' = [up EXCEPT ![t] = NoTransfer]
  /\ UNCHANGED <<then, tries, casVars, limit, trouble, local, done, unread>>

(* each after its own nodes, *)
Node(t) ==
  /\ pc[t] = "nodes"
  /\ \E o \in Top(t).todo :
       /\ stack' = [stack EXCEPT ![t] =
            Append([stack[t] EXCEPT ![Len(stack[t])] = [Top(t) EXCEPT !.todo = @ \ {o}, !.cur = o]],
                   [node |-> o, todo |-> {}, cur |-> o, container |-> {}])]
       /\ Query(t, SubTrees(o), "level")
  /\ UNCHANGED <<casVars, limit, trouble, local, done, unread>>

(* go into a container, which is uploaded before it gets too large         *)
(* (UpdateContainerAndUpload),                                             *)
AddNode(t) ==
  LET o == Top(t).cur
      kept(S) == SetTop(t, [Top(t) EXCEPT !.container = S])
  IN /\ pc[t] = "add"
     /\ \/ /\ Size[o] > MaxGrpc
           /\ UploadBlobs(t, {o}, TRUE, "nodes") /\ UNCHANGED stack
        \/ /\ Size[o] <= MaxGrpc /\ o \notin Top(t).container
           /\ TotalSize(Top(t).container) + Size[o] > MaxGrpc
           /\ UploadBlobs(t, Top(t).container, TRUE, "nodes") /\ kept({o})
        \/ /\ Size[o] <= MaxGrpc
           /\ o \in Top(t).container \/ TotalSize(Top(t).container) + Size[o] <= MaxGrpc
           /\ kept(Top(t).container \cup {o}) /\ Goto(t, "nodes") /\ UNCHANGED <<then, up, tries>>
     /\ UNCHANGED <<casVars, limit, trouble, local, done, unread>>

(* and so is the rest of it in the end. *)
CloseNode(t) ==
  /\ pc[t] = "nodes" /\ Top(t).todo = {} /\ Pop(t)
  /\ UploadBlobs(t, Top(t).container, TRUE, IF OnlyCall(t) THEN "root" ELSE "add")
  /\ UNCHANGED <<casVars, limit, trouble, local, done, unread>>

Root(t, root) ==
  /\ pc[t] = "root" /\ UploadBlobs(t, {root}, TRUE, "uploaded")
  /\ UNCHANGED <<casVars, limit, trouble, transferVars>>

-----------------------------------------------------------------------------
(* BazelApi::ParallelRetrieveToCasWithCache                                *)
Retrieve(infos) == [infos |-> infos, missing |-> {}, todo |-> {}, prerequisites |-> {}, failure |-> FALSE]

Enter(t) ==
  LET infos == Top(t).infos \ done[t]
      missing == infos \ local
  IN /\ pc[t] = "sync"
     /\ IF infos = {}
        THEN Pop(t) /\ Goto(t, IF OnlyCall(t) THEN "ok" ELSE "copy")
        ELSE /\ SetTop(t, [Top(t) EXCEPT !.infos = infos, !.missing = missing, !.todo = missing \cap Trees])
             /\ Goto(t, "read")
     /\ UNCHANGED <<then, up, tries, casVars, limit, trouble, local, done, unread>>

(* The direct entries of missing trees come first. A tree that can not be  *)
(* read, which is not tried again, counts as one without entries           *)
(* (TreeReader::ReadDirectTreeEntries).                                    *)
ReadEntries(t) ==
  /\ pc[t] = "read"
  /\ \E o \in Top(t).todo :
       \/ /\ InCas(o) /\ age' = Uplinked({o}, age)
          /\ SetTop(t, [Top(t) EXCEPT !.todo = @ \ {o}, !.prerequisites = @ \cup Entries[o]])
          /\ UNCHANGED <<trouble, unread>>
       \/ /\ ~InCas(o) \/ trouble > 0
          /\ trouble' = IF InCas(o) THEN trouble - 1 ELSE trouble
          /\ SetTop(t, [Top(t) EXCEPT !.todo = @ \ {o}]) /\ unread' = unread \cup {o}
          /\ UNCHANGED age
  /\ UNCHANGED <<collections, limit, upVars, local, done>>

(* Mutant of Prerequisites: entries are copied along with the tree.        *)
PrerequisitesAlong(t) ==
  /\ pc[t] = "read" /\ Top(t).todo = {} /\ Goto(t, "copy")
  /\ SetTop(t, [Top(t) EXCEPT !.missing = @ \cup (Top(t).prerequisites \ local)])
  /\ UNCHANGED <<then, up, tries, casVars, limit, trouble, local, done, unread>>

Prerequisites(t) ==
  /\ pc[t] = "read" /\ Top(t).todo = {}
  /\ Push(t, Retrieve(Top(t).prerequisites)) /\ Goto(t, "sync")
  /\ UNCHANGED <<then, up, tries, casVars, limit, trouble, local, done, unread>>

(* Tasks copy what is missing one by one, in any order, the others go on   *)
(* if one fails. Small blobs are read in a batch of their own, then by     *)
(* stream, large ones, and those of which that batch is refused, by stream.*)
Streamed(o)   == Size[o] > Min({MaxGrpc, limit})
LostToFail(o) == IF Streamed(o) \/ Size[o] > ServerMax THEN 1 ELSE MaxAttempts + 1

(* A refused batch lowers the limit for all (ReduceMaxBatchTransferSize).  *)
TooLarge(o) == ~Streamed(o) /\ Size[o] > ServerMax /\ Size[o] > MinBatch

ReadTooLarge(t) ==
  /\ pc[t] = "copy"
  /\ \E o \in Top(t).missing : TooLarge(o) /\ InCas(o) /\ limit' = Max({Size[o] \div 2, MinBatch})
  /\ UNCHANGED <<casVars, trouble, upVars, transferVars>>

Copy(t) ==
  /\ pc[t] = "copy"
  /\ \E o \in Top(t).missing :
       \/ /\ InCas(o) /\ ~TooLarge(o) /\ age' = Uplinked({o}, age) /\ local' = local \cup {o}
          /\ SetTop(t, [Top(t) EXCEPT !.missing = @ \ {o}]) /\ UNCHANGED trouble
       \/ /\ IF InCas(o) THEN ~TooLarge(o) /\ Lose(LostToFail(o)) ELSE UNCHANGED trouble
          /\ SetTop(t, [Top(t) EXCEPT !.missing = @ \ {o}, !.failure = TRUE]) /\ UNCHANGED <<age, local>>
  /\ UNCHANGED <<collections, limit, upVars, done, unread>>

Copied(t) ==
  /\ pc[t] = "copy" /\ Top(t).missing = {} /\ Pop(t)
  /\ IF Top(t).failure
     THEN Goto(t, "failed") /\ UNCHANGED done
     ELSE /\ done' = [done EXCEPT ![t] = @ \cup Top(t).infos]
          /\ Goto(t, IF OnlyCall(t) THEN "ok" ELSE "copy")
  /\ UNCHANGED <<then, up, tries, casVars, limit, trouble, local, unread>>

SyncStep(t) == Enter(t) \/ Prerequisites(t) \/ Copied(t)
=============================================================================
