----------------------------- MODULE SourceTree -----------------------------
(***************************************************************************)
(* The source-tree service of the serve endpoint: the trees of commits,    *)
(* archives and distdirs, uploads of contents and trees to the remote CAS, *)
(* and the checks and downloads of root trees. A handler holds the shared  *)
(* lock of the repository generations from its begin to its answer; it     *)
(* takes several steps, between which others run and the endpoint may be   *)
(* killed. It looks at the youngest generation only, and at the            *)
(* repositories given in its configuration. The map that resolves symlinks *)
(* lives as long as the endpoint and serves all calls.                     *)
(***************************************************************************)
EXTENDS Naturals, FiniteSets

(***************************************************************************)
(* What the set-up of repositories keeps on disk, at the client (the       *)
(* launcher) and at the serve endpoint: per repository generation a Git    *)
(* cache and the id files that map what a root is described by to its Git  *)
(* tree; the local CAS; and, shared by both, the remote CAS. The client    *)
(* also has directories of distribution files, and may use a Git checkout  *)
(* in place of its Git cache. A tree or a commit enters a Git repository   *)
(* with all below it (packs are written at once).                          *)
(***************************************************************************)
CONSTANTS Commits, Archives, Distdirs, PlainTrees, FilePaths,  \* what roots are described by
          Files,       \* distribution files
          TreeOf,      \* tree of a commit, of an unpacked archive, of a distdir or path
          Below,       \* per object: what comes with it into a store
          Resolved,    \* per tree: the tree with its symlinks resolved
          Generations, \* of repository roots, the youngest is 0
          MaxTrouble,  \* calls, downloads and uploads that fail
          MaxCollections

VARIABLES git, ids,    \* per host and generation: Git cache, id files
          cas, remote, \* per host: local CAS; the remote CAS
          distdir,     \* distribution files of the client
          trouble, collections  \* how many are left

storeVars == <<git, ids, cas, remote, distdir, trouble, collections>>

Hosts == {"client", "serve"}
Repositories == Hosts \cup {"checkout"}
Old   == 1 .. Generations - 1
Described == Commits \cup Archives \cup Distdirs
Linked == {TreeOf[x] : x \in Archives \cup FilePaths}  \* trees that may have symlinks
Trees == PlainTrees \cup {TreeOf[x] : x \in Described} \cup Linked \cup {Resolved[x] : x \in Linked}
Stored  == Archives \cup Files \cup Trees
Objects == Commits \cup Stored
IdFiles == {<<"tree-map", x, TreeOf[x]>> : x \in Described}
           \cup {<<"special-tree-map", t, Resolved[t]>> : t \in Linked}

(* A commit has a tree and comes with it; what is below something comes    *)
(* with all below it; archives and distribution files are blobs, and so is *)
(* what a distdir or a foreign file consists of.                           *)
ASSUME ContentAssumption ==
  /\ Generations \in Nat \ {0} /\ MaxTrouble \in Nat /\ MaxCollections \in Nat
  /\ "none" \notin Objects /\ Commits \cap Stored = {}
  /\ Below \in [Objects -> SUBSET Stored]
  /\ \A o \in Objects : \A x \in Below[o] : Below[x] \subseteq Below[o]
  /\ \A c \in Commits : TreeOf[c] \in Below[c]
  /\ \A x \in Archives \cup Files : Below[x] = {}
  /\ \A d \in Distdirs : Below[TreeOf[d]] \subseteq Archives \cup Files

StoresTypeOK ==
  /\ git \in [Repositories -> [0 .. Generations - 1 -> SUBSET Objects]]
  /\ ids \in [Hosts -> [0 .. Generations - 1 -> SUBSET IdFiles]]
  /\ cas \in [Hosts -> SUBSET Stored]
  /\ remote \subseteq Stored /\ distdir \subseteq Archives \cup Files
  /\ trouble \in 0 .. MaxTrouble /\ collections \in 0 .. MaxCollections

InGit(h, o)   == o \in git[h][0]
IdFile(h, g, map, x) == \E id \in ids[h][g] : id[1] = map /\ id[2] = x
IdOf(h, g, map, x)   == (CHOOSE id \in ids[h][g] : id[1] = map /\ id[2] = x)[3]

(* The youngest of the older generations that has something.               *)
Youngest(G) == CHOOSE g \in G : \A other \in G : g <= other
OldWith(o) == {g \in Old : o \in git["client"][g]}
OldKnowing(map, x) == {g \in Old : IdFile("client", g, map, x)}

WithBelow(o) == {o} \cup Below[o]
ToGit(h, o)  == git' = [git EXCEPT ![h][0] = @ \cup WithBelow(o)]
ToCas(h, o)  == cas' = [cas EXCEPT ![h] = @ \cup WithBelow(o)]
ToRemote(o)  == remote' = remote \cup WithBelow(o)
WriteTreeIDFile(h, map, x, tree) == ids' = [ids EXCEPT ![h][0] = @ \cup {<<map, x, tree>>}]

Trouble == trouble > 0 /\ trouble' = trouble - 1
NoTrouble == UNCHANGED trouble

(* Collection of the repository generations of a host: all of them age. It *)
(* comes with a collection of the local CAS, or not.                       *)
Aged(gens) == [g \in 0 .. Generations - 1 |-> IF g = 0 THEN {} ELSE gens[g - 1]]
Rotate(h) ==
  /\ collections > 0 /\ collections' = collections - 1
  /\ git' = [git EXCEPT ![h] = Aged(@)] /\ ids' = [ids EXCEPT ![h] = Aged(@)]
  /\ cas' \in {cas, [cas EXCEPT ![h] = {}]}
  /\ UNCHANGED <<remote, distdir, trouble>>

(* The remote CAS drops an object, and the trees it is in (see RemoteCas). *)
Evict ==
  /\ collections > 0 /\ collections' = collections - 1
  /\ \E o \in remote : remote' = {x \in remote : o \notin WithBelow(x)}
  /\ UNCHANGED <<git, ids, cas, distdir, trouble>>

-----------------------------------------------------------------------------
CONSTANT Threads

VARIABLES handler,
          cast,       \* how it is configured: known, all objects in the known repositories
          resolving,  \* resolve_symlinks_map_: per tree of an archive
          astray      \* did it, or an undefined read, mislead a call? (history)

mapVars == <<resolving, astray>>
NothingResolved == [x \in Linked |-> "unknown"]

Working  == {"begin", "sync", "find", "retrieve", "import", "write", "resolve", "resolving", "keep",
             "list", "link", "got"}
Answers  == {"OK", "NOT_FOUND", "ERROR"}
Rpcs     == {"none", "commit", "archive", "distdir", "content", "tree", "check", "get"}
NoCall   == [rpc |-> "none", key |-> "none", sync |-> FALSE, special |-> FALSE,
             stage |-> "none", tree |-> "none"]

SourceTreeTypeOK ==
  /\ resolving \in [Linked -> {"unknown", "pending", "awaited", "ready"}] /\ astray \in BOOLEAN
  /\ handler \in [Threads -> [rpc : Rpcs, key : Objects \cup Distdirs \cup {"none"}, sync : BOOLEAN, special : BOOLEAN,
                           stage : Working \cup Answers \cup {"none"}, tree : Objects \cup {"none"}]]

Calls(t, rpc, key, sync, special) ==
  handler' = [handler EXCEPT ![t] = [rpc |-> rpc, key |-> key, sync |-> sync, special |-> special,
                                     stage |-> "begin", tree |-> "none"]]
Answered(t) == handler[t].stage \in Answers
Serving(t)  == handler[t].stage \in Working

Begins(t, rpc) == handler[t].stage = "begin" /\ handler[t].rpc = rpc
At(t, stage)   == handler[t].stage = stage
GoesTo(t, stage, tree) == handler' = [handler EXCEPT ![t].stage = stage, ![t].tree = tree]
Goes(t, stage, tree) == GoesTo(t, stage, tree) /\ UNCHANGED mapVars
Ends(t, status) == Goes(t, status, handler[t].tree)
Misled(t) == GoesTo(t, "ERROR", handler[t].tree) /\ astray' = TRUE

(* The endpoint goes down and is started again: all calls fail.            *)
Restart ==
  /\ handler' = [t \in Threads |-> IF Serving(t) THEN [handler[t] EXCEPT !.stage = "ERROR"] ELSE handler[t]]
  /\ resolving' = NothingResolved
Crash == Restart /\ astray' = TRUE

(* In the Git cache, or in a known repository.                             *)
Has(o) == InGit("serve", o) \/ o \in cast.known

(* ServeCommitTree                                                         *)
ServeCommitTree(t) ==
  /\ Begins(t, "commit")
  /\ LET commit == handler[t].key IN
     IF Has(commit) THEN Goes(t, IF handler[t].sync THEN "sync" ELSE "OK", TreeOf[commit])
     ELSE Ends(t, "NOT_FOUND")
  /\ UNCHANGED storeVars

(* SyncGitEntryToCas, or the same from the local CAS                       *)
Sync(t) ==
  /\ At(t, "sync")
  /\ \/ ToRemote(handler[t].tree) /\ Ends(t, "OK") /\ NoTrouble
     \/ Trouble /\ Ends(t, "ERROR") /\ UNCHANGED remote
  /\ UNCHANGED <<git, ids, cas, distdir, collections>>

(* ServeArchiveTree: the tree is known, or the archive has to be found:    *)
ServeArchiveTree(t) ==
  /\ Begins(t, "archive")
  /\ LET archive == handler[t].key IN
     IF ~IdFile("serve", 0, "tree-map", archive) THEN Ends(t, "find")
     ELSE LET tree == IdOf("serve", 0, "tree-map", archive) IN
          IF Has(tree) THEN Goes(t, "resolve", tree) ELSE Ends(t, "ERROR")
  /\ UNCHANGED storeVars

(* in the local CAS or in a repository (after a find in the Git cache an   *)
(* error is read that is not there: whatever that does),                   *)
FindArchive(t) ==
  /\ At(t, "find")
  /\ LET archive == handler[t].key IN
     \/ (archive \in cas["serve"] \/ Has(archive)) /\ ToCas("serve", archive) /\ Ends(t, "import")
     \/ archive \notin cas["serve"] /\ ~Has(archive) /\ UNCHANGED cas /\ Ends(t, "retrieve")
     \/ /\ archive \notin cas["serve"] /\ InGit("serve", archive) /\ ToCas("serve", archive)
        /\ \/ Crash
           \/ Misled(t) /\ UNCHANGED resolving
  /\ UNCHANGED <<git, ids, remote, trouble, distdir, collections>>

(* or in the remote CAS.                                                   *)
RetrieveArchive(t) ==
  /\ At(t, "retrieve")
  /\ LET archive == handler[t].key IN
     \/ archive \in remote /\ ToCas("serve", archive) /\ Ends(t, "import") /\ NoTrouble
     \/ (IF archive \in remote THEN Trouble ELSE NoTrouble) /\ Ends(t, "NOT_FOUND") /\ UNCHANGED cas
  /\ UNCHANGED <<git, ids, remote, distdir, collections>>

(* Mutant of ArchiveImportToGit: the id is written, the tree not imported. *)
ArchiveIdFirst(t) ==
  /\ At(t, "import")
  /\ LET tree == TreeOf[handler[t].key] IN
     WriteTreeIDFile("serve", "tree-map", handler[t].key, tree) /\ Goes(t, "write", tree)
  /\ UNCHANGED <<git, cas, remote, trouble, distdir, collections>>

(* ArchiveImportToGit: it is unpacked and imported, then the id is written,*)
ArchiveImportToGit(t) ==
  /\ At(t, "import")
  /\ LET tree == TreeOf[handler[t].key] IN ToGit("serve", tree) /\ Goes(t, "write", tree)
  /\ UNCHANGED <<ids, cas, remote, trouble, distdir, collections>>

WriteArchiveId(t) ==
  /\ At(t, "write")
  /\ WriteTreeIDFile("serve", "tree-map", handler[t].key, handler[t].tree) /\ Ends(t, "resolve")
  /\ UNCHANGED <<git, cas, remote, trouble, distdir, collections>>

(* ResolveContentTree: unless the resolved tree is known, the map computes *)
(* it, into the Git cache; what it has done before it does not do again,   *)
(* and what it does for another call this call does not wait for: that is  *)
(* left to a task system of its own, which has no tasks and ends.          *)
ResolveContentTree(t) ==
  /\ At(t, "resolve")
  /\ LET tree == handler[t].tree
         unknown == handler[t].special /\ ~IdFile("serve", 0, "special-tree-map", tree)
     IN \/ ~handler[t].special /\ Ends(t, "OK")
        \/ /\ handler[t].special /\ IdFile("serve", 0, "special-tree-map", tree)
           /\ Goes(t, "OK", IdOf("serve", 0, "special-tree-map", tree))
        \/ /\ unknown /\ resolving[tree] = "unknown" /\ GoesTo(t, "resolving", tree)
           /\ resolving' = [resolving EXCEPT ![tree] = "pending"] /\ UNCHANGED astray
        \/ unknown /\ resolving[tree] = "ready" /\ Goes(t, "keep", Resolved[tree])
        \/ /\ unknown /\ resolving[tree] \in {"pending", "awaited"} /\ Misled(t)
           /\ resolving' = [resolving EXCEPT ![tree] = "awaited"]
  /\ UNCHANGED storeVars

(* The tree is resolved; for those that did not wait, memory is used that  *)
(* is theirs no more.                                                      *)
ResolveTree(t) ==
  /\ At(t, "resolving")
  /\ LET tree == handler[t].tree IN
     /\ ToGit("serve", Resolved[tree])
     /\ \/ /\ GoesTo(t, "keep", Resolved[tree]) /\ UNCHANGED astray
           /\ resolving' = [resolving EXCEPT ![tree] = "ready"]
        \/ resolving[tree] = "awaited" /\ Crash
  /\ UNCHANGED <<ids, cas, remote, trouble, distdir, collections>>

(* It is tagged in the Git cache, if it is there, and its id written.      *)
WriteResolvedId(t) ==
  /\ At(t, "keep")
  /\ \/ /\ InGit("serve", handler[t].tree) /\ Ends(t, "OK")
        /\ WriteTreeIDFile("serve", "special-tree-map", TreeOf[handler[t].key], handler[t].tree)
     \/ ~InGit("serve", handler[t].tree) /\ Misled(t) /\ UNCHANGED <<resolving, ids>>
  /\ UNCHANGED <<git, cas, remote, trouble, distdir, collections>>

(* ServeDistdirTree: all files are gathered in the local CAS,              *)
ServeDistdirTree(t) ==
  /\ Begins(t, "distdir")
  /\ LET dir == TreeOf[handler[t].key]
         local == {o \in Below[dir] : o \in cas["serve"] \/ Has(o)}
     IN \/ /\ Below[dir] \subseteq local \cup remote
           /\ cas' = [cas EXCEPT !["serve"] = @ \cup Below[dir]] /\ Goes(t, "list", dir) /\ NoTrouble
        \/ ~(Below[dir] \subseteq local \cup remote) /\ Ends(t, "NOT_FOUND") /\ UNCHANGED <<cas, trouble>>
        \/ ~(Below[dir] \subseteq local) /\ Trouble /\ Ends(t, "ERROR") /\ UNCHANGED cas
  /\ UNCHANGED <<git, ids, remote, distdir, collections>>

(* the tree is put there, too, and, unless it is in a repository,          *)
StoreDistdirTree(t) ==
  /\ At(t, "list")
  /\ LET dir == handler[t].tree IN
     /\ ToCas("serve", dir)
     /\ Ends(t, IF ~Has(dir) THEN "link" ELSE IF handler[t].sync THEN "sync" ELSE "OK")
  /\ UNCHANGED <<git, ids, remote, trouble, distdir, collections>>

(* imported from there.                                                    *)
DistdirImportToGit(t) ==
  /\ At(t, "link")
  /\ ToGit("serve", handler[t].tree) /\ Ends(t, IF handler[t].sync THEN "sync" ELSE "OK")
  /\ UNCHANGED <<ids, cas, remote, trouble, distdir, collections>>

(* ServeContent and ServeTree: what is in a repository or in the local CAS *)
(* is put into the remote CAS.                                             *)
Supplies(t) ==
  LET o == handler[t].key IN
  IF Has(o) \/ o \in cas["serve"] THEN Goes(t, "sync", o) ELSE Ends(t, "NOT_FOUND")
ServeContent(t) == Begins(t, "content") /\ Supplies(t) /\ UNCHANGED storeVars
ServeTree(t)    == Begins(t, "tree") /\ Supplies(t) /\ UNCHANGED storeVars

(* Mutant of CheckRootTree: the tree is left in the CAS.                   *)
CheckAnyTree(t) ==
  /\ Begins(t, "check")
  /\ Goes(t, IF Has(handler[t].key) \/ handler[t].key \in cas["serve"] THEN "OK" ELSE "NOT_FOUND", handler[t].key)
  /\ UNCHANGED storeVars

(* CheckRootTree: a tree in the local CAS is imported first.               *)
CheckRootTree(t) ==
  /\ Begins(t, "check")
  /\ LET tree == handler[t].key IN
     \/ Has(tree) /\ Ends(t, "OK") /\ UNCHANGED git
     \/ ~Has(tree) /\ tree \in cas["serve"] /\ ToGit("serve", tree) /\ Ends(t, "OK")
     \/ ~Has(tree) /\ tree \notin cas["serve"] /\ Ends(t, "NOT_FOUND") /\ UNCHANGED git
  /\ UNCHANGED <<ids, cas, remote, trouble, distdir, collections>>

(* GetRemoteTree: from the remote CAS into the local one, and imported.    *)
GetRemoteTree(t) ==
  /\ Begins(t, "get")
  /\ LET tree == handler[t].key IN
     \/ tree \in remote /\ ToCas("serve", tree) /\ Ends(t, "got") /\ NoTrouble
     \/ tree \in remote /\ Trouble /\ Ends(t, "ERROR") /\ UNCHANGED cas
     \/ tree \notin remote /\ Ends(t, "ERROR") /\ UNCHANGED <<cas, trouble>>
  /\ UNCHANGED <<git, ids, remote, distdir, collections>>

ImportRemoteTree(t) ==
  /\ At(t, "got") /\ ToGit("serve", handler[t].key) /\ Ends(t, "OK")
  /\ UNCHANGED <<ids, cas, remote, trouble, distdir, collections>>

ServeKilled ==
  /\ \E t \in Threads : Serving(t)
  /\ Trouble /\ Restart
  /\ UNCHANGED <<git, ids, cas, remote, distdir, collections, astray>>

(* Garbage collection of its repository generations: exclusive.            *)
ServeCollects ==
  /\ \A t \in Threads : ~Serving(t)
  /\ Rotate("serve") /\ UNCHANGED <<handler, mapVars>>
=============================================================================
