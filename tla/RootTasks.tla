----------------------------- MODULE RootTasks ------------------------------
(***************************************************************************)
(* The launcher setting up the roots of a multi-repository build, a task   *)
(* for each. A root is present, a tree in the Git cache or in a checkout,  *)
(* or absent, a tree the serve endpoint, if there is one, is to know. This *)
(* module has what the maps that make the roots share: how a task goes on, *)
(* calls the serve endpoint and ends; imports to Git; and the uploads of   *)
(* trees to the serve endpoint.                                            *)
(***************************************************************************)
EXTENDS SourceTree

CONSTANT Casts  \* set of [cast : what is asked for and where (root per task, serve,
                \* fetch, checkout, upstream, runs, known), and the stores]

VARIABLES pc, object,\* per task: where it is; the tree or file it is about
          hit,       \* was its tree known: to the client before, or to the remote CAS?
          root,      \* what was set up
          runs,      \* how many are left
          near,      \* where it could be got from when the run began: history
          begun,     \* trouble and collections left when the run began: history
          kept       \* the serve endpoint was not collected since: history

taskVars == <<pc, object, hit, root>>
historyVars == <<runs, near, begun, kept>>

Kind(t)    == cast.root[t].kind
Key(t)     == cast.root[t].key
Special(t) == cast.root[t].special
Absent(t)  == cast.root[t].absent
WithServe  == cast.serve
Upstream   == cast.upstream
Elsewhere  == UNCHANGED <<taskVars, historyVars, cast>>
Kinds      == {"git", "archive", "distdir", "foreign file", "file", "git tree"}
Wanted(t)  == CASE Kind(t) = "git tree" -> Key(t)
                [] Special(t) -> Resolved[TreeOf[Key(t)]]
                [] OTHER -> TreeOf[Key(t)]

(* The first run may only fetch ("plain"), and back up what it fetched;    *)
Fetching   == cast.fetch # "no" /\ runs = cast.runs - 1
BackingUp  == Fetching /\ cast.fetch = "backup"

(* git repositories and paths may lie in a checkout.                       *)
Repo(t) == IF cast.checkout /\ Kind(t) \in {"git", "file"} THEN "checkout" ELSE "client"

(* Only archives and paths have their symlinks resolved, and a checkout has *)
(* the trees of the paths in it. The stores are those an earlier run may    *)
(* have left: a commit is there with its tree, the tree of an id file is in *)
(* the Git cache of its generation, and a tree in the local CAS with all    *)
(* below it.                                                                *)
KeysOf(kind) == CASE kind = "git" -> Commits [] kind = "archive" -> Archives [] kind = "file" -> FilePaths
                  [] kind = "git tree" -> Trees [] OTHER -> Distdirs
ASSUME SetupAssumption ==
  \A c \in Casts :
    /\ DOMAIN c.cast.root = Threads
    /\ \A t \in Threads : LET r == c.cast.root[t] IN
         /\ r.kind \in Kinds /\ r.key \in KeysOf(r.kind) /\ r.special \in BOOLEAN /\ r.absent \in BOOLEAN
         /\ r.special => r.kind \in {"archive", "file"}
         /\ c.cast.checkout /\ r.kind = "file" => TreeOf[r.key] \in c.git["checkout"][0]
    /\ c.cast.serve \in BOOLEAN /\ c.cast.checkout \in BOOLEAN /\ c.cast.runs \in Nat
    /\ c.cast.fetch \in {"no", "plain", "backup"}
    /\ c.git \in [Repositories -> [0 .. Generations - 1 -> SUBSET Objects]]
    /\ c.ids \in [Hosts -> [0 .. Generations - 1 -> SUBSET IdFiles]]
    /\ c.cas \in [Hosts -> SUBSET Stored] /\ c.remote \subseteq Stored
    /\ c.distdir \subseteq Archives \cup Files
    /\ c.trouble \in 0 .. MaxTrouble /\ c.collections \in 0 .. MaxCollections
    /\ \A commit \in Commits :
         /\ commit \in c.cast.known => TreeOf[commit] \in c.cast.known
         /\ \A h \in Repositories, g \in 0 .. Generations - 1 :
              commit \in c.git[h][g] => TreeOf[commit] \in c.git[h][g]
    /\ \A h \in Hosts, g \in 0 .. Generations - 1 : \A id \in c.ids[h][g] : id[3] \in c.git[h][g]
    /\ \A x \in c.cas["client"] : Below[x] \subseteq c.cas["client"]

Outcome(state, x, repo) == [state |-> state, tree |-> x, repo |-> repo]
Unset  == Outcome("unset", "none", "none")
Labels == {"idle", "start", "take", "taken", "moved", "known", "served", "local", "blob", "content", "stored",
           "content_served", "retrieve", "fetch", "made", "tag", "copy", "extract", "link", "import",
           "imported", "write_id", "resolve", "keep", "settle", "checked", "asked", "upload", "uploaded",
           "tree_checked", "dir_checked", "dir_asked", "dir_served", "done"}

TasksTypeOK ==
  /\ StoresTypeOK /\ SourceTreeTypeOK
  /\ cast \in {c.cast : c \in Casts}
  /\ pc \in [Threads -> Labels] /\ object \in [Threads -> Objects \cup Distdirs \cup {"none"}]
  /\ hit \in [Threads -> BOOLEAN]
  /\ root \in [Threads -> [state : {"unset", "failed", "fetched", "skipped", "present", "absent"},
                           tree : Objects \cup Distdirs \cup {"none"}, repo : Repositories \cup {"none"}]]
  /\ runs \in 0 .. cast.runs /\ near \in [Threads -> {"local", "serve", "upstream", "nowhere"}]
  /\ begun \in (0 .. MaxTrouble) \X (0 .. MaxCollections) /\ kept \in BOOLEAN

TasksInit ==
  /\ \E c \in Casts :
       /\ cast = c.cast
       /\ git = c.git /\ ids = c.ids /\ cas = c.cas /\ remote = c.remote /\ distdir = c.distdir
       /\ trouble = c.trouble /\ collections = c.collections
  /\ handler = [t \in Threads |-> NoCall]
  /\ pc = [t \in Threads |-> "idle"] /\ object = [t \in Threads |-> "none"]
  /\ hit = [t \in Threads |-> FALSE] /\ root = [t \in Threads |-> Unset]
  /\ runs = cast.runs /\ near = [t \in Threads |-> "nowhere"]
  /\ begun = <<trouble, collections>> /\ kept = TRUE
  /\ resolving = NothingResolved /\ astray = FALSE

-----------------------------------------------------------------------------
(* A task goes on, calls the serve endpoint, or ends.                      *)
Learn(t, label, x, known) ==
  /\ pc' = [pc EXCEPT ![t] = label] /\ object' = [object EXCEPT ![t] = x]
  /\ hit' = [hit EXCEPT ![t] = known]
  /\ handler' = [handler EXCEPT ![t] = NoCall] /\ UNCHANGED <<root, cast, mapVars, historyVars>>
Move(t, label, x) == Learn(t, label, x, hit[t])

Ask(t, rpc, key, x, label) ==
  /\ Calls(t, rpc, key, rpc \in {"commit", "distdir"} /\ ~Absent(t), rpc = "archive" /\ Special(t))
  /\ pc' = [pc EXCEPT ![t] = label] /\ object' = [object EXCEPT ![t] = x]
  /\ UNCHANGED <<hit, root, cast, mapVars, historyVars>>

Finish(t, outcome) ==
  /\ root' = [root EXCEPT ![t] = outcome]
  /\ pc' = [pc EXCEPT ![t] = "done"] /\ object' = [object EXCEPT ![t] = "none"]
  /\ handler' = [handler EXCEPT ![t] = NoCall] /\ UNCHANGED <<hit, cast, mapVars, historyVars>>
SetPresent(t, x, repo) == Finish(t, Outcome("present", x, repo))
SetAbsent(t, x) == Finish(t, Outcome("absent", x, "none"))
Fails(t) == Finish(t, Outcome("failed", "none", "none"))

(* An absent root found locally is made known to the serve endpoint.       *)
Settle(t, x, repo) ==
  IF ~Absent(t) THEN SetPresent(t, x, repo)
  ELSE IF WithServe THEN Ask(t, "check", x, x, "checked")
  ELSE SetAbsent(t, x)

Starts(t, kind) == pc[t] = "start" /\ Kind(t) = kind /\ ~Fetching
Turn(t) == Fetching => \A other \in Threads : Kind(other) = "git tree" \/ pc[other] = "done"
AtFor(t, label, kind) == pc[t] = label /\ Kind(t) = kind
Answer(t, label) == pc[t] = label /\ Answered(t)
Says(t, status)  == handler[t].stage = status
StoresSame == UNCHANGED storeVars
OnlyGit == UNCHANGED <<ids, cas, remote, distdir, trouble, collections>>
OnlyIds == UNCHANGED <<git, cas, remote, distdir, trouble, collections>>
OnlyCas == UNCHANGED <<git, ids, remote, distdir, collections>>     \* and trouble
OnlyRemote == UNCHANGED <<git, ids, cas, distdir, collections>>     \* and trouble
OnlyTrouble == UNCHANGED <<git, ids, cas, remote, distdir, collections>>

(* A critical Git operation fails: initialising, tagging, committing to or *)
(* fetching from a repository.                                             *)
InGitOperation(t) ==
  \/ pc[t] \in {"take", "taken", "known", "tag", "made", "import", "imported", "keep"}
  \/ AtFor(t, "local", "git tree") \/ AtFor(t, "start", "git")
  \/ AtFor(t, "start", "git tree") /\ ~Absent(t) /\ Turn(t)
  \/ pc[t] = "start" /\ Repo(t) = "checkout"
CriticalGitOpFails(t) == InGitOperation(t) /\ Trouble /\ Fails(t) /\ OnlyTrouble

-----------------------------------------------------------------------------
(* import_to_git_map: the content is committed to a repository of its own  *)
(* and fetched from there into the Git cache, where the commit is tagged.  *)
ImportToGit(t) ==
  /\ pc[t] = "import"
  /\ ToGit("client", object[t]) /\ Move(t, "imported", object[t]) /\ OnlyGit

AfterImport(t) == IF Kind(t) = "git tree" THEN IF Absent(t) THEN "upload" ELSE "stored"
                  ELSE IF Kind(t) = "file" THEN "resolve" ELSE "write_id"
KeepCommitAndSetTree(t) ==
  /\ pc[t] = "imported" /\ Move(t, AfterImport(t), object[t]) /\ StoresSame

-----------------------------------------------------------------------------
(* UploadTree: through the remote CAS, from the repository the tree was    *)
(* found in; then the serve endpoint gets it from there.                   *)
Source(t) == IF InGit(Repo(t), object[t]) THEN Repo(t) ELSE "client"
UploadTree(t) ==
  /\ pc[t] = "upload"
  /\ \/ /\ InGit(Source(t), object[t]) /\ NoTrouble
        /\ ToRemote(object[t]) /\ Ask(t, "get", object[t], object[t], "uploaded")
     \/ (IF InGit(Source(t), object[t]) THEN Trouble ELSE NoTrouble) /\ Fails(t) /\ UNCHANGED remote
  /\ OnlyRemote

(* The root is absent then; one that is present does not need the endpoint *)
(* to succeed.                                                             *)
Uploaded(t) ==
  /\ Answer(t, "uploaded")
  /\ IF ~Absent(t) THEN SetPresent(t, object[t], Source(t))
     ELSE IF Says(t, "OK") THEN SetAbsent(t, object[t]) ELSE Fails(t)
  /\ StoresSame
=============================================================================
