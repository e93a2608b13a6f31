------------------------------ MODULE RootMaps ------------------------------
(***************************************************************************)
(* The set-up of the roots of a multi-repository build: the tasks of the   *)
(* root maps, together with the source-tree service of the serve endpoint. *)
(* Sources are looked for in the local stores, at the serve endpoint, in   *)
(* the remote CAS and last in the network. The launcher may be killed and  *)
(* run again, maybe only to fetch; between its runs its repository         *)
(* generations may be collected.                                           *)
(***************************************************************************)
EXTENDS CommitGitMap, ContentGitMap, DistfileGitMaps, TreeGitMaps

vars == <<storeVars, handler, cast, mapVars, taskVars, historyVars>>

TypeOK == TasksTypeOK
Init   == TasksInit

TaskStep(t) ==
  \/ CommitStep(t) \/ ArchiveStep(t) \/ ContentStep(t) \/ DistdirStep(t) \/ ForeignFileStep(t)
  \/ PathStep(t) \/ TreeIdStep(t)
  \/ CriticalGitOpFails(t) \/ ImportToGit(t) \/ KeepCommitAndSetTree(t) \/ UploadTree(t) \/ Uploaded(t)

Idle     == \A t \in Threads : pc[t] = "idle"
Finished == \A t \in Threads : pc[t] = "done"

-----------------------------------------------------------------------------
(* What is nearest for a task when a run begins (properties only).         *)
OldId(t) == \E g \in 0 .. Generations - 1 : IdFile("client", g, "tree-map", Key(t))
AllLocal(t) == \A o \in Contents(t) : Locally(o)
KnownLocally(t, fetching) ==
  LET x == Key(t) IN
  CASE Kind(t) = "git" -> InGit(Repo(t), x) \/ OldWith(x) # {} \/ KnowTree(t)
    [] Kind(t) = "archive" ->
         \/ OldId(t) /\ ~fetching
         \/ IF Absent(t) THEN x \in cas["client"] \cup distdir \/ InGit("client", x) ELSE Locally(x)
    [] Kind(t) = "distdir" -> DirId(t) \/ Dir(t) \in cas["client"] \/ IF Absent(t) THEN ~WithServe ELSE AllLocal(t)
    [] Kind(t) = "foreign file" ->
         IF Absent(t) THEN ~WithServe ELSE (FileId(t) /\ ~fetching) \/ AllLocal(t)
    [] Kind(t) = "file" -> TRUE
    [] OTHER -> IF Absent(t) THEN ~WithServe \/ x \in cas["client"] \/ InGit("client", x)
                ELSE x \in cas["client"] \/ InGit("client", x) \/ OldWith(x) # {}
ServeFinds(o) == o \in remote \/ (WithServe /\ (Has(o) \/ o \in cas["serve"]))
AllFound(t)   == \A o \in Contents(t) : ServeFinds(o) \/ (~Absent(t) /\ Locally(o))
KnownToServe(t) ==
  LET x == Key(t) IN
  CASE Kind(t) = "git" -> WithServe /\ Has(x)
    [] Kind(t) = "archive" -> \/ ServeFinds(x) /\ (WithServe \/ ~Absent(t))
                              \/ WithServe /\ Absent(t) /\ IdFile("serve", 0, "tree-map", x)
    [] Kind(t) = "distdir" -> AllFound(t) \/ (Absent(t) /\ ServeFinds(Dir(t)))
    [] Kind(t) = "foreign file" ->
         AllFound(t) \/ (Absent(t) /\ (Has(FileTree(t)) \/ FileTree(t) \in cas["serve"]))
    [] OTHER -> ServeFinds(x)
Reachable(t) ==
  IF Kind(t) \in {"distdir", "foreign file"} THEN \A o \in Contents(t) : Locally(o) \/ ServeFinds(o) \/ o \in Upstream
  ELSE Key(t) \in Upstream
Nearest(t, fetching) ==
  IF KnownLocally(t, fetching) THEN "local" ELSE IF KnownToServe(t) THEN "serve"
  ELSE IF ~Absent(t) /\ Reachable(t) THEN "upstream" ELSE "nowhere"

(* A run for all roots (MultiRepoSetup), or only for those that come from  *)
(* elsewhere and are not absent (MultiRepoFetch).                          *)
FetchesFirst == cast.fetch # "no" /\ runs = cast.runs
Run(chosen, fetching) ==
  /\ Idle /\ \A t \in Threads : ~Serving(t)
  /\ runs > 0 /\ runs' = runs - 1
  /\ pc' = [t \in Threads |-> IF t \in chosen THEN "start" ELSE "done"]
  /\ root' = [t \in Threads |-> IF t \in chosen THEN Unset ELSE Outcome("skipped", "none", "none")]
  /\ near' = [t \in Threads |-> Nearest(t, fetching)]
  /\ begun' = <<trouble, collections>> /\ kept' = TRUE /\ astray' = FALSE
  /\ UNCHANGED <<storeVars, handler, cast, resolving, object, hit>>
MultiRepoSetup == ~FetchesFirst /\ Run(Threads, FALSE)
Fetchable(t) == Kind(t) \in {"archive", "foreign file", "git tree"} /\ ~Absent(t)
MultiRepoFetch == FetchesFirst /\ Run({t \in Threads : Fetchable(t)}, TRUE)

(* The roots have been used, or the launcher is killed; its locks go.      *)
Forget ==
  /\ pc' = [t \in Threads |-> "idle"] /\ object' = [t \in Threads |-> "none"]
  /\ hit' = [t \in Threads |-> FALSE] /\ root' = [t \in Threads |-> Unset]
  /\ handler' = [t \in Threads |-> IF Serving(t) THEN handler[t] ELSE NoCall]
  /\ UNCHANGED <<git, ids, cas, remote, distdir, collections, cast, resolving, runs>>
  /\ near' = [t \in Threads |-> "nowhere"] /\ kept' = TRUE
  /\ begun' = <<trouble', collections'>> /\ astray' = FALSE
End == Finished /\ NoTrouble /\ Forget
Killed == ~Idle /\ ~Finished /\ Trouble /\ Forget

Serve(t) ==
  \/ ServeCommitTree(t) \/ Sync(t)
  \/ ServeArchiveTree(t) \/ FindArchive(t) \/ RetrieveArchive(t) \/ ArchiveImportToGit(t) \/ WriteArchiveId(t)
  \/ ResolveContentTree(t) \/ ResolveTree(t) \/ WriteResolvedId(t)
  \/ ServeDistdirTree(t) \/ StoreDistdirTree(t) \/ DistdirImportToGit(t)
  \/ ServeContent(t) \/ ServeTree(t) \/ CheckRootTree(t) \/ GetRemoteTree(t) \/ ImportRemoteTree(t)

Next ==
  \/ MultiRepoSetup \/ MultiRepoFetch \/ End \/ Killed
  \/ \E t \in Threads : TaskStep(t)
  \/ \E t \in Threads : Serve(t) /\ Elsewhere
  \/ ServeKilled /\ Elsewhere
  \/ Evict /\ Elsewhere /\ UNCHANGED <<handler, mapVars>>
  \/ Idle /\ Rotate("client") /\ Elsewhere /\ UNCHANGED <<handler, mapVars>>
  \/ ServeCollects /\ kept' = FALSE /\ UNCHANGED <<taskVars, runs, near, begun, cast>>

Spec == Init /\ [][Next]_vars

-----------------------------------------------------------------------------
(* Nothing failed, was evicted or collected since the run began.           *)
Calm == begun = <<trouble, collections>>

(* Every tree an id file names is in the Git cache of the same generation, *)
(* at the client and at the serve endpoint, whenever either of them is     *)
(* killed and whichever generations are collected: "We keep the invariant, *)
(* that, whenever a cache entry is written, the root is in our git root"   *)
(* (UseCacheHit) relies on it, as do all uses of id files without a check. *)
IdsAreBacked ==
  \A h \in Hosts, g \in 0 .. Generations - 1 : \A id \in ids[h][g] : id[3] \in git[h][g]

(* As long as the run holds its locks, a present root is the tree asked    *)
(* for and is in the repository it is said to be in, whichever way it came *)
(* there; and what was fetched is in the fetch directory and in the CAS.   *)
PresentRootsAvailable ==
  \A t \in Threads :
    /\ root[t].state = "present" => root[t].tree = Wanted(t) /\ InGit(root[t].repo, Wanted(t))
    /\ root[t].state = "fetched" => Contents(t) \subseteq cas["client"] \cap distdir

(* An absent root is the tree asked for, and the serve endpoint can build  *)
(* against it (it is in its youngest Git cache or in a known repository)   *)
(* unless the endpoint's repositories were collected since the run began.  *)
(* Foreign files are set up all the same if the endpoint cannot make them. *)
AbsentRootsServed ==
  \A t \in Threads : root[t].state = "absent" =>
    /\ root[t].tree = Wanted(t)
    /\ WithServe /\ kept /\ (Kind(t) = "foreign file" => near[t] = "serve" /\ Calm) => Has(Wanted(t))

(* The network is used last: never for what was in a local store, in any   *)
(* generation that is looked at, when the run began; and, unless something *)
(* failed or was collected since, not for what the serve endpoint or the   *)
(* remote CAS had.                                                         *)
NetworkIsLast ==
  \A t \in Threads : pc[t] = "fetch" => near[t] # "local" /\ (Calm /\ ~astray => near[t] # "serve")

(* A root fails only if nobody had it, or something failed or was          *)
(* collected during the run, or the serve endpoint misled a call (it asked *)
(* for a tree that is being resolved for another call, or was before a     *)
(* collection, or for an archive in the Git cache): a run after a killed   *)
(* one, or a collection, finds what that one left in a usable state.       *)
FailureHasCause ==
  \A t \in Threads : root[t].state = "failed" => near[t] = "nowhere" \/ ~Calm \/ astray
=============================================================================
