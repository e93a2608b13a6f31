---------------------------- MODULE TreeGitMaps ----------------------------
(***************************************************************************)
(* The roots that are trees. Git trees are brought into the Git cache      *)
(* (git_tree_fetch_map): from an older generation, the local CAS, through  *)
(* the serve endpoint, from the remote CAS, and last made by the command of*)
(* their description, in a repository of its own. An absent one need not be*)
(* known to the client, if the serve endpoint has it or gets it from the   *)
(* remote CAS (tree_id_git_map). `just-mr fetch` may back trees up to the  *)
(* remote CAS; it comes to them when it is done with the archives.         *)
(* A directory of the file system (fpath_git_map) becomes what is committed*)
(* there if the path lies in a checkout, or a copy that is imported. The   *)
(* serve endpoint, if there is one, gets to know the tree of present roots,*)
(* too.                                                                    *)
(***************************************************************************)
EXTENDS RootTasks

(* Mutant of OldTree: the older generations are not consulted.             *)
NoOldTree(t)  == FALSE

OldTree(t)    == OldWith(Key(t)) # {}
TreeStarts(t) == pc[t] = "start" /\ Kind(t) = "git tree" /\ ~Absent(t) /\ Turn(t)
NeedTree(t)   == TreeStarts(t) /\ ~InGit("client", Key(t)) /\ ~OldTree(t)

TreeInGitCache(t) ==
  /\ TreeStarts(t) /\ InGit("client", Key(t))
  /\ Move(t, "stored", Key(t)) /\ StoresSame

(* A tree of an older generation is tagged there,                          *)
TreeInOlderGeneration(t) ==
  /\ TreeStarts(t) /\ ~InGit("client", Key(t)) /\ OldTree(t)
  /\ Move(t, "take", Key(t)) /\ StoresSame

(* fetched, and tagged again.                                              *)
TakeTreeFromOlderGeneration(t) ==
  /\ AtFor(t, "take", "git tree")
  /\ ToGit("client", Key(t)) /\ Move(t, "tag", Key(t)) /\ OnlyGit

TagTree(t) ==
  /\ AtFor(t, "tag", "git tree") /\ Move(t, "stored", Key(t)) /\ StoresSame

MoveCASTreeToGit(t) ==
  /\ NeedTree(t) /\ Key(t) \in cas["client"]
  /\ Move(t, "import", Key(t)) /\ StoresSame

AskForTree(t) ==
  /\ NeedTree(t) /\ Key(t) \notin cas["client"]
  /\ IF WithServe THEN Ask(t, "tree", Key(t), Key(t), "content_served") ELSE Move(t, "retrieve", Key(t))
  /\ StoresSame

(* What comes from the remote CAS need not be backed up there.             *)
FromRemote(t) == ToCas("client", Key(t)) /\ Learn(t, "import", Key(t), TRUE) /\ NoTrouble

TreeServed(t) ==
  /\ Answer(t, "content_served") /\ Kind(t) = "git tree"
  /\ \/ Says(t, "OK") /\ Key(t) \in remote /\ FromRemote(t)
     \/ /\ IF Says(t, "OK") /\ Key(t) \in remote THEN Trouble ELSE NoTrouble
        /\ Move(t, "retrieve", Key(t)) /\ UNCHANGED cas
  /\ OnlyCas

RetrieveTree(t) ==
  /\ AtFor(t, "retrieve", "git tree")
  /\ \/ Key(t) \in remote /\ FromRemote(t)
     \/ /\ IF Key(t) \in remote THEN Trouble ELSE NoTrouble
        /\ Move(t, "fetch", Key(t)) /\ UNCHANGED cas
  /\ OnlyCas

(* The command is run; it has to make the tree. What it made is committed  *)
(* to a repository of its own and checked,                                 *)
MakeTree(t) ==
  /\ AtFor(t, "fetch", "git tree")
  /\ \/ Key(t) \in Upstream /\ Move(t, "made", Key(t)) /\ NoTrouble
     \/ (IF Key(t) \in Upstream THEN Trouble ELSE NoTrouble) /\ Fails(t)
  /\ OnlyTrouble

(* all of that is fetched into the Git cache, and the commit tagged.       *)
FetchMadeTree(t) ==
  /\ pc[t] = "made"
  /\ ToGit("client", Key(t)) /\ Move(t, "tag", Key(t)) /\ OnlyGit

(* BackupToRemote: that it fails is only reported.                         *)
BackupTree(t) ==
  /\ AtFor(t, "stored", "git tree")
  /\ \/ BackingUp /\ ~hit[t] /\ ToRemote(Key(t)) /\ NoTrouble
     \/ (IF BackingUp /\ ~hit[t] THEN Trouble ELSE NoTrouble) /\ UNCHANGED remote
  /\ SetPresent(t, Key(t), "client") /\ OnlyRemote

TreeStep(t) ==
  \/ TreeInGitCache(t) \/ TreeInOlderGeneration(t) \/ TakeTreeFromOlderGeneration(t) \/ TagTree(t)
  \/ MoveCASTreeToGit(t) \/ AskForTree(t) \/ TreeServed(t) \/ RetrieveTree(t) \/ MakeTree(t)
  \/ FetchMadeTree(t) \/ BackupTree(t)

-----------------------------------------------------------------------------
(* tree_id_git_map *)

AbsentTree(t) ==
  /\ Starts(t, "git tree") /\ Absent(t)
  /\ IF WithServe THEN Ask(t, "check", Key(t), Key(t), "tree_checked") ELSE SetAbsent(t, Key(t))
  /\ StoresSame

TreeChecked(t) ==
  /\ Answer(t, "tree_checked")
  /\ CASE Says(t, "OK") -> SetAbsent(t, Key(t))
       [] Says(t, "ERROR") -> Fails(t)
       [] OTHER -> IF Key(t) \in remote THEN Ask(t, "get", Key(t), Key(t), "uploaded")
                   ELSE Move(t, "local", Key(t))
  /\ StoresSame

(* What is known locally is sent, from the Git cache.                      *)
LocalTree(t) ==
  /\ AtFor(t, "local", "git tree")
  /\ IF InGit("client", Key(t)) THEN Move(t, "upload", Key(t))
     ELSE IF Key(t) \in cas["client"] THEN Move(t, "import", Key(t))
     ELSE Fails(t)
  /\ StoresSame

TreeIdStep(t) == AbsentTree(t) \/ TreeChecked(t) \/ LocalTree(t) \/ TreeStep(t)

-----------------------------------------------------------------------------
(* fpath_git_map *)

PathInCheckout(t) ==
  /\ Starts(t, "file") /\ Repo(t) = "checkout"
  /\ Move(t, "resolve", TreeOf[Key(t)]) /\ StoresSame

PathToImport(t) ==
  /\ Starts(t, "file") /\ Repo(t) = "client"
  /\ Move(t, "import", TreeOf[Key(t)]) /\ StoresSame

(* ResolveFilePathTree: the tree as it is stays in its repository; what is *)
(* resolved goes to the Git cache.                                         *)
PathTreeAsIs(t) ==
  /\ AtFor(t, "resolve", "file") /\ ~Special(t)
  /\ Move(t, "settle", object[t]) /\ StoresSame

PathResolvedId(t) == IdFile("client", 0, "special-tree-map", object[t])

PathTreeResolved(t) ==
  /\ AtFor(t, "resolve", "file") /\ Special(t) /\ PathResolvedId(t)
  /\ Move(t, "settle", IdOf("client", 0, "special-tree-map", object[t])) /\ StoresSame

ResolvePathTree(t) ==
  /\ AtFor(t, "resolve", "file") /\ Special(t) /\ ~PathResolvedId(t)
  /\ ToGit("client", Resolved[object[t]]) /\ Move(t, "keep", Resolved[object[t]]) /\ OnlyGit

KeepResolvedPath(t) ==
  /\ AtFor(t, "keep", "file")
  /\ WriteTreeIDFile("client", "special-tree-map", TreeOf[Key(t)], object[t])
  /\ Move(t, "settle", object[t]) /\ OnlyIds

(* CheckServeAndSetRoot                                                    *)
SetPathRoot(t) ==
  IF Absent(t) THEN SetAbsent(t, object[t]) ELSE SetPresent(t, object[t], Source(t))

CheckServe(t) ==
  /\ pc[t] = "settle"
  /\ IF WithServe THEN Ask(t, "check", object[t], object[t], "checked") ELSE SetPathRoot(t)
  /\ StoresSame

PathChecked(t) ==
  /\ Answer(t, "checked") /\ Kind(t) = "file"
  /\ CASE Says(t, "OK") -> SetPathRoot(t)
       [] Says(t, "ERROR") -> Fails(t)
       [] OTHER -> Move(t, "upload", object[t])
  /\ StoresSame

PathStep(t) ==
  \/ PathInCheckout(t) \/ PathToImport(t) \/ PathTreeAsIs(t) \/ PathTreeResolved(t)
  \/ ResolvePathTree(t) \/ KeepResolvedPath(t) \/ CheckServe(t) \/ PathChecked(t)
=============================================================================
