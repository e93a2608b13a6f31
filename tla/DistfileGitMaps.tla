-------------------------- MODULE DistfileGitMaps --------------------------
(***************************************************************************)
(* The roots made of distribution files. The tree of a directory of them   *)
(* (distdir_git_map) is known from the description, without the files: an  *)
(* absent one is checked, made by the serve endpoint, or sent to it; for a *)
(* present one the endpoint is asked to put the tree into the remote CAS,  *)
(* and the files are got one by one (ContentGitMap).                       *)
(* A single file of the network (foreign_file_git_map) is such a directory,*)
(* too. An absent one is set up even if the endpoint cannot make it; a     *)
(* present one is taken from its id file as it is, or its file is got and  *)
(* imported.                                                               *)
(***************************************************************************)
EXTENDS ContentGitMap

Dir(t)     == TreeOf[Key(t)]
DirId(t)   == IdFile("client", 0, "tree-map", Key(t))
NoDirId(t) == Starts(t, "distdir") /\ ~DirId(t)

DistdirKnown(t) ==
  /\ Starts(t, "distdir") /\ DirId(t)
  /\ Learn(t, "known", IdOf("client", 0, "tree-map", Key(t)), TRUE) /\ StoresSame

KnownDistdir(t) ==
  /\ AtFor(t, "known", "distdir") /\ Settle(t, object[t], "client") /\ StoresSame

DistdirRootChecked(t) ==
  /\ Answer(t, "checked") /\ Kind(t) = "distdir"
  /\ CASE Says(t, "OK") -> SetAbsent(t, object[t])
       [] Says(t, "ERROR") -> Fails(t)
       [] OTHER -> Ask(t, "distdir", Key(t), object[t], "asked")
  /\ StoresSame

DistdirRootAsked(t) ==
  /\ Answer(t, "asked") /\ Kind(t) = "distdir"
  /\ CASE Says(t, "OK") /\ handler[t].tree = object[t] -> SetAbsent(t, object[t])
       [] Says(t, "NOT_FOUND") -> Move(t, "upload", object[t])
       [] OTHER -> Fails(t)
  /\ StoresSame

-----------------------------------------------------------------------------
AbsentDistdir(t) ==
  /\ NoDirId(t) /\ Absent(t)
  /\ IF WithServe THEN Ask(t, "check", Dir(t), Dir(t), "dir_checked") ELSE SetAbsent(t, Dir(t))
  /\ StoresSame

DistdirChecked(t) ==
  /\ Answer(t, "dir_checked")
  /\ CASE Says(t, "OK") -> SetAbsent(t, Dir(t))
       [] Says(t, "ERROR") -> Fails(t)
       [] OTHER -> Ask(t, "distdir", Key(t), Dir(t), "dir_asked")
  /\ StoresSame

DistdirMade(t) ==
  /\ Answer(t, "dir_asked") /\ ~Says(t, "NOT_FOUND")
  /\ IF Says(t, "OK") /\ handler[t].tree = Dir(t) THEN SetAbsent(t, Dir(t)) ELSE Fails(t)
  /\ StoresSame

(* The tree gets there through the remote CAS, where it may be, or put     *)
(* from the local CAS.                                                     *)
SupplyDistdir(t) ==
  /\ Answer(t, "dir_asked") /\ Says(t, "NOT_FOUND")
  /\ \/ Dir(t) \in remote /\ Ask(t, "get", Dir(t), Dir(t), "uploaded") /\ UNCHANGED <<remote, trouble>>
     \/ /\ Dir(t) \in cas["client"] \ remote /\ NoTrouble
        /\ ToRemote(Dir(t)) /\ Ask(t, "get", Dir(t), Dir(t), "uploaded")
     \/ /\ Dir(t) \notin remote /\ Fails(t) /\ UNCHANGED remote
        /\ IF Dir(t) \in cas["client"] THEN Trouble ELSE NoTrouble
  /\ OnlyRemote

-----------------------------------------------------------------------------
PresentDistdir(t) ==
  /\ NoDirId(t) /\ ~Absent(t)
  /\ IF Dir(t) \in cas["client"] THEN Move(t, "link", Dir(t))
     ELSE IF WithServe THEN Ask(t, "distdir", Key(t), Dir(t), "dir_served")
     ELSE Move(t, "content", Dir(t))
  /\ StoresSame

(* Whether the endpoint made the tree or not, the files are needed here.   *)
DistdirServed(t) ==
  /\ Answer(t, "dir_served")
  /\ IF Says(t, "ERROR") \/ (Says(t, "OK") /\ handler[t].tree # Dir(t)) THEN Fails(t)
     ELSE Move(t, "content", Dir(t))
  /\ StoresSame

(* ImportFromCASAndSetRoot: all files are linked, and imported.            *)
LinkToCAS(t) ==
  /\ AtFor(t, "link", "distdir")
  /\ IF Missing(t) = {} THEN Move(t, "import", Dir(t)) ELSE Fails(t)
  /\ StoresSame

WriteDistdirTreeId(t) ==
  /\ AtFor(t, "write_id", "distdir")
  /\ WriteTreeIDFile("client", "tree-map", Key(t), object[t])
  /\ SetPresent(t, object[t], "client") /\ OnlyIds

DistdirStep(t) ==
  \/ DistdirKnown(t) \/ KnownDistdir(t) \/ DistdirRootChecked(t) \/ DistdirRootAsked(t)
  \/ AbsentDistdir(t) \/ DistdirChecked(t) \/ DistdirMade(t) \/ SupplyDistdir(t)
  \/ PresentDistdir(t) \/ DistdirServed(t) \/ LinkToCAS(t) \/ WriteDistdirTreeId(t)

-----------------------------------------------------------------------------
(* foreign_file_git_map *)

FileTree(t) == TreeOf[Key(t)]
FileId(t)   == IdFile("client", 0, "tree-map", Key(t))

AbsentForeignFile(t) ==
  /\ Starts(t, "foreign file") /\ Absent(t)
  /\ IF WithServe THEN Ask(t, "check", FileTree(t), FileTree(t), "checked") ELSE SetAbsent(t, FileTree(t))
  /\ StoresSame

ForeignFileChecked(t) ==
  /\ Answer(t, "checked") /\ Kind(t) = "foreign file"
  /\ CASE Says(t, "OK") -> SetAbsent(t, object[t])
       [] Says(t, "ERROR") -> Fails(t)
       [] OTHER -> Ask(t, "distdir", Key(t), object[t], "asked")
  /\ StoresSame

ForeignFileAsked(t) ==
  /\ Answer(t, "asked") /\ Kind(t) = "foreign file"
  /\ IF Says(t, "NOT_FOUND") \/ (Says(t, "OK") /\ handler[t].tree = object[t])
     THEN SetAbsent(t, object[t]) ELSE Fails(t)
  /\ StoresSame

UseCacheHit(t) ==
  /\ Starts(t, "foreign file") /\ ~Absent(t) /\ FileId(t)
  /\ SetPresent(t, IdOf("client", 0, "tree-map", Key(t)), "client") /\ StoresSame

PresentForeignFile(t) ==
  /\ Starts(t, "foreign file") /\ ~Absent(t) /\ ~FileId(t)
  /\ Move(t, "content", Key(t)) /\ StoresSame

WithFetchedFile(t) ==
  /\ AtFor(t, "link", "foreign file")
  /\ IF Missing(t) = {} THEN Move(t, "import", FileTree(t)) ELSE Fails(t)
  /\ StoresSame

(* A failure to write the id is no failure of the root.                    *)
WithRootImportedToGit(t) ==
  /\ AtFor(t, "write_id", "foreign file")
  /\ \/ WriteTreeIDFile("client", "tree-map", Key(t), object[t]) /\ NoTrouble
     \/ Trouble /\ UNCHANGED ids
  /\ SetPresent(t, object[t], "client") /\ UNCHANGED <<git, cas, remote, distdir, collections>>

ForeignFileStep(t) ==
  \/ AbsentForeignFile(t) \/ ForeignFileChecked(t) \/ ForeignFileAsked(t) \/ UseCacheHit(t)
  \/ PresentForeignFile(t) \/ WithFetchedFile(t) \/ WithRootImportedToGit(t)
=============================================================================
