--------------------------- MODULE ContentGitMap ----------------------------
(***************************************************************************)
(* The roots that are the content of archives (content_git_map), maybe     *)
(* with their symlinks resolved. An id file tells the tree of an archive;  *)
(* one of an older generation is moved to the youngest with its tree, the  *)
(* tree first. Otherwise the archive is unpacked and imported: a present   *)
(* one is got wherever it is (see below), of an absent one the serve       *)
(* endpoint is asked before the client looks at what it has itself.        *)
(***************************************************************************)
EXTENDS RootTasks

(***************************************************************************)
(* Contents brought into the local CAS of the client (content_cas_map),    *)
(* for archives, distdirs and foreign files: from the Git cache, from its  *)
(* older generations and from the distribution files, then through the     *)
(* serve endpoint, from the remote CAS, and last from the network. After   *)
(* that `just-mr fetch` (archive_fetch_map) backs them up and copies them  *)
(* to a directory of distribution files. The contents of a distdir are     *)
(* independent; here they come one after the other.                        *)
(***************************************************************************)
HasContents(t) == Kind(t) \in {"archive", "distdir", "foreign file"}
Contents(t) == CASE Kind(t) = "archive" -> {Key(t)}
                 [] Kind(t) \in {"distdir", "foreign file"} -> Below[TreeOf[Key(t)]]
                 [] OTHER -> {}
Missing(t)  == Contents(t) \ cas["client"]
Wants(t, o) == pc[t] = "content" /\ o \in Missing(t)
Gets(t, o) == cas' = [cas EXCEPT !["client"] = @ \cup {o}] /\ Move(t, "content", o)

ContentsInCas(t) ==
  /\ pc[t] = "content" /\ Missing(t) = {}
  /\ Move(t, IF Fetching THEN "stored" ELSE IF Kind(t) = "archive" THEN "extract" ELSE "link", Key(t))
  /\ StoresSame

BlobInGit(o) == InGit("client", o) \/ OldWith(o) # {}
BlobFromGit(t, o) ==
  /\ Wants(t, o) /\ BlobInGit(o)
  /\ Gets(t, o) /\ OnlyCas /\ NoTrouble

Distfile(o) == ~BlobInGit(o) /\ o \in distdir
AddDistfileToCAS(t, o) ==
  /\ Wants(t, o) /\ Distfile(o)
  /\ Gets(t, o) /\ OnlyCas /\ NoTrouble

Locally(o)  == o \in cas["client"] \/ BlobInGit(o) \/ o \in distdir
AskForContent(t, o) ==
  /\ Wants(t, o) /\ ~Locally(o)
  /\ IF WithServe THEN Ask(t, "content", o, o, "content_served") ELSE Move(t, "retrieve", o)
  /\ StoresSame

(* The serve endpoint has put the content into the remote CAS; if it has   *)
(* not, or getting it from there fails, the remote CAS may have it;        *)
ContentServed(t) ==
  /\ Answer(t, "content_served") /\ HasContents(t)
  /\ \/ Says(t, "OK") /\ object[t] \in remote /\ Gets(t, object[t]) /\ NoTrouble
     \/ /\ IF Says(t, "OK") /\ object[t] \in remote THEN Trouble ELSE NoTrouble
        /\ Move(t, "retrieve", object[t]) /\ UNCHANGED cas
  /\ OnlyCas

RetrieveContent(t) ==
  /\ pc[t] = "retrieve" /\ HasContents(t)
  /\ \/ object[t] \in remote /\ Gets(t, object[t]) /\ NoTrouble
     \/ (IF object[t] \in remote THEN Trouble ELSE NoTrouble) /\ Move(t, "fetch", object[t]) /\ UNCHANGED cas
  /\ OnlyCas

(* FetchFromNetwork: what has other checksums or another identifier is not *)
(* the content.                                                            *)
FetchContent(t) ==
  /\ pc[t] = "fetch" /\ HasContents(t)
  /\ \/ object[t] \in Upstream /\ Gets(t, object[t]) /\ NoTrouble
     \/ (IF object[t] \in Upstream THEN Trouble ELSE NoTrouble) /\ Fails(t) /\ UNCHANGED cas
  /\ OnlyCas

-----------------------------------------------------------------------------
(* What is fetched: archives and foreign files that are not absent.        *)
FetchArchive(t) ==
  /\ pc[t] = "start" /\ Fetching
  /\ Kind(t) \in {"archive", "foreign file"} /\ ~Absent(t)
  /\ Move(t, "content", Key(t)) /\ StoresSame

(* ProcessContent: a failing backup is no failure, a failing copy is.      *)
BackUpContent(t) ==
  /\ pc[t] = "stored" /\ HasContents(t)
  /\ \/ BackingUp /\ remote' = remote \cup Contents(t) /\ NoTrouble
     \/ (IF BackingUp THEN Trouble ELSE NoTrouble) /\ UNCHANGED remote
  /\ Move(t, "copy", object[t]) /\ OnlyRemote

CopyToFetchDir(t) ==
  /\ pc[t] = "copy"
  /\ \/ /\ distdir' = distdir \cup Contents(t) /\ NoTrouble
        /\ Finish(t, Outcome("fetched", object[t], "none"))
     \/ Trouble /\ Fails(t) /\ UNCHANGED distdir
  /\ UNCHANGED <<git, ids, cas, remote, collections>>

ContentStep(t) ==
  \/ ContentsInCas(t) \/ ContentServed(t) \/ RetrieveContent(t) \/ FetchContent(t)
  \/ \E o \in Missing(t) : BlobFromGit(t, o) \/ AddDistfileToCAS(t, o) \/ AskForContent(t, o)
  \/ FetchArchive(t) \/ BackUpContent(t) \/ CopyToFetchDir(t)

-----------------------------------------------------------------------------
YoungId(t) == IdFile("client", 0, "tree-map", Key(t))
OldIds(t)  == OldKnowing("tree-map", Key(t))
NoId(t)    == Starts(t, "archive") /\ ~YoungId(t) /\ OldIds(t) = {}

ArchiveKnown(t) ==
  /\ Starts(t, "archive") /\ YoungId(t)
  /\ Move(t, "known", Key(t)) /\ StoresSame

HandleLocallyKnownTree(t) ==
  /\ AtFor(t, "known", "archive")
  /\ Learn(t, "resolve", IdOf("client", 0, "tree-map", Key(t)), TRUE) /\ StoresSame

(* The tree is tagged in the older generation,                             *)
HandleKnownInOlderGeneration(t) ==
  /\ Starts(t, "archive") /\ ~YoungId(t) /\ OldIds(t) # {}
  /\ LET g == Youngest(OldIds(t))
         tree == IdOf("client", g, "tree-map", Key(t))
     IN IF tree \in git["client"][g] THEN Move(t, "taken", tree) ELSE Fails(t)
  /\ StoresSame

(* Mutant of HandleKnownAfterTagging: the tree is left where it is.        *)
LeftInOlderGeneration(t) ==
  /\ AtFor(t, "taken", "archive") /\ Move(t, "moved", object[t]) /\ StoresSame

(* fetched into the youngest and tagged there,                             *)
HandleKnownAfterTagging(t) ==
  /\ AtFor(t, "taken", "archive")
  /\ ToGit("client", object[t]) /\ Move(t, "moved", object[t]) /\ OnlyGit

(* and only then the id is written.                                        *)
HandleKnownAfterImport(t) ==
  /\ AtFor(t, "moved", "archive")
  /\ WriteTreeIDFile("client", "tree-map", Key(t), object[t])
  /\ Move(t, "known", Key(t)) /\ OnlyIds

-----------------------------------------------------------------------------
AskForArchive(t) ==
  /\ NoId(t) /\ Absent(t)
  /\ IF WithServe THEN Ask(t, "archive", Key(t), "none", "served") ELSE Move(t, "local", Key(t))
  /\ StoresSame

ArchiveServed(t) ==
  /\ Answer(t, "served") /\ Kind(t) = "archive"
  /\ CASE Says(t, "OK") -> SetAbsent(t, handler[t].tree)
       [] Says(t, "ERROR") -> Fails(t)
       [] OTHER -> Move(t, "local", Key(t))
  /\ StoresSame

(* An absent archive is looked for in what is local and young.             *)
LocalContent(t) ==
  /\ AtFor(t, "local", "archive")
  /\ IF Key(t) \in cas["client"] THEN Move(t, "extract", Key(t)) ELSE Move(t, "blob", Key(t))
  /\ StoresSame

LocalBlob(t) ==
  /\ pc[t] = "blob"
  /\ IF InGit("client", Key(t)) \/ Key(t) \in distdir
     THEN ToCas("client", Key(t)) /\ Move(t, "extract", Key(t))
     ELSE Fails(t) /\ UNCHANGED cas
  /\ OnlyCas /\ NoTrouble

PresentArchive(t) ==
  /\ NoId(t) /\ ~Absent(t)
  /\ Move(t, "content", Key(t)) /\ StoresSame

(* ExtractAndImportToGit                                                   *)
ExtractArchive(t) ==
  /\ pc[t] = "extract" /\ Move(t, "import", TreeOf[Key(t)]) /\ StoresSame

WriteArchiveTreeId(t) ==
  /\ AtFor(t, "write_id", "archive")
  /\ WriteTreeIDFile("client", "tree-map", Key(t), object[t])
  /\ Learn(t, "resolve", object[t], FALSE) /\ OnlyIds

-----------------------------------------------------------------------------
ResolvedId(t) == IdFile("client", 0, "special-tree-map", object[t])

ContentTreeAsIs(t) ==
  /\ AtFor(t, "resolve", "archive") /\ ~Special(t)
  /\ Settle(t, object[t], "client") /\ StoresSame

ContentTreeResolved(t) ==
  /\ AtFor(t, "resolve", "archive") /\ Special(t) /\ ResolvedId(t)
  /\ Settle(t, IdOf("client", 0, "special-tree-map", object[t]), "client") /\ StoresSame

ResolveArchiveTree(t) ==
  /\ AtFor(t, "resolve", "archive") /\ Special(t) /\ ~ResolvedId(t)
  /\ ToGit("client", Resolved[object[t]]) /\ Move(t, "keep", Resolved[object[t]]) /\ OnlyGit

(* The resolved tree is tagged, then its id written.                       *)
KeepResolved(t) ==
  /\ AtFor(t, "keep", "archive")
  /\ WriteTreeIDFile("client", "special-tree-map", TreeOf[Key(t)], object[t])
  /\ Settle(t, object[t], "client") /\ OnlyIds

-----------------------------------------------------------------------------
(* EnsureRootAsAbsent: the serve endpoint is not asked for an archive that *)
(* was unpacked just now; it was asked before.                             *)
ArchiveRootChecked(t) ==
  /\ Answer(t, "checked") /\ Kind(t) = "archive"
  /\ CASE Says(t, "OK") -> SetAbsent(t, object[t])
       [] Says(t, "ERROR") -> Fails(t)
       [] OTHER -> IF hit[t] THEN Ask(t, "archive", Key(t), object[t], "asked")
                   ELSE Move(t, "upload", object[t])
  /\ StoresSame

ArchiveAsked(t) ==
  /\ Answer(t, "asked") /\ Kind(t) = "archive"
  /\ CASE Says(t, "OK") /\ handler[t].tree = object[t] -> SetAbsent(t, object[t])
       [] Says(t, "NOT_FOUND") -> Move(t, "upload", object[t])
       [] OTHER -> Fails(t)
  /\ StoresSame

ArchiveStep(t) ==
  \/ ArchiveKnown(t) \/ HandleLocallyKnownTree(t) \/ HandleKnownInOlderGeneration(t)
  \/ HandleKnownAfterTagging(t) \/ HandleKnownAfterImport(t) \/ AskForArchive(t) \/ ArchiveServed(t)
  \/ LocalContent(t) \/ LocalBlob(t) \/ PresentArchive(t) \/ ExtractArchive(t) \/ WriteArchiveTreeId(t)
  \/ ContentTreeAsIs(t) \/ ContentTreeResolved(t) \/ ResolveArchiveTree(t) \/ KeepResolved(t)
  \/ ArchiveRootChecked(t) \/ ArchiveAsked(t)
=============================================================================
