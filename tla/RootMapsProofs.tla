--------------------------- MODULE RootMapsProofs ---------------------------
(***************************************************************************)
(* Proofs about RootMaps for any number of tasks, roots, generations and   *)
(* failures: id files are backed by trees, roots are there when they are   *)
(* used, the network is last, and failures have a cause.                   *)
(***************************************************************************)
EXTENDS RootMaps, WellFoundedInduction, TLAPS

Gens0 == 0 .. Generations - 1

TypeTasks ==
  /\ pc \in [Threads -> Labels] /\ object \in [Threads -> Objects \cup Distdirs \cup {"none"}]
  /\ hit \in [Threads -> BOOLEAN]
  /\ root \in [Threads -> [state : {"unset", "failed", "fetched", "skipped", "present", "absent"},
                           tree : Objects \cup Distdirs \cup {"none"}, repo : Repositories \cup {"none"}]]
TypeRun ==
  /\ cast \in {c.cast : c \in Casts}
  /\ runs \in 0 .. cast.runs /\ near \in [Threads -> {"local", "serve", "upstream", "nowhere"}]
  /\ begun \in (0 .. MaxTrouble) \X (0 .. MaxCollections) /\ kept \in BOOLEAN

CastOK ==
  /\ \A t \in Threads :
       /\ Kind(t) \in Kinds /\ Key(t) \in KeysOf(Kind(t)) /\ Special(t) \in BOOLEAN /\ Absent(t) \in BOOLEAN
       /\ Special(t) => Kind(t) \in {"archive", "file"}
       /\ cast.checkout /\ Kind(t) = "file" => InGit("checkout", TreeOf[Key(t)])
  /\ cast.serve \in BOOLEAN /\ cast.checkout \in BOOLEAN /\ cast.runs \in Nat
  /\ cast.fetch \in {"no", "plain", "backup"}
  /\ \A c \in Commits : c \in cast.known => TreeOf[c] \in cast.known

CommitsComplete ==
  \A h \in Repositories, g \in Gens0 : \A c \in Commits : c \in git[h][g] => TreeOf[c] \in git[h][g]
CasClosed == \A x \in cas["client"] : Below[x] \subseteq cas["client"]
Budgets == /\ begun = <<begun[1], begun[2]>> /\ begun[1] \in Nat /\ begun[2] \in Nat
           /\ trouble <= begun[1] /\ collections <= begun[2]

Plain(t) == IF Kind(t) = "git tree" THEN Key(t) ELSE TreeOf[Key(t)]
Here(t, x) == InGit(Repo(t), x) \/ InGit("client", x)
Sought(t) == IF Kind(t) = "git tree" THEN {Key(t)} ELSE Contents(t)
Waits == {"served", "content_served", "checked", "asked", "uploaded", "tree_checked", "dir_checked", "dir_asked",
          "dir_served"}

(* What a task is about, what it is for, and what it has at hand.          *)
IsAbout(t, l, x) ==
  /\ l \in {"import", "imported", "tag", "write_id", "moved", "taken", "resolve"} => x = Plain(t)
  /\ l = "known" /\ Kind(t) # "archive" => x = Plain(t)
  /\ l \in {"keep", "settle", "upload"} => x = Wanted(t)
  /\ l = "retrieve" /\ Kind(t) = "git" => x = Plain(t)
  /\ l = "fetch" /\ Kind(t) = "git" => x = Key(t)
  /\ l \in {"retrieve", "fetch", "content_served"} /\ Kind(t) # "git" => x \in Sought(t)
IsFor(t, l) ==
  /\ l \in {"moved", "taken", "blob", "extract"} => Kind(t) = "archive"
  /\ l = "resolve" => Kind(t) \in {"archive", "file"}
  /\ l \in {"tag", "take"} => Kind(t) \in {"git", "git tree"}
  /\ l = "write_id" => Kind(t) \in {"git", "archive", "distdir", "foreign file"}
  /\ l = "keep" => Special(t)
  /\ l \in {"import", "imported"} /\ Kind(t) = "file" => Repo(t) = "client"
  /\ l = "settle" => Kind(t) = "file"
  /\ l = "made" => Kind(t) = "git tree"
  /\ l = "content_served" => Kind(t) # "git"
  /\ l \in {"retrieve", "fetch", "content_served"} => Kind(t) # "file" /\ ~Absent(t)
  /\ l \in {"link", "extract", "content", "copy"} => HasContents(t)
  /\ l = "stored" => Kind(t) = "git tree" \/ (HasContents(t) /\ Fetching)
  /\ l \in {"upload", "checked", "uploaded"} => Absent(t) \/ Kind(t) = "file"
  /\ l \in {"asked", "tree_checked", "dir_checked", "dir_asked", "blob", "local"} => Absent(t)
  /\ l = "local" => Kind(t) \in {"archive", "git tree"}
HasAtHand(t, l) ==
  /\ l \in {"moved", "imported", "write_id"} => InGit("client", Plain(t))
  /\ l \in {"tag", "resolve"} => InGit(Repo(t), Plain(t))
  /\ l = "known" => IF Kind(t) = "archive" THEN YoungId(t) ELSE InGit("client", Plain(t))
  /\ l = "keep" => InGit("client", Wanted(t))
  /\ l \in {"settle", "upload"} => Here(t, Wanted(t))
  /\ l \in {"checked", "uploaded"} /\ ~Absent(t) => Here(t, Wanted(t))
  /\ l \in {"checked", "asked"} /\ Kind(t) # "foreign file" => Here(t, Wanted(t))
  /\ l = "stored" /\ Kind(t) = "git tree" => InGit("client", Plain(t))
  /\ l \in {"stored", "copy"} /\ Kind(t) # "git tree" => Contents(t) \subseteq cas["client"]
  /\ l = "link" => Contents(t) \subseteq cas["client"]
TaskAt(t, l, x) == IsAbout(t, l, x) /\ IsFor(t, l) /\ HasAtHand(t, l)

RootAt(t, r) ==
  /\ r.state = "present" =>
       r.tree = Wanted(t) /\ r.repo \in {"client", "checkout"} /\ InGit(r.repo, Wanted(t))
  /\ r.state = "fetched" => Contents(t) \subseteq cas["client"] \cap distdir
  /\ r.state = "absent" =>
       /\ r.tree = Wanted(t)
       /\ WithServe /\ kept /\ (Kind(t) = "foreign file" => near[t] = "serve" /\ Calm) => Has(Wanted(t))
  /\ r.state = "failed" => near[t] = "nowhere" \/ ~Calm \/ astray

(* What the endpoint has at hand. *)
ServeAt(h) == h.stage \in Working =>
    /\ h.rpc = "commit" => h.key \in Commits
    /\ h.rpc = "archive" => h.key \in Archives
    /\ h.rpc = "distdir" => h.key \in Distdirs
    /\ h.rpc \in {"content", "tree", "check", "get"} => h.key \in Stored
    /\ h.stage \in {"find", "retrieve", "import", "write", "resolve", "resolving", "keep"} => h.rpc = "archive"
    /\ h.stage \in {"list", "link"} => h.rpc = "distdir"
    /\ h.stage \in {"write", "resolve", "resolving", "list", "link"} => h.tree = TreeOf[h.key]
    /\ h.stage \in {"resolving", "keep"} => h.special
    /\ h.stage = "keep" => h.tree = Resolved[TreeOf[h.key]]
    /\ h.stage = "write" => InGit("serve", h.tree)
    /\ h.stage = "resolve" => Has(h.tree)
    /\ h.stage = "got" => h.rpc = "get"
    /\ h.stage = "sync" => /\ h.rpc \in {"commit", "distdir", "content", "tree"}
                           /\ h.tree = IF h.rpc \in {"commit", "distdir"} THEN TreeOf[h.key] ELSE h.key
                           /\ Has(h.tree) \/ h.rpc \in {"content", "tree"}

(* What the endpoint has answered. *)
Promised(h) == CASE h.rpc \in {"commit", "distdir"} -> TreeOf[h.key]
                 [] h.rpc = "archive" -> IF h.special THEN Resolved[TreeOf[h.key]] ELSE TreeOf[h.key]
                 [] OTHER -> h.key
Offered(t, o) == ServeFinds(o) \/ (near[t] = "upstream" /\ o \in Upstream)
InReach(t, o) == o \in remote \/ (near[t] = "upstream" /\ o \in Upstream)

AskedAt(t, l, x, h) ==
  /\ l \in {"checked", "tree_checked", "dir_checked"} => h.rpc = "check" /\ h.key = Wanted(t) /\ x = Wanted(t)
  /\ l = "uploaded" => h.rpc = "get" /\ h.key = Wanted(t) /\ x = Wanted(t)
  /\ l \in {"asked", "dir_asked"} => x = Wanted(t)
  /\ l \in {"asked", "served", "dir_asked", "dir_served"} =>
       /\ h.key = Key(t)
       /\ h.rpc = CASE Kind(t) = "git" -> "commit" [] Kind(t) = "archive" -> "archive" [] OTHER -> "distdir"
       /\ Kind(t) = "archive" => h.special = Special(t)
  /\ l \in {"dir_checked", "dir_asked", "dir_served"} => Kind(t) = "distdir"
  /\ l = "tree_checked" => Kind(t) = "git tree"
  /\ l = "served" => Kind(t) \in {"git", "archive"} /\ (h.rpc = "commit" => h.sync = ~Absent(t))
  /\ l = "asked" => Kind(t) \in {"git", "archive", "distdir", "foreign file"}
  /\ l = "checked" => Kind(t) # "git tree"
  /\ l = "content_served" => h.rpc \in {"content", "tree"} /\ h.key = x

RepliedAt(l, h) ==
  l \in Waits =>
  /\ h.stage = "OK" =>
       /\ h.rpc \in {"commit", "distdir", "archive"} => h.tree = Promised(h)
       /\ h.rpc \notin {"content", "tree"} /\ kept => Has(Promised(h))
       /\ Calm /\ (h.rpc \in {"content", "tree"} \/ (h.rpc = "commit" /\ h.sync)) => Promised(h) \in remote
  /\ h.stage = "ERROR" => ~Calm \/ astray
  /\ h.stage = "NOT_FOUND" => h.rpc # "get"
  /\ h.rpc = "get" /\ Calm => h.key \in remote

NotFoundAt(t, l, x, h) ==
  Calm /\ h.stage = "NOT_FOUND" =>
  /\ l = "served" => near[t] # "serve"
  /\ l = "tree_checked" /\ near[t] = "serve" => Key(t) \in remote
  /\ l = "dir_checked" /\ near[t] = "serve" => AllFound(t) \/ Dir(t) \in remote
  /\ l = "dir_asked" /\ near[t] = "serve" => Dir(t) \in remote
  /\ l = "checked" /\ Kind(t) = "foreign file" /\ near[t] = "serve" => AllFound(t)
  /\ l = "asked" /\ Kind(t) = "foreign file" => near[t] # "serve"
  /\ l = "content_served" /\ near[t] # "nowhere" => InReach(t, x)

AskingAt(t, l, x, h) ==
  Calm =>
  /\ l = "dir_asked" /\ near[t] = "serve" => AllFound(t) \/ Dir(t) \in remote
  /\ l = "asked" /\ Kind(t) = "foreign file" /\ near[t] = "serve" => AllFound(t)
  /\ l = "content_served" /\ near[t] # "nowhere" => Offered(t, x)
  /\ l = "served" /\ Kind(t) = "archive" /\ near[t] = "serve" =>
       /\ h.stage = "find" => ServeFinds(Key(t))
       /\ h.stage = "retrieve" => Key(t) \in remote

(* Where a task still finds its tree. *)
LocalSource(t) == Key(t) \in cas["client"] \cup distdir \/ InGit("client", Key(t))
SearchAt(t, l, x) ==
  /\ l \in {"served", "retrieve", "fetch", "content_served"} /\ (l = "served" => Kind(t) = "git") => near[t] # "local"
  /\ l = "retrieve" /\ Kind(t) = "git" /\ Calm => x \in remote
  /\ l \in {"served", "local"} /\ Kind(t) = "archive" => Absent(t) /\ (near[t] = "local" => LocalSource(t))
  /\ l = "local" => (Calm => near[t] # "serve") /\ (near[t] = "local" => LocalSource(t))
  /\ l \in {"tree_checked", "local"} /\ Kind(t) = "git tree" /\ near[t] = "local" =>
       Key(t) \in cas["client"] \/ InGit("client", Key(t))
  /\ l = "blob" => (Calm => near[t] # "serve") /\ (near[t] = "local" => Key(t) \in distdir \/ InGit("client", Key(t)))
  /\ l \in {"content", "dir_served"} => ~Absent(t) /\ (near[t] = "local" => AllLocal(t))
  /\ l \in {"dir_checked", "dir_asked"} /\ near[t] = "local" => Dir(t) \in cas["client"]
  /\ l = "retrieve" /\ Kind(t) # "git" /\ Calm /\ ~astray /\ near[t] # "nowhere" => InReach(t, x)
  /\ l = "fetch" /\ Calm /\ ~astray /\ near[t] # "nowhere" => near[t] = "upstream" /\ x \in Upstream

(* What was known when the run began still is. *)
Began(t) ==
  pc[t] \notin {"idle", "done"} =>
    /\ near[t] = "local" => KnownLocally(t, Fetching)
    /\ near[t] = "serve" /\ Calm => KnownToServe(t)
    /\ near[t] = "upstream" => ~Absent(t) /\ (Calm => Reachable(t))

StoresOK ==
  StoresTypeOK /\ CastOK /\ IdsAreBacked /\ CommitsComplete /\ CasClosed /\ Budgets
RootOK(t)    == RootAt(t, root[t]) /\ (pc[t] # "done" => root[t].state = "unset")
TaskOK(t)    == TaskAt(t, pc[t], object[t])
Searching(t) == SearchAt(t, pc[t], object[t])
ServeOK(t)   == ServeAt(handler[t])
Asked(t)     == AskedAt(t, pc[t], object[t], handler[t])
Replied(t)   == RepliedAt(pc[t], handler[t])
NotFound(t)  == NotFoundAt(t, pc[t], object[t], handler[t])
Asking(t)    == AskingAt(t, pc[t], object[t], handler[t])
ThreadOK(t) ==
  /\ TaskOK(t) /\ RootOK(t) /\ ServeOK(t) /\ Asked(t) /\ Replied(t)
  /\ NotFound(t) /\ Asking(t) /\ Searching(t) /\ Began(t)
Types == TypeTasks /\ TypeRun /\ SourceTreeTypeOK
Inv == StoresOK /\ Types /\ \A t \in Threads : ThreadOK(t)

(* What the steps of tasks and of the endpoint leave as it is.             *)
ClientGrows ==
  /\ \A h \in {"client", "checkout"} : git[h][0] \subseteq git'[h][0] /\ \A g \in Old : git'[h][g] = git[h][g]
  /\ ids["client"][0] \subseteq ids'["client"][0] /\ \A g \in Old : ids'["client"][g] = ids["client"][g]
  /\ cas["client"] \subseteq cas'["client"] /\ distdir \subseteq distdir'
  /\ trouble' <= trouble /\ collections' <= collections
  /\ collections' = collections => remote \subseteq remote'
ServeGrows ==
  /\ git["serve"][0] \subseteq git'["serve"][0] /\ ids["serve"][0] \subseteq ids'["serve"][0]
  /\ cas["serve"] \subseteq cas'["serve"]
StoresGrow == ClientGrows /\ (ServeGrows \/ (~kept' /\ collections' # collections))
HistoryKept == cast' = cast /\ near' = near /\ begun' = begun /\ runs' = runs /\ (kept' => kept)
               /\ (astray => astray')

-----------------------------------------------------------------------------
(* What objects are. *)
LEMMA ObjectFacts ==
  /\ \A x \in Described \cup FilePaths : TreeOf[x] \in Trees
  /\ \A x \in Linked : Resolved[x] \in Trees
  /\ \A x \in Archives \cup FilePaths : TreeOf[x] \in Linked
  /\ Trees \subseteq Stored /\ Stored \subseteq Objects /\ Commits \subseteq Objects
  /\ Archives \subseteq Stored /\ Files \subseteq Stored
  /\ \A x \in Described : <<"tree-map", x, TreeOf[x]>> \in IdFiles
  /\ \A x \in Linked : <<"special-tree-map", x, Resolved[x]>> \in IdFiles
  /\ \A o \in Objects : Below[o] \in SUBSET Stored /\ WithBelow(o) \in SUBSET Objects /\ o \in WithBelow(o)
  /\ \A o \in Stored : WithBelow(o) \in SUBSET Stored
<1>1. /\ \A x \in Described \cup FilePaths : TreeOf[x] \in Trees
      /\ \A x \in Linked : Resolved[x] \in Trees
      /\ \A x \in Archives \cup FilePaths : TreeOf[x] \in Linked
  BY DEF Trees, Linked, Described
<1>2. /\ Trees \subseteq Stored /\ Stored \subseteq Objects /\ Commits \subseteq Objects
      /\ Archives \subseteq Stored /\ Files \subseteq Stored
  BY DEF Stored, Objects
<1>3. /\ \A x \in Described : <<"tree-map", x, TreeOf[x]>> \in IdFiles
      /\ \A x \in Linked : <<"special-tree-map", x, Resolved[x]>> \in IdFiles
  BY DEF IdFiles
<1>4. \A o \in Objects : Below[o] \in SUBSET Stored
  BY ContentAssumption
<1> QED
  BY <1>1, <1>2, <1>3, <1>4 DEF WithBelow

(* An id file names the tree of what it is for. *)
LEMMA IdFacts ==
  ASSUME StoresTypeOK, NEW h \in Hosts, NEW g \in 0 .. Generations - 1, NEW x
  PROVE  /\ IdFile(h, g, "tree-map", x) => /\ IdOf(h, g, "tree-map", x) = TreeOf[x]
                                           /\ <<"tree-map", x, TreeOf[x]>> \in ids[h][g]
                                           /\ x \in Described
         /\ IdFile(h, g, "special-tree-map", x) => /\ IdOf(h, g, "special-tree-map", x) = Resolved[x]
                                                   /\ <<"special-tree-map", x, Resolved[x]>> \in ids[h][g]
                                                   /\ x \in Linked
<1>1. ids[h][g] \subseteq IdFiles
  BY DEF StoresTypeOK
<1>2. \A id \in IdFiles : /\ id[1] = "tree-map" => id[3] = TreeOf[id[2]] /\ id[2] \in Described
                                                   /\ id = <<"tree-map", id[2], TreeOf[id[2]]>>
                          /\ id[1] = "special-tree-map" => id[3] = Resolved[id[2]] /\ id[2] \in Linked
                                                           /\ id = <<"special-tree-map", id[2], Resolved[id[2]]>>
  BY DEF IdFiles
<1>3. ASSUME NEW m \in {"tree-map", "special-tree-map"}, IdFile(h, g, m, x)
      PROVE  LET id == CHOOSE id \in ids[h][g] : id[1] = m /\ id[2] = x
             IN id \in ids[h][g] /\ id[1] = m /\ id[2] = x /\ IdOf(h, g, m, x) = id[3]
  BY <1>3 DEF IdFile, IdOf
<1> QED
  BY <1>1, <1>2, <1>3

(* The described root of a task. *)
LEMMA RootFacts ==
  ASSUME CastOK, NEW t \in Threads
  PROVE  /\ Kind(t) \in Kinds /\ Special(t) \in BOOLEAN /\ Absent(t) \in BOOLEAN
         /\ Special(t) => Kind(t) \in {"archive", "file"}
         /\ Kind(t) = "git" => Key(t) \in Commits /\ TreeOf[Key(t)] \in Below[Key(t)]
         /\ Kind(t) = "archive" => Key(t) \in Archives
         /\ Kind(t) \in {"distdir", "foreign file"} => Key(t) \in Distdirs
         /\ Kind(t) = "file" => Key(t) \in FilePaths
         /\ Kind(t) = "git tree" => Key(t) \in Trees
         /\ Key(t) \in Described => TreeOf[Key(t)] \in Trees
         /\ Plain(t) \in Trees /\ Wanted(t) \in Trees /\ Contents(t) \subseteq Archives \cup Files
         /\ Wanted(t) = IF Special(t) THEN Resolved[Plain(t)] ELSE Plain(t)
         /\ Special(t) => Plain(t) \in Linked
         /\ Repo(t) \in Repositories /\ (Kind(t) \notin {"git", "file"} => Repo(t) = "client")
<1>1. /\ Kind(t) \in Kinds /\ Special(t) \in BOOLEAN /\ Absent(t) \in BOOLEAN
      /\ Special(t) => Kind(t) \in {"archive", "file"} /\ Key(t) \in KeysOf(Kind(t))
  BY DEF CastOK
<1>2. /\ Kind(t) = "git" => Key(t) \in Commits
      /\ Kind(t) = "archive" => Key(t) \in Archives
      /\ Kind(t) \in {"distdir", "foreign file"} => Key(t) \in Distdirs
      /\ Kind(t) = "file" => Key(t) \in FilePaths
      /\ Kind(t) = "git tree" => Key(t) \in Trees
  BY DEF CastOK, KeysOf, Kinds
<1>3. Kind(t) # "git tree" => Key(t) \in Described \cup FilePaths
  BY <1>1, <1>2 DEF Described, Kinds
<1>4. Plain(t) \in Trees /\ (Special(t) => Plain(t) \in Linked)
  BY <1>1, <1>2, <1>3, ObjectFacts DEF Plain
<1>5. Wanted(t) = IF Special(t) THEN Resolved[Plain(t)] ELSE Plain(t)
  BY <1>1 DEF Wanted, Plain
<1>6. Wanted(t) \in Trees
  BY <1>4, <1>5, ObjectFacts
<1>7. Contents(t) \subseteq Archives \cup Files
  <2>1. CASE Kind(t) = "archive"
    BY <1>2, <2>1 DEF Contents
  <2>2. CASE Kind(t) \in {"distdir", "foreign file"}
    <3>1. Contents(t) = Below[TreeOf[Key(t)]]
      BY <2>2 DEF Contents, HasContents
    <3>2. \A d \in Distdirs : Below[TreeOf[d]] \subseteq Archives \cup Files
      BY ContentAssumption
    <3> QED
      BY <1>2, <2>2, <3>1, <3>2
  <2>3. CASE Kind(t) \notin {"archive", "distdir", "foreign file"}
    BY <2>3 DEF Contents, HasContents
  <2> QED
    BY <2>1, <2>2, <2>3
<1>8. Repo(t) \in Repositories /\ (Kind(t) \notin {"git", "file"} => Repo(t) = "client")
  BY DEF Repo, Repositories, Hosts
<1>9. Kind(t) = "git" => TreeOf[Key(t)] \in Below[Key(t)]
  BY <1>2, ContentAssumption
<1> QED
  BY <1>1, <1>2, <1>4, <1>5, <1>6, <1>7, <1>8, <1>9, ObjectFacts

(* What is said about a task and does not change. *)
LEMMA CastSame ==
  ASSUME HistoryKept, NEW t \in Threads
  PROVE  /\ Kind(t)' = Kind(t) /\ Key(t)' = Key(t) /\ Special(t)' = Special(t) /\ Absent(t)' = Absent(t)
         /\ WithServe' = WithServe /\ Upstream' = Upstream /\ Fetching' = Fetching /\ Repo(t)' = Repo(t)
         /\ Plain(t)' = Plain(t) /\ Wanted(t)' = Wanted(t) /\ Contents(t)' = Contents(t)
         /\ Sought(t)' = Sought(t) /\ HasContents(t)' = HasContents(t) /\ Dir(t)' = Dir(t)
<1>1. cast' = cast /\ runs' = runs
  BY DEF HistoryKept
<1>2. /\ Kind(t)' = Kind(t) /\ Key(t)' = Key(t) /\ Special(t)' = Special(t) /\ Absent(t)' = Absent(t)
      /\ WithServe' = WithServe /\ Upstream' = Upstream /\ Fetching' = Fetching
  BY <1>1 DEF Kind, Key, Special, Absent, WithServe, Upstream, Fetching
<1> QED
  BY <1>1, <1>2 DEF Repo, Plain, Wanted, Contents, Sought, HasContents, Dir

(* What was there still is. *)
LEMMA GrowFacts ==
  ASSUME StoresOK, StoresGrow, HistoryKept, TypeRun
  PROVE  /\ Calm' => Calm /\ remote \subseteq remote' /\ ServeGrows
         /\ \A h \in {"client", "checkout"} : git[h][0] \subseteq git'[h][0]
         /\ ids["client"][0] \subseteq ids'["client"][0]
         /\ \A x : (kept' \/ Calm') /\ Has(x) => x \in git'["serve"][0] \/ x \in cast.known
         /\ \A x : OldWith(x)' = OldWith(x)
         /\ \A x : Locally(x) => x \in cas'["client"] \/ x \in git'["client"][0] \/ OldWith(x) # {} \/ x \in distdir'
         /\ \A x : Calm' /\ ServeFinds(x) =>
              x \in remote' \/ (cast.serve /\ (x \in git'["serve"][0] \/ x \in cast.known \/ x \in cas'["serve"]))
         /\ cas["client"] \subseteq cas'["client"] /\ distdir \subseteq distdir'
         /\ (kept' => kept) /\ (astray => astray')
         /\ near' = near /\ cast' = cast
<1> USE DEF StoresGrow, ClientGrows
<1>1. Calm' => Calm /\ collections' = collections
  BY DEF StoresOK, Budgets, StoresTypeOK, HistoryKept, Calm
<1>4. \A x : (kept' \/ Calm') /\ Has(x) => x \in git'["serve"][0] \/ x \in cast.known
  BY <1>1 DEF Has, InGit, HistoryKept, ServeGrows
<1>5. \A x : OldWith(x)' = OldWith(x)
  BY DEF OldWith
<1>6. \A x : Locally(x) => x \in cas'["client"] \/ x \in git'["client"][0] \/ OldWith(x) # {} \/ x \in distdir'
  BY <1>5 DEF Locally, BlobInGit, InGit
<1>7. \A x : Calm' /\ ServeFinds(x) =>
        x \in remote' \/ (cast.serve /\ (x \in git'["serve"][0] \/ x \in cast.known \/ x \in cas'["serve"]))
  BY <1>1, <1>4 DEF ServeFinds, HistoryKept, WithServe, ServeGrows
<1> QED
  BY <1>1, <1>4, <1>5, <1>6, <1>7 DEF HistoryKept

-----------------------------------------------------------------------------
(* What is true of a task stays true while it waits, and goes with it.     *)
LEMMA TaskKept ==
  ASSUME StoresOK, StoresGrow, HistoryKept, TypeRun, NEW t \in Threads, NEW l, NEW x,
         pc'[t] = l, object'[t] = x, TaskAt(t, l, x)
  PROVE  TaskOK(t)'
<1>1. /\ Kind(t)' = Kind(t) /\ Key(t)' = Key(t) /\ Special(t)' = Special(t) /\ Absent(t)' = Absent(t)
      /\ Fetching' = Fetching /\ Repo(t)' = Repo(t) /\ Plain(t)' = Plain(t) /\ Wanted(t)' = Wanted(t)
      /\ Contents(t)' = Contents(t) /\ Sought(t)' = Sought(t) /\ HasContents(t)' = HasContents(t)
  BY CastSame
<1>2. /\ git["client"][0] \subseteq git'["client"][0] /\ git["checkout"][0] \subseteq git'["checkout"][0]
      /\ cas["client"] \subseteq cas'["client"] /\ ids["client"][0] \subseteq ids'["client"][0]
  BY GrowFacts
<1>3. Repo(t) \in {"client", "checkout"}
  BY DEF Repo
<1>4. InGit(Repo(t), Plain(t)) => InGit(Repo(t), Plain(t))'
  BY <1>1, <1>2, <1>3 DEF InGit
<1>5. Here(t, Wanted(t)) => Here(t, Wanted(t))'
  BY <1>1, <1>2, <1>3 DEF InGit, Here
<1>6. /\ InGit("client", Plain(t)) => InGit("client", Plain(t))'
      /\ InGit("client", Wanted(t)) => InGit("client", Wanted(t))'
  BY <1>1, <1>2 DEF InGit
<1>7. YoungId(t) => YoungId(t)'
  BY <1>1, <1>2 DEF YoungId, IdFile
<1>8. IsAbout(t, l, x) /\ IsFor(t, l) /\ HasAtHand(t, l)
  BY DEF TaskAt
<1>9. IsAbout(t, pc[t], object[t])'
  BY <1>1, <1>8 DEF IsAbout
<1>10. IsFor(t, pc[t])'
  BY <1>1, <1>8 DEF IsFor
<1>11. HasAtHand(t, pc[t])'
  BY <1>1, <1>2, <1>4, <1>5, <1>6, <1>7, <1>8 DEF HasAtHand
<1> QED
  BY <1>9, <1>10, <1>11 DEF TaskOK, TaskAt

LEMMA RootKept ==
  ASSUME StoresOK, StoresGrow, HistoryKept, TypeRun, NEW t \in Threads, NEW r,
         root'[t] = r, RootAt(t, r), pc'[t] # "done" => r.state = "unset"
  PROVE  RootOK(t)'
<1>1. /\ Kind(t)' = Kind(t) /\ Wanted(t)' = Wanted(t) /\ Contents(t)' = Contents(t) /\ WithServe' = WithServe
  BY CastSame
<1> QED
  BY <1>1, GrowFacts DEF RootOK, RootAt, InGit, Has

(* What is true of a call of the serve endpoint, and of its caller.        *)
LEMMA ServeKept ==
  ASSUME StoresOK, StoresGrow, HistoryKept, TypeRun, NEW t \in Threads, NEW h,
         handler'[t] = h, ServeAt(h), h.stage \in Working => ServeGrows
  PROVE  ServeOK(t)'
<1>1. cast' = cast
  BY DEF HistoryKept
<1> QED
  BY <1>1 DEF ServeOK, ServeAt, InGit, Has, ServeGrows

LEMMA AskedKept ==
  ASSUME HistoryKept, NEW t \in Threads, NEW l, NEW x, NEW h,
         pc'[t] = l, object'[t] = x, handler'[t] = h, AskedAt(t, l, x, h)
  PROVE  Asked(t)'
<1>1. Kind(t)' = Kind(t) /\ Key(t)' = Key(t) /\ Special(t)' = Special(t) /\ Absent(t)' = Absent(t) /\ Wanted(t)' = Wanted(t)
  BY CastSame
<1> QED
  BY <1>1 DEF Asked, AskedAt

LEMMA RepliedKept ==
  ASSUME StoresOK, StoresGrow, HistoryKept, TypeRun, NEW t \in Threads, NEW l, NEW h,
         pc'[t] = l, handler'[t] = h, RepliedAt(l, h)
  PROVE  Replied(t)'
<1>1. Promised(handler[t])' = Promised(h)
  BY DEF Promised
<1>2. l \in Waits => Replied(t)'
  BY <1>1, GrowFacts DEF Replied, RepliedAt, InGit, Has
<1> QED
  BY <1>2 DEF Replied, RepliedAt

(* What is found at the endpoint or in the network.                        *)
LEMMA FoundKept ==
  ASSUME StoresOK, StoresGrow, HistoryKept, TypeRun, NEW t \in Threads, Calm'
  PROVE  /\ AllFound(t) => AllFound(t)'
         /\ Reachable(t) => Reachable(t)'
         /\ KnownToServe(t) => KnownToServe(t)'
<1>1. /\ Kind(t)' = Kind(t) /\ Key(t)' = Key(t) /\ Absent(t)' = Absent(t) /\ WithServe' = WithServe
      /\ Upstream' = Upstream /\ Contents(t)' = Contents(t) /\ Dir(t)' = Dir(t)
  BY CastSame
<1>2. FileTree(t)' = FileTree(t) /\ FileTree(t) = Dir(t)
  BY <1>1 DEF FileTree, Dir
<1>3. \A x : Locally(x) => x \in cas'["client"] \/ x \in git'["client"][0] \/ OldWith(x)' # {} \/ x \in distdir'
  BY GrowFacts
<1>4. \A x : ServeFinds(x) =>
        x \in remote' \/ (WithServe' /\ (x \in git'["serve"][0] \/ x \in cast'.known \/ x \in cas'["serve"]))
  BY GrowFacts, <1>1 DEF WithServe
<1>5. AllFound(t) => AllFound(t)'
  BY <1>1, <1>3, <1>4 DEF AllFound, ServeFinds, Locally, BlobInGit, InGit, Has
<1>6. Reachable(t) => Reachable(t)'
  BY <1>1, <1>3, <1>4 DEF Reachable, ServeFinds, Locally, BlobInGit, InGit, Has
<1>7. /\ \A x : Has(x) => x \in git'["serve"][0] \/ x \in cast'.known
      /\ cas["serve"] \subseteq cas'["serve"] /\ ids["serve"][0] \subseteq ids'["serve"][0]
  BY GrowFacts DEF ServeGrows
<1>8. ServeFinds(Key(t)) => ServeFinds(Key(t))'
  BY <1>1, <1>4 DEF ServeFinds, Has, InGit
<1>9. ServeFinds(Dir(t)) => ServeFinds(Dir(t))'
  BY <1>1, <1>4 DEF ServeFinds, Has, InGit
<1>10. Has(Key(t)) => Has(Key(t))'
  BY <1>1, <1>7 DEF Has, InGit
<1>11. Has(FileTree(t)) => Has(FileTree(t))'
  BY <1>2, <1>7 DEF Has, InGit
<1>12. IdFile("serve", 0, "tree-map", Key(t)) => IdFile("serve", 0, "tree-map", Key(t))'
  BY <1>1, <1>7 DEF IdFile
<1>13. KnownToServe(t) => KnownToServe(t)'
  BY <1>1, <1>2, <1>5, <1>7, <1>8, <1>9, <1>10, <1>11, <1>12 DEF KnownToServe
<1> QED
  BY <1>5, <1>6, <1>13

LEMMA NotFoundKept ==
  ASSUME StoresOK, StoresGrow, HistoryKept, TypeRun, NEW t \in Threads, NEW l, NEW x, NEW h,
         pc'[t] = l, object'[t] = x, handler'[t] = h, NotFoundAt(t, l, x, h)
  PROVE  NotFound(t)'
<1>1. Kind(t)' = Kind(t) /\ Key(t)' = Key(t) /\ Dir(t)' = Dir(t) /\ Upstream' = Upstream
  BY CastSame
<1>2. SUFFICES ASSUME Calm' PROVE NotFound(t)'
  BY DEF NotFound, NotFoundAt
<1>3. AllFound(t) => AllFound(t)'
  BY <1>2, FoundKept
<1>4. Calm /\ remote \subseteq remote' /\ near' = near
  BY <1>2, GrowFacts
<1> QED
  BY <1>1, <1>3, <1>4 DEF NotFound, NotFoundAt, InReach

LEMMA AskingKept ==
  ASSUME StoresOK, StoresGrow, HistoryKept, TypeRun, NEW t \in Threads, NEW l, NEW x, NEW h,
         pc'[t] = l, object'[t] = x, handler'[t] = h, AskingAt(t, l, x, h)
  PROVE  Asking(t)'
<1>1. Kind(t)' = Kind(t) /\ Key(t)' = Key(t) /\ Dir(t)' = Dir(t) /\ Upstream' = Upstream
  BY CastSame
<1>2. SUFFICES ASSUME Calm' PROVE Asking(t)'
  BY DEF Asking, AskingAt
<1>3. AllFound(t) => AllFound(t)'
  BY <1>2, FoundKept
<1>4. Calm /\ remote \subseteq remote' /\ near' = near
  BY <1>2, GrowFacts
<1>5. \A y : ServeFinds(y) =>
        y \in remote' \/ (cast'.serve /\ (y \in git'["serve"][0] \/ y \in cast'.known \/ y \in cas'["serve"]))
  BY <1>2, GrowFacts
<1>6. ServeFinds(Key(t)) => ServeFinds(Key(t))'
  BY <1>1, <1>5 DEF ServeFinds, Has, InGit, WithServe
<1>7. Offered(t, x) => Offered(t, object[t])'
  BY <1>1, <1>4, <1>5 DEF Offered, ServeFinds, Has, InGit, WithServe
<1> QED
  BY <1>1, <1>3, <1>4, <1>6, <1>7 DEF Asking, AskingAt

(* What is local stays so.                                                 *)
LEMMA LocalKept ==
  ASSUME StoresOK, StoresGrow, HistoryKept, TypeRun, NEW t \in Threads
  PROVE  /\ AllLocal(t) => AllLocal(t)'
         /\ KnownLocally(t, Fetching) => KnownLocally(t, Fetching)'
<1>1. /\ Kind(t)' = Kind(t) /\ Key(t)' = Key(t) /\ Absent(t)' = Absent(t) /\ WithServe' = WithServe
      /\ Fetching' = Fetching /\ Repo(t)' = Repo(t) /\ Contents(t)' = Contents(t) /\ Dir(t)' = Dir(t)
  BY CastSame
<1>2. /\ git["client"][0] \subseteq git'["client"][0] /\ git["checkout"][0] \subseteq git'["checkout"][0]
      /\ cas["client"] \subseteq cas'["client"] /\ ids["client"][0] \subseteq ids'["client"][0]
      /\ distdir \subseteq distdir' /\ OldWith(Key(t)) = OldWith(Key(t))'
  BY <1>1, GrowFacts DEF OldWith
<1>3. \A x : Locally(x) => x \in cas'["client"] \/ x \in git'["client"][0] \/ OldWith(x)' # {} \/ x \in distdir'
  BY GrowFacts
<1>4. AllLocal(t) => AllLocal(t)'
  BY <1>1, <1>3 DEF AllLocal, Locally, BlobInGit, InGit
<1>5. Locally(Key(t)) => Locally(Key(t))'
  BY <1>1, <1>3 DEF Locally, BlobInGit, InGit, OldWith
<1>6. InGit(Repo(t), Key(t)) => InGit(Repo(t), Key(t))'
  BY <1>1, <1>2 DEF InGit, Repo
<1>7. InGit("client", Key(t)) => InGit("client", Key(t))'
  BY <1>1, <1>2 DEF InGit
<1>8. /\ KnowTree(t) => KnowTree(t)'
      /\ DirId(t) => DirId(t)'
      /\ FileId(t) => FileId(t)'
  BY <1>1, <1>2 DEF KnowTree, DirId, FileId, IdFile
<1>9. OldId(t) => OldId(t)'
  <2>1. \A g \in 0 .. Generations - 1 : ids["client"][g] \subseteq ids'["client"][g]
    BY <1>2, ContentAssumption DEF StoresGrow, ClientGrows, Old
  <2> QED
    BY <1>1, <2>1 DEF OldId, IdFile
<1>10. KnownLocally(t, Fetching) => KnownLocally(t, Fetching)'
  BY <1>1, <1>2, <1>4, <1>5, <1>6, <1>7, <1>8, <1>9 DEF KnownLocally
<1> QED
  BY <1>4, <1>10

LEMMA SearchKept ==
  ASSUME StoresOK, StoresGrow, HistoryKept, TypeRun, NEW t \in Threads, NEW l, NEW x,
         pc'[t] = l, object'[t] = x, SearchAt(t, l, x)
  PROVE  Searching(t)'
<1>1. /\ Kind(t)' = Kind(t) /\ Key(t)' = Key(t) /\ Absent(t)' = Absent(t) /\ Upstream' = Upstream /\ Dir(t)' = Dir(t)
  BY CastSame
<1>2. /\ git["client"][0] \subseteq git'["client"][0] /\ cas["client"] \subseteq cas'["client"]
      /\ distdir \subseteq distdir' /\ near' = near /\ (astray => astray')
      /\ Calm' => Calm /\ remote \subseteq remote'
  BY GrowFacts
<1>3. AllLocal(t) => AllLocal(t)'
  BY LocalKept
<1>4. LocalSource(t) => LocalSource(t)'
  BY <1>1, <1>2 DEF LocalSource, InGit
<1>5. Calm' /\ InReach(t, x) => InReach(t, object[t])'
  BY <1>1, <1>2 DEF InReach
<1>6. InGit("client", Key(t)) => InGit("client", Key(t))'
  BY <1>1, <1>2 DEF InGit
<1> QED
  BY <1>1, <1>2, <1>3, <1>4, <1>5, <1>6 DEF Searching, SearchAt

LEMMA BeganKept ==
  ASSUME StoresOK, StoresGrow, HistoryKept, TypeRun, NEW t \in Threads, Began(t),
         pc'[t] \notin {"idle", "done"} => pc[t] \notin {"idle", "done"}
  PROVE  Began(t)'
<1>1. Absent(t)' = Absent(t) /\ near' = near /\ (Calm' => Calm)
  BY CastSame, GrowFacts
<1>2. KnownLocally(t, Fetching) => KnownLocally(t, Fetching)'
  BY LocalKept
<1>3. Calm' => (Reachable(t) => Reachable(t)') /\ (KnownToServe(t) => KnownToServe(t)')
  BY FoundKept
<1> QED
  BY <1>1, <1>2, <1>3 DEF Began

(* A task that does nothing.                                               *)
LEMMA ThreadKept ==
  ASSUME StoresOK, StoresGrow, HistoryKept, TypeRun, NEW t \in Threads, ThreadOK(t),
         pc'[t] = pc[t], object'[t] = object[t], root'[t] = root[t], handler'[t] = handler[t],
         Serving(t) => ServeGrows
  PROVE  ThreadOK(t)'
<1>1. TaskOK(t)' /\ RootOK(t)'
  BY TaskKept, RootKept DEF ThreadOK, TaskOK, RootOK
<1>2. ServeOK(t)' /\ Asked(t)' /\ Replied(t)'
  BY ServeKept, AskedKept, RepliedKept DEF ThreadOK, ServeOK, Asked, Replied, Serving
<1>3. NotFound(t)' /\ Asking(t)'
  BY NotFoundKept, AskingKept DEF ThreadOK, NotFound, Asking
<1>4. Searching(t)' /\ Began(t)'
  BY SearchKept, BeganKept DEF ThreadOK, Searching
<1> QED
  BY <1>1, <1>2, <1>3, <1>4 DEF ThreadOK

-----------------------------------------------------------------------------
(* What a step does to the stores.                                         *)
Spent == trouble' \in 0 .. trouble /\ collections' = collections /\ cast' = cast /\ begun' = begun

LEMMA SpentFacts ==
  ASSUME StoresOK, Spent
  PROVE  /\ trouble' \in 0 .. MaxTrouble /\ collections' \in 0 .. MaxCollections
         /\ trouble' <= trouble /\ collections' <= collections
         /\ Budgets'
<1>1. /\ trouble \in 0 .. MaxTrouble /\ collections \in 0 .. MaxCollections
      /\ MaxTrouble \in Nat /\ MaxCollections \in Nat
  BY ContentAssumption DEF StoresOK, StoresTypeOK
<1> QED
  BY <1>1 DEF StoresOK, Spent, Budgets

LEMMA CastKept ==
  ASSUME CastOK, cast' = cast, git["checkout"][0] \subseteq git'["checkout"][0]
  PROVE  CastOK'
BY DEF CastOK, InGit, Kind, Key, Special, Absent

LEMMA NothingStored ==
  ASSUME StoresOK, Spent, UNCHANGED <<git, ids, cas, remote, distdir>>
  PROVE  StoresOK' /\ ClientGrows /\ ServeGrows
<1>1. CastOK'
  BY CastKept DEF StoresOK, Spent
<1>2. ClientGrows /\ ServeGrows
  BY SpentFacts DEF ClientGrows, ServeGrows
<1>3. StoresTypeOK' /\ IdsAreBacked' /\ CommitsComplete' /\ CasClosed' /\ Budgets'
  BY SpentFacts DEF StoresOK, StoresTypeOK, IdsAreBacked, CommitsComplete, CasClosed
<1> QED
  BY <1>1, <1>2, <1>3 DEF StoresOK

LEMMA GitGrows ==
  ASSUME StoresOK, Spent, NEW h \in Repositories, NEW o \in Objects, ToGit(h, o),
         UNCHANGED <<ids, cas, remote, distdir>>
  PROVE  StoresOK' /\ ClientGrows /\ ServeGrows /\ WithBelow(o) \subseteq git'[h][0]
<1>1. 0 \in Gens0 /\ Old \subseteq Gens0 /\ 0 \notin Old
  BY ContentAssumption DEF Gens0, Old
<1>2. git \in [Repositories -> [Gens0 -> SUBSET Objects]]
  BY DEF StoresOK, StoresTypeOK, Gens0
<1>3. WithBelow(o) \subseteq Objects
  BY ObjectFacts
<1>4. /\ git' \in [Repositories -> [Gens0 -> SUBSET Objects]]
      /\ git'[h][0] = git[h][0] \cup WithBelow(o)
      /\ \A r \in Repositories, g \in Gens0 : r # h \/ g # 0 => git'[r][g] = git[r][g]
  BY <1>1, <1>2, <1>3 DEF ToGit
<1>5. \A r \in Repositories, g \in Gens0 : git[r][g] \subseteq git'[r][g]
  BY <1>4
<1>6. "client" \in Repositories /\ "serve" \in Repositories /\ "checkout" \in Repositories /\ Hosts \subseteq Repositories
  BY DEF Repositories, Hosts
<1>7. CastOK'
  BY <1>1, <1>5, <1>6, CastKept DEF StoresOK, Spent
<1>8. ClientGrows /\ ServeGrows
  BY <1>1, <1>4, <1>5, <1>6, SpentFacts DEF ClientGrows, ServeGrows
<1>9. StoresTypeOK'
  BY <1>4, SpentFacts DEF StoresOK, StoresTypeOK, Gens0
<1>10. IdsAreBacked'
  BY <1>5, <1>6 DEF StoresOK, IdsAreBacked, Gens0
<1>11. \A c \in Commits : c \in WithBelow(o) => TreeOf[c] \in WithBelow(o)
  <2>1. \A c \in Commits : c \notin Below[o] /\ TreeOf[c] \in Below[c]
    BY ContentAssumption
  <2> QED
    BY <2>1 DEF WithBelow
<1>12. CommitsComplete'
  BY <1>4, <1>11 DEF StoresOK, CommitsComplete
<1> QED
  BY <1>4, <1>7, <1>8, <1>9, <1>10, <1>12, SpentFacts DEF StoresOK, CasClosed

LEMMA IdsGrow ==
  ASSUME StoresOK, Spent, NEW h \in Hosts, NEW m, NEW x, NEW tree, WriteTreeIDFile(h, m, x, tree),
         <<m, x, tree>> \in IdFiles, InGit(h, tree), UNCHANGED <<git, cas, remote, distdir>>
  PROVE  StoresOK' /\ ClientGrows /\ ServeGrows /\ <<m, x, tree>> \in ids'[h][0]
<1>1. 0 \in Gens0 /\ Old \subseteq Gens0 /\ 0 \notin Old
  BY ContentAssumption DEF Gens0, Old
<1>2. ids \in [Hosts -> [Gens0 -> SUBSET IdFiles]]
  BY DEF StoresOK, StoresTypeOK, Gens0
<1>4. /\ ids' \in [Hosts -> [Gens0 -> SUBSET IdFiles]]
      /\ ids'[h][0] = ids[h][0] \cup {<<m, x, tree>>}
      /\ \A r \in Hosts, g \in Gens0 : r # h \/ g # 0 => ids'[r][g] = ids[r][g]
  BY <1>1, <1>2 DEF WriteTreeIDFile
<1>6. "client" \in Hosts /\ "serve" \in Hosts
  BY DEF Hosts
<1>7. CastOK'
  BY CastKept DEF StoresOK, Spent
<1>8. ClientGrows /\ ServeGrows
  BY <1>1, <1>4, <1>6, SpentFacts DEF ClientGrows, ServeGrows
<1>9. StoresTypeOK'
  BY <1>4, SpentFacts DEF StoresOK, StoresTypeOK, Gens0
<1>10. IdsAreBacked'
  <2>1. \A r \in Hosts, g \in Gens0 : \A id \in ids[r][g] : id[3] \in git[r][g]
    BY DEF StoresOK, IdsAreBacked, Gens0
  <2>2. \A id \in ids'[h][0] : id[3] \in git[h][0]
    BY <1>1, <1>4, <2>1 DEF InGit
  <2>3. \A r \in Hosts, g \in Gens0 : \A id \in ids'[r][g] : id[3] \in git[r][g]
    BY <1>4, <2>1, <2>2
  <2> QED
    BY <2>3 DEF IdsAreBacked, Gens0
<1> QED
  BY <1>4, <1>7, <1>8, <1>9, <1>10, SpentFacts DEF StoresOK, CasClosed, CommitsComplete

LEMMA CasGrows ==
  ASSUME StoresOK, Spent, NEW h \in Hosts, NEW S \in SUBSET Stored, cas' = [cas EXCEPT ![h] = @ \cup S],
         h = "client" => \A x \in S : Below[x] \subseteq S, UNCHANGED <<git, ids, remote, distdir>>
  PROVE  StoresOK' /\ ClientGrows /\ ServeGrows /\ cas'[h] = cas[h] \cup S
<1>1. cas \in [Hosts -> SUBSET Stored] /\ "client" \in Hosts /\ "serve" \in Hosts
  BY DEF StoresOK, StoresTypeOK, Hosts
<1>2. cas' \in [Hosts -> SUBSET Stored] /\ cas'[h] = cas[h] \cup S /\ \A r \in Hosts : r # h => cas'[r] = cas[r]
  BY <1>1
<1>3. CastOK'
  BY CastKept DEF StoresOK, Spent
<1>4. ClientGrows /\ ServeGrows
  BY <1>1, <1>2, SpentFacts DEF ClientGrows, ServeGrows
<1>5. StoresTypeOK'
  BY <1>2, SpentFacts DEF StoresOK, StoresTypeOK
<1>6. CasClosed'
  BY <1>1, <1>2 DEF StoresOK, CasClosed
<1> QED
  BY <1>2, <1>3, <1>4, <1>5, <1>6, SpentFacts DEF StoresOK, IdsAreBacked, CommitsComplete

LEMMA RemoteGrows ==
  ASSUME StoresOK, Spent, NEW S \in SUBSET Stored, remote' = remote \cup S, UNCHANGED <<git, ids, cas, distdir>>
  PROVE  StoresOK' /\ ClientGrows /\ ServeGrows
<1>1. CastOK'
  BY CastKept DEF StoresOK, Spent
<1>2. ClientGrows /\ ServeGrows
  BY SpentFacts DEF ClientGrows, ServeGrows
<1>3. StoresTypeOK'
  BY SpentFacts DEF StoresOK, StoresTypeOK
<1> QED
  BY <1>1, <1>2, <1>3, SpentFacts DEF StoresOK, IdsAreBacked, CommitsComplete, CasClosed

LEMMA DistdirGrows ==
  ASSUME StoresOK, Spent, NEW S \in SUBSET (Archives \cup Files), distdir' = distdir \cup S,
         UNCHANGED <<git, ids, cas, remote>>
  PROVE  StoresOK' /\ ClientGrows /\ ServeGrows
<1>1. CastOK'
  BY CastKept DEF StoresOK, Spent
<1>2. ClientGrows /\ ServeGrows
  BY SpentFacts DEF ClientGrows, ServeGrows
<1>3. StoresTypeOK'
  BY SpentFacts DEF StoresOK, StoresTypeOK
<1> QED
  BY <1>1, <1>2, <1>3, SpentFacts DEF StoresOK, IdsAreBacked, CommitsComplete, CasClosed

(* What comes with an object is closed.                                    *)
LEMMA WholeObjects ==
  ASSUME NEW o \in Stored
  PROVE  WithBelow(o) \in SUBSET Stored /\ \A x \in WithBelow(o) : Below[x] \subseteq WithBelow(o)
BY ObjectFacts, ContentAssumption DEF WithBelow

-----------------------------------------------------------------------------
(* A step of one task: what remains to be shown is about that task.        *)
LEMMA OneTask ==
  ASSUME Inv, NEW t \in Threads, HistoryKept, Types', StoresOK', ClientGrows, ServeGrows, ThreadOK(t)',
         \A o \in Threads \ {t} : /\ pc'[o] = pc[o] /\ object'[o] = object[o]
                                  /\ root'[o] = root[o] /\ handler'[o] = handler[o]
  PROVE  Inv'
<1>1. StoresOK /\ StoresGrow /\ TypeRun
  BY DEF Inv, Types, StoresGrow
<1>2. ASSUME NEW o \in Threads PROVE ThreadOK(o)'
  <2>1. CASE o = t
    BY <2>1
  <2>2. CASE o # t
    <3>1. ThreadOK(o)
      BY DEF Inv
    <3> QED
      BY <1>1, <2>2, <3>1, ThreadKept
  <2> QED
    BY <2>1, <2>2
<1> QED
  BY <1>2 DEF Inv

LEMMA NoCallTyped ==
  NoCall \in [rpc : Rpcs, key : Objects \cup Distdirs \cup {"none"}, sync : BOOLEAN, special : BOOLEAN,
              stage : Working \cup Answers \cup {"none"}, tree : Objects \cup {"none"}]
BY DEF NoCall, Rpcs

(* The task goes on.                                                       *)
LEMMA LearnKept ==
  ASSUME Inv, NEW t \in Threads, NEW l \in Labels \ (Waits \cup {"idle", "done"}),
         NEW x \in Objects \cup Distdirs \cup {"none"}, NEW k \in BOOLEAN, Learn(t, l, x, k),
         pc[t] \notin {"idle", "done"}, StoresOK', ClientGrows, ServeGrows, TaskOK(t)', Searching(t)'
  PROVE  Inv'
<1>1. StoresOK /\ StoresGrow /\ TypeRun /\ TypeTasks /\ SourceTreeTypeOK /\ ThreadOK(t)
  BY DEF Inv, Types, StoresGrow
<1>2. HistoryKept
  BY DEF Learn, HistoryKept, historyVars, mapVars
<1>3. /\ pc'[t] = l /\ object'[t] = x /\ root'[t] = root[t] /\ handler'[t] = NoCall
      /\ \A o \in Threads \ {t} : /\ pc'[o] = pc[o] /\ object'[o] = object[o]
                                  /\ root'[o] = root[o] /\ handler'[o] = handler[o]
  BY <1>1 DEF Learn, TypeTasks, SourceTreeTypeOK
<1>4. Types'
  <2>1. TypeTasks'
    BY <1>1 DEF TypeTasks, Learn
  <2>2. TypeRun'
    BY <1>1 DEF TypeRun, Learn, historyVars
  <2>3. SourceTreeTypeOK'
    BY <1>1, NoCallTyped DEF SourceTreeTypeOK, Learn, mapVars
  <2> QED
    BY <2>1, <2>2, <2>3 DEF Types
<1>5. ThreadOK(t)'
  <2>1. RootOK(t)'
    BY <1>1, <1>2, <1>3, RootKept DEF ThreadOK, RootOK
  <2>2. ServeOK(t)' /\ Replied(t)' /\ NotFound(t)'
    BY <1>3 DEF NoCall, ServeOK, ServeAt, Working, Replied, RepliedAt, NotFound, NotFoundAt
  <2>3. Asked(t)' /\ Asking(t)'
    BY <1>3 DEF Asked, AskedAt, Asking, AskingAt, Waits
  <2>4. Began(t)'
    BY <1>1, <1>2, BeganKept DEF ThreadOK
  <2> QED
    BY <2>1, <2>2, <2>3, <2>4 DEF ThreadOK
<1> QED
  BY <1>2, <1>3, <1>4, <1>5, OneTask

LEMMA MoveKept ==
  ASSUME Inv, NEW t \in Threads, NEW l \in Labels \ (Waits \cup {"idle", "done"}),
         NEW x \in Objects \cup Distdirs \cup {"none"}, NEW k \in BOOLEAN, Learn(t, l, x, k),
         pc[t] \notin {"idle", "done"}, StoresOK', ClientGrows, ServeGrows, TaskAt(t, l, x), SearchAt(t, l, x)
  PROVE  Inv'
<1>1. StoresOK /\ StoresGrow /\ TypeRun /\ TypeTasks
  BY DEF Inv, Types, StoresGrow
<1>2. HistoryKept
  BY DEF Learn, HistoryKept, historyVars, mapVars
<1>3. pc'[t] = l /\ object'[t] = x
  BY <1>1 DEF Learn, TypeTasks
<1>4. TaskOK(t)' /\ Searching(t)'
  BY <1>1, <1>2, <1>3, TaskKept, SearchKept
<1> QED
  BY <1>4, LearnKept

(* It calls the endpoint.                                                  *)
Call(t, rpc, key) ==
  [rpc |-> rpc, key |-> key, sync |-> rpc \in {"commit", "distdir"} /\ ~Absent(t),
   special |-> rpc = "archive" /\ Special(t), stage |-> "begin", tree |-> "none"]
Fits(rpc, key) ==
  /\ rpc \in {"commit", "archive", "distdir", "content", "tree", "check", "get"}
  /\ rpc = "commit" => key \in Commits
  /\ rpc = "archive" => key \in Archives
  /\ rpc = "distdir" => key \in Distdirs
  /\ rpc \in {"content", "tree", "check", "get"} => key \in Stored

LEMMA AskKept ==
  ASSUME Inv, NEW t \in Threads, NEW l \in Waits, NEW x \in Objects \cup Distdirs \cup {"none"},
         NEW rpc, NEW key, Ask(t, rpc, key, x, l), Fits(rpc, key), rpc = "get" => key \in remote',
         pc[t] \notin {"idle", "done"}, StoresOK', ClientGrows, ServeGrows,
         TaskAt(t, l, x), SearchAt(t, l, x), AskedAt(t, l, x, Call(t, rpc, key)), AskingAt(t, l, x, Call(t, rpc, key))
  PROVE  Inv'
<1>1. StoresOK /\ StoresGrow /\ TypeRun /\ TypeTasks /\ SourceTreeTypeOK /\ ThreadOK(t)
  BY DEF Inv, Types, StoresGrow
<1>2. HistoryKept
  BY DEF Ask, HistoryKept, historyVars, mapVars
<1>3. /\ pc'[t] = l /\ object'[t] = x /\ root'[t] = root[t] /\ handler'[t] = Call(t, rpc, key)
      /\ \A o \in Threads \ {t} : /\ pc'[o] = pc[o] /\ object'[o] = object[o]
                                  /\ root'[o] = root[o] /\ handler'[o] = handler[o]
  BY <1>1 DEF Ask, Calls, Call, TypeTasks, SourceTreeTypeOK
<1>4. Types'
  <2>1. TypeTasks'
    BY <1>1 DEF TypeTasks, Ask, Waits, Labels
  <2>2. TypeRun'
    BY <1>1 DEF TypeRun, Ask, historyVars
  <2>3. Call(t, rpc, key) \in [rpc : Rpcs, key : Objects \cup Distdirs \cup {"none"}, sync : BOOLEAN, special : BOOLEAN,
              stage : Working \cup Answers \cup {"none"}, tree : Objects \cup {"none"}]
    <3>1. rpc \in Rpcs /\ key \in Objects \cup Distdirs
      BY ObjectFacts DEF Fits, Rpcs
    <3>2. Special(t) \in BOOLEAN /\ Absent(t) \in BOOLEAN
      BY <1>1, RootFacts DEF StoresOK
    <3> QED
      BY <3>1, <3>2 DEF Call, Working
  <2>4. SourceTreeTypeOK'
    BY <1>1, <2>3 DEF SourceTreeTypeOK, Ask, Calls, Call, mapVars
  <2> QED
    BY <2>1, <2>2, <2>4 DEF Types
<1>5. ThreadOK(t)'
  <2>1. TaskOK(t)' /\ Searching(t)' /\ Asked(t)' /\ Asking(t)'
    BY <1>1, <1>2, <1>3, TaskKept, SearchKept, AskedKept, AskingKept
  <2>2. RootOK(t)'
    BY <1>1, <1>2, <1>3, RootKept DEF ThreadOK, RootOK
  <2>3. ServeOK(t)'
    BY <1>3 DEF ServeOK, ServeAt, Call, Fits
  <2>4. Replied(t)'
    BY <1>3 DEF Replied, RepliedAt, Call
  <2>5. NotFound(t)'
    <3>1. handler[t]'.stage = "begin"
      BY <1>3 DEF Call
    <3> QED
      BY <3>1 DEF NotFound, NotFoundAt
  <2>6. Began(t)'
    BY <1>1, <1>2, BeganKept DEF ThreadOK
  <2> QED
    BY <2>1, <2>2, <2>3, <2>4, <2>5, <2>6 DEF ThreadOK
<1> QED
  BY <1>2, <1>3, <1>4, <1>5, OneTask

(* It ends.                                                                *)
Typed(r) == r \in [state : {"unset", "failed", "fetched", "skipped", "present", "absent"},
                   tree : Objects \cup Distdirs \cup {"none"}, repo : Repositories \cup {"none"}]
LEMMA FinishKept ==
  ASSUME Inv, NEW t \in Threads, NEW r, Finish(t, r), Typed(r),
         StoresOK', ClientGrows, ServeGrows, RootOK(t)'
  PROVE  Inv'
<1>1. StoresOK /\ StoresGrow /\ TypeRun /\ TypeTasks /\ SourceTreeTypeOK
  BY DEF Inv, Types, StoresGrow
<1>2. HistoryKept
  BY DEF Finish, HistoryKept, historyVars, mapVars
<1>3. /\ pc'[t] = "done" /\ object'[t] = "none" /\ root'[t] = r /\ handler'[t] = NoCall
      /\ \A o \in Threads \ {t} : /\ pc'[o] = pc[o] /\ object'[o] = object[o]
                                  /\ root'[o] = root[o] /\ handler'[o] = handler[o]
  BY <1>1 DEF Finish, TypeTasks, SourceTreeTypeOK
<1>4. Types'
  <2>1. TypeTasks'
    BY <1>1 DEF TypeTasks, Finish, Labels, Typed
  <2>2. TypeRun'
    BY <1>1 DEF TypeRun, Finish, historyVars
  <2>3. SourceTreeTypeOK'
    BY <1>1, NoCallTyped DEF SourceTreeTypeOK, Finish, mapVars
  <2> QED
    BY <2>1, <2>2, <2>3 DEF Types
<1>5. ThreadOK(t)'
  <2>1. TaskOK(t)' /\ Searching(t)'
    BY <1>3 DEF TaskOK, TaskAt, IsAbout, IsFor, HasAtHand, Searching, SearchAt
  <2>2. ServeOK(t)' /\ Replied(t)' /\ NotFound(t)'
    BY <1>3 DEF NoCall, ServeOK, ServeAt, Working, Replied, RepliedAt, NotFound, NotFoundAt
  <2>3. Asked(t)' /\ Asking(t)' /\ Began(t)'
    BY <1>3 DEF Asked, AskedAt, Asking, AskingAt, Began
  <2> QED
    BY <2>1, <2>2, <2>3 DEF ThreadOK
<1> QED
  BY <1>2, <1>3, <1>4, <1>5, OneTask

LEMMA EndKept ==
  ASSUME Inv, NEW t \in Threads, NEW r, Finish(t, r), Typed(r), StoresOK', ClientGrows, ServeGrows, RootAt(t, r)
  PROVE  Inv'
<1>1. StoresOK /\ StoresGrow /\ TypeRun /\ TypeTasks
  BY DEF Inv, Types, StoresGrow
<1>2. HistoryKept
  BY DEF Finish, HistoryKept, historyVars, mapVars
<1>3. pc'[t] = "done" /\ root'[t] = r
  BY <1>1 DEF Finish, TypeTasks
<1> QED
  BY <1>1, <1>2, <1>3, RootKept, FinishKept

LEMMA PresentKept ==
  ASSUME Inv, NEW t \in Threads, NEW repo \in {"client", "checkout"}, SetPresent(t, Wanted(t), repo),
         StoresOK', ClientGrows, ServeGrows, Wanted(t) \in git'[repo][0]
  PROVE  Inv'
<1>1. StoresOK /\ TypeTasks
  BY DEF Inv, Types
<1>2. Finish(t, Outcome("present", Wanted(t), repo)) /\ cast' = cast /\ pc'[t] = "done"
      /\ root'[t] = Outcome("present", Wanted(t), repo)
  BY <1>1 DEF SetPresent, Finish, TypeTasks
<1>3. Wanted(t)' = Wanted(t)
  BY <1>2 DEF Wanted, Kind, Key, Special
<1>4. RootOK(t)'
  BY <1>2, <1>3 DEF RootOK, RootAt, Outcome, InGit
<1>5. Typed(Outcome("present", Wanted(t), repo))
  BY <1>1, RootFacts, ObjectFacts DEF StoresOK, Typed, Outcome, Repositories, Hosts
<1> QED
  BY <1>2, <1>4, <1>5, FinishKept

LEMMA AbsentKept ==
  ASSUME Inv, NEW t \in Threads, SetAbsent(t, Wanted(t)), StoresOK', ClientGrows, ServeGrows,
         WithServe /\ kept /\ (Kind(t) = "foreign file" => near[t] = "serve" /\ Calm) => Has(Wanted(t))
  PROVE  Inv'
<1>1. StoresOK
  BY DEF Inv
<1>2. Finish(t, Outcome("absent", Wanted(t), "none"))
  BY DEF SetAbsent
<1>3. RootAt(t, Outcome("absent", Wanted(t), "none"))
  BY DEF RootAt, Outcome
<1>4. Typed(Outcome("absent", Wanted(t), "none"))
  BY <1>1, RootFacts, ObjectFacts DEF StoresOK, Typed, Outcome
<1> QED
  BY <1>2, <1>3, <1>4, EndKept

LEMMA FailureKept ==
  ASSUME Inv, NEW t \in Threads, Fails(t), StoresOK', ClientGrows, ServeGrows, near[t] = "nowhere" \/ ~Calm' \/ astray
  PROVE  Inv'
<1>1. TypeTasks
  BY DEF Inv, Types
<1>2. Finish(t, Outcome("failed", "none", "none")) /\ pc'[t] = "done" /\ near' = near /\ astray' = astray
      /\ root'[t] = Outcome("failed", "none", "none")
  BY <1>1 DEF Fails, Finish, TypeTasks, historyVars, mapVars
<1>3. RootOK(t)'
  BY <1>2 DEF RootOK, RootAt, Outcome
<1>4. Typed(Outcome("failed", "none", "none"))
  BY DEF Typed, Outcome
<1> QED
  BY <1>2, <1>3, <1>4, FinishKept

-----------------------------------------------------------------------------
(* What the steps of the maps have in common.                              *)
LEMMA TaskFacts ==
  ASSUME Inv, NEW t \in Threads
  PROVE  /\ StoresOK /\ StoresTypeOK /\ CastOK /\ IdsAreBacked /\ CommitsComplete
         /\ TypeTasks /\ TypeRun /\ SourceTreeTypeOK
         /\ IsAbout(t, pc[t], object[t]) /\ IsFor(t, pc[t]) /\ HasAtHand(t, pc[t])
         /\ AskedAt(t, pc[t], object[t], handler[t]) /\ RepliedAt(pc[t], handler[t])
         /\ NotFoundAt(t, pc[t], object[t], handler[t]) /\ AskingAt(t, pc[t], object[t], handler[t])
         /\ SearchAt(t, pc[t], object[t]) /\ Began(t)
BY DEF Inv, StoresOK, Types, ThreadOK, TaskOK, TaskAt, Asked, Replied, NotFound, Asking, Searching

LEMMA SameKept ==
  ASSUME Inv, StoresSame, cast' = cast, begun' = begun
  PROVE  StoresOK' /\ ClientGrows /\ ServeGrows /\ (Calm' <=> Calm)
<1>1. Spent /\ UNCHANGED <<git, ids, cas, remote, distdir>>
  BY DEF StoresSame, storeVars, Spent, Inv, StoresOK, StoresTypeOK
<1> QED
  BY <1>1, NothingStored DEF Inv, Calm, StoresSame, storeVars

(* Trouble is the end of calm.                                             *)
LEMMA TroubleFacts ==
  ASSUME Inv, Trouble, UNCHANGED <<collections, cast, begun>>
  PROVE  Spent /\ ~Calm'
BY DEF Inv, StoresOK, StoresTypeOK, Budgets, Trouble, Spent, Calm

LEMMA NoTroubleFacts ==
  ASSUME Inv, NoTrouble, UNCHANGED <<collections, cast, begun>>
  PROVE  Spent /\ (Calm' <=> Calm)
BY DEF Inv, StoresOK, StoresTypeOK, NoTrouble, Spent, Calm

LEMMA Nowhere ==
  ASSUME Inv, NEW t \in Threads, Fails(t), StoresSame, near[t] = "nowhere" \/ ~Calm \/ astray
  PROVE  Inv'
<1>1. cast' = cast /\ begun' = begun
  BY DEF Fails, Finish, historyVars
<1> QED
  BY <1>1, SameKept, FailureKept

(* A failing step, after an answer that is an error.                       *)
LEMMA ErrorKept ==
  ASSUME Inv, NEW t \in Threads, pc[t] \in Waits, Says(t, "ERROR"), Fails(t), StoresSame
  PROVE  Inv'
<1>1. RepliedAt(pc[t], handler[t])
  BY TaskFacts
<1> QED
  BY <1>1, Nowhere DEF RepliedAt, Says

(* What the endpoint promises is what is wanted.                           *)
LEMMA PromisedFacts ==
  ASSUME Inv, NEW t \in Threads, pc[t] \in Waits \ {"content_served", "dir_served"}
  PROVE  Promised(handler[t]) = Wanted(t)
<1>1. AskedAt(t, pc[t], object[t], handler[t]) /\ CastOK
  BY TaskFacts
<1>2. CASE pc[t] \in {"checked", "tree_checked", "dir_checked", "uploaded"}
  BY <1>1, <1>2 DEF AskedAt, Promised
<1>3. CASE pc[t] \in {"asked", "served", "dir_asked"}
  <2>1. handler[t].key = Key(t) /\ Kind(t) \in {"git", "archive", "distdir", "foreign file"}
    BY <1>1, <1>3 DEF AskedAt
  <2>2. Special(t) => Kind(t) = "archive"
    BY <1>1, <2>1, RootFacts
  <2>3. CASE Kind(t) = "archive"
    <3>1. handler[t].rpc = "archive" /\ handler[t].special = Special(t)
      BY <1>1, <1>3, <2>3 DEF AskedAt
    <3> QED
      BY <2>1, <2>3, <3>1 DEF Promised, Wanted
  <2>4. CASE Kind(t) # "archive"
    <3>1. handler[t].rpc \in {"commit", "distdir"}
      BY <1>1, <1>3, <2>1, <2>4 DEF AskedAt
    <3> QED
      BY <2>1, <2>2, <2>4, <3>1 DEF Promised, Wanted
  <2> QED
    BY <2>3, <2>4
<1> QED
  BY <1>2, <1>3 DEF Waits

LEMMA ToldAbsent ==
  ASSUME Inv, NEW t \in Threads, pc[t] \in Waits \ {"content_served", "dir_served"}, Says(t, "OK"),
         SetAbsent(t, Wanted(t)), StoresSame
  PROVE  Inv'
<1>1. Promised(handler[t]) = Wanted(t)
  BY PromisedFacts
<1>2. RepliedAt(pc[t], handler[t]) /\ AskedAt(t, pc[t], object[t], handler[t])
  BY TaskFacts
<1>3. handler[t].rpc \notin {"content", "tree"}
  BY <1>2 DEF AskedAt, Waits
<1>4. kept => Has(Wanted(t))
  BY <1>1, <1>2, <1>3 DEF RepliedAt, Says
<1>5. cast' = cast /\ begun' = begun
  BY DEF SetAbsent, Finish, historyVars
<1> QED
  BY <1>4, <1>5, SameKept, AbsentKept

(* What is told of a commit, an archive or a distdir is its tree.          *)
LEMMA ToldTree ==
  ASSUME Inv, NEW t \in Threads, pc[t] \in {"served", "asked", "dir_asked"}, Says(t, "OK")
  PROVE  handler[t].tree = Wanted(t)
<1>1. Promised(handler[t]) = Wanted(t)
  BY PromisedFacts DEF Waits
<1>2. RepliedAt(pc[t], handler[t]) /\ AskedAt(t, pc[t], object[t], handler[t])
  BY TaskFacts
<1>3. handler[t].rpc \in {"commit", "distdir", "archive"}
  BY <1>2 DEF AskedAt
<1> QED
  BY <1>1, <1>2, <1>3 DEF RepliedAt, Says, Waits

(* The endpoint is asked for the root after it was not found there.        *)
LEMMA AskAgain ==
  ASSUME Inv, NEW t \in Threads, pc[t] = "checked", Says(t, "NOT_FOUND"),
         NEW rpc, rpc = (IF Kind(t) = "git" THEN "commit" ELSE IF Kind(t) = "archive" THEN "archive" ELSE "distdir"),
         Kind(t) \in {"git", "archive", "distdir", "foreign file"},
         Ask(t, rpc, Key(t), object[t], "asked"), StoresSame
  PROVE  Inv'
<1>1. /\ AskedAt(t, pc[t], object[t], handler[t]) /\ IsFor(t, pc[t]) /\ HasAtHand(t, pc[t])
      /\ NotFoundAt(t, pc[t], object[t], handler[t])
      /\ CastOK /\ TypeTasks
  BY TaskFacts
<1>2. object[t] = Wanted(t) /\ Absent(t) /\ (Kind(t) # "foreign file" => Here(t, Wanted(t)))
  BY <1>1 DEF AskedAt, IsFor, HasAtHand
<1>3. TaskAt(t, "asked", object[t])
  BY <1>1, <1>2 DEF TaskAt, IsAbout, IsFor, HasAtHand
<1>4. SearchAt(t, "asked", object[t])
  BY DEF SearchAt
<1>5. AskedAt(t, "asked", object[t], Call(t, rpc, Key(t)))
  <2>1. Call(t, rpc, Key(t)).rpc = rpc /\ Call(t, rpc, Key(t)).key = Key(t)
    BY DEF Call
  <2>2. Kind(t) = "archive" => Call(t, rpc, Key(t)).special = Special(t)
    BY <1>1, RootFacts DEF Call
  <2> QED
    BY <1>1, <1>2, <2>1, <2>2 DEF AskedAt
<1>6. AskingAt(t, "asked", object[t], Call(t, rpc, Key(t)))
  BY <1>1 DEF AskingAt, NotFoundAt, Call, Says
<1>7. Fits(rpc, Key(t))
  BY <1>1, RootFacts DEF Fits
<1>8. StoresOK' /\ ClientGrows /\ ServeGrows
  BY SameKept DEF Ask, historyVars
<1>9. object[t] \in Objects \cup Distdirs \cup {"none"}
  BY <1>1 DEF TypeTasks
<1> QED
  BY <1>3, <1>4, <1>5, <1>6, <1>7, <1>8, <1>9, AskKept DEF Waits

(* The tree is sent to the endpoint.                                       *)
LEMMA SendTree ==
  ASSUME Inv, NEW t \in Threads, pc[t] \notin {"idle", "done"}, Move(t, "upload", Wanted(t)), StoresSame,
         Absent(t) \/ Kind(t) = "file", Here(t, Wanted(t))
  PROVE  Inv'
<1>1. TaskAt(t, "upload", Wanted(t)) /\ SearchAt(t, "upload", Wanted(t))
  BY DEF TaskAt, IsAbout, IsFor, HasAtHand, SearchAt
<1>2. StoresOK' /\ ClientGrows /\ ServeGrows
  BY SameKept DEF Move, Learn, historyVars
<1>3. Wanted(t) \in Objects /\ hit[t] \in BOOLEAN
  BY TaskFacts, RootFacts, ObjectFacts DEF TypeTasks
<1> QED
  BY <1>1, <1>2, <1>3, MoveKept DEF Move, Labels, Waits

(* A root that is here is present, or the endpoint is to know it.          *)
LEMMA SettleKept ==
  ASSUME Inv, NEW t \in Threads, NEW repo \in {Repo(t), "client"}, Settle(t, Wanted(t), repo), InGit(repo, Wanted(t)),
         pc[t] \notin {"idle", "done"}, Kind(t) \notin {"foreign file", "git tree"},
         StoresOK', ClientGrows, ServeGrows
  PROVE  Inv'
<1>1. CastOK
  BY TaskFacts
<1>2. repo \in {"client", "checkout"}
  BY DEF Repo
<1>3. CASE ~Absent(t)
  BY <1>2, <1>3, PresentKept DEF Settle, InGit, ClientGrows
<1>4. CASE Absent(t) /\ ~WithServe
  BY <1>4, AbsentKept DEF Settle
<1>5. CASE Absent(t) /\ WithServe
  <2>1. Ask(t, "check", Wanted(t), Wanted(t), "checked")
    BY <1>5 DEF Settle
  <2>2. TaskAt(t, "checked", Wanted(t)) /\ SearchAt(t, "checked", Wanted(t))
    BY <1>5 DEF TaskAt, IsAbout, IsFor, HasAtHand, SearchAt, Here
  <2>3. AskedAt(t, "checked", Wanted(t), Call(t, "check", Wanted(t)))
    BY DEF AskedAt, Call
  <2>4. AskingAt(t, "checked", Wanted(t), Call(t, "check", Wanted(t)))
    BY DEF AskingAt, Call
  <2>5. Fits("check", Wanted(t)) /\ Wanted(t) \in Objects
    BY <1>1, RootFacts, ObjectFacts DEF Fits
  <2> QED
    BY <2>1, <2>2, <2>3, <2>4, <2>5, AskKept DEF Waits
<1> QED
  BY <1>3, <1>4, <1>5

-----------------------------------------------------------------------------
(* Commits.                                                                *)
LEMMA GitTask ==
  ASSUME Inv, NEW t \in Threads, Kind(t) = "git"
  PROVE  /\ Key(t) \in Commits /\ Key(t) \in Objects /\ Key(t) \in Described
         /\ Wanted(t) = TreeOf[Key(t)] /\ Plain(t) = TreeOf[Key(t)] /\ TreeOf[Key(t)] \in Trees
         /\ TreeOf[Key(t)] \in WithBelow(Key(t)) /\ Wanted(t) \in Objects /\ Wanted(t) \in Stored
         /\ <<"tree-map", Key(t), Wanted(t)>> \in IdFiles
         /\ Repo(t) \in {"client", "checkout"} /\ hit[t] \in BOOLEAN /\ Absent(t) \in BOOLEAN
         /\ ~Special(t) /\ Kind(t) # "git tree"
<1>1. CastOK /\ TypeTasks
  BY TaskFacts
<1>2. Key(t) \in Commits /\ ~Special(t) /\ TreeOf[Key(t)] \in Below[Key(t)] /\ Absent(t) \in BOOLEAN
  BY <1>1, RootFacts
<1> QED
  BY <1>1, <1>2, ObjectFacts DEF Described, Wanted, Plain, WithBelow, Repo, TypeTasks

(* A commit that is not fetched unless it is nowhere nearer.               *)
LEMMA FetchUnlessAbsentKept ==
  ASSUME Inv, NEW t \in Threads, Kind(t) = "git", pc[t] \notin {"idle", "done"}, FetchUnlessAbsent(t),
         StoresOK', ClientGrows, ServeGrows,
         near[t] # "local", Calm' /\ ~astray => near[t] # "serve"
  PROVE  Inv'
<1>1. StoresOK /\ TypeTasks /\ TypeRun /\ Began(t) /\ StoresGrow
  BY TaskFacts DEF StoresGrow
<1>2. near[t] \in {"local", "serve", "upstream", "nowhere"}
  BY <1>1 DEF TypeRun
<1>3. HistoryKept
  BY DEF FetchUnlessAbsent, Fails, Finish, Move, Learn, HistoryKept, historyVars, mapVars
<1>4. Calm' => Calm
  BY <1>1, <1>3, GrowFacts
<1>5. CASE Absent(t)
  <2>1. near[t] # "upstream"
    BY <1>1, <1>5 DEF Began
  <2> QED
    BY <1>2, <1>5, <2>1, FailureKept DEF FetchUnlessAbsent
<1>6. CASE ~Absent(t)
  <2>1. Learn(t, "fetch", Key(t), hit[t])
    BY <1>6 DEF FetchUnlessAbsent, Move
  <2>2. TaskAt(t, "fetch", Key(t))
    BY <1>6 DEF TaskAt, IsAbout, IsFor, HasAtHand
  <2>3. pc'[t] = "fetch" /\ object'[t] = Key(t) /\ near' = near /\ astray' = astray /\ Upstream' = Upstream
    BY <1>1, <2>1 DEF Learn, TypeTasks, historyVars, mapVars, Upstream
  <2>4. TaskOK(t)'
    BY <1>1, <1>3, <2>2, <2>3, TaskKept
  <2>5. Calm /\ near[t] = "upstream" => Key(t) \in Upstream
    BY <1>1 DEF Began, Reachable
  <2>6. Searching(t)'
    BY <1>2, <1>4, <2>3, <2>5 DEF Searching, SearchAt
  <2>7. "fetch" \in Labels \ (Waits \cup {"idle", "done"})
    BY DEF Labels, Waits
  <2> QED
    BY <2>1, <2>4, <2>6, <2>7, GitTask, LearnKept
<1> QED
  BY <1>5, <1>6

(* A commit that is needed is not known to be local.                       *)
LEMMA NeedCommitFacts ==
  ASSUME Inv, NEW t \in Threads, NeedCommit(t)
  PROVE  /\ Kind(t) = "git" /\ pc[t] = "start" /\ near[t] # "local"
         /\ ~WithServe /\ Calm => near[t] # "serve"
<1>1. Kind(t) = "git" /\ pc[t] = "start" /\ ~InGit(Repo(t), Key(t)) /\ OldWith(Key(t)) = {} /\ ~KnowTree(t)
  BY DEF NeedCommit, Unknown, Starts, HaveCommit
<1>2. Began(t)
  BY TaskFacts
<1> QED
  BY <1>1, <1>2 DEF Began, KnownLocally, KnownToServe

LEMMA CommitKept ==
  ASSUME Inv, NEW t \in Threads, CommitStep(t)
  PROVE  Inv'
<1> DEFINE tree == TreeOf[Key(t)]
<1>1. /\ StoresOK /\ StoresTypeOK /\ CastOK /\ IdsAreBacked /\ CommitsComplete /\ TypeTasks /\ TypeRun
      /\ IsAbout(t, pc[t], object[t]) /\ IsFor(t, pc[t]) /\ HasAtHand(t, pc[t])
      /\ AskedAt(t, pc[t], object[t], handler[t]) /\ RepliedAt(pc[t], handler[t])
      /\ NotFoundAt(t, pc[t], object[t], handler[t]) /\ AskingAt(t, pc[t], object[t], handler[t])
      /\ SearchAt(t, pc[t], object[t]) /\ Began(t)
  BY TaskFacts
<1>2. 0 \in Gens0 /\ "client" \in Hosts /\ Hosts \subseteq Repositories /\ {"client", "checkout"} \subseteq Repositories
  BY ContentAssumption DEF Gens0, Hosts, Repositories
<1>3. ASSUME CommitPresent(t) PROVE Inv'
  <2>1. pc[t] = "start" /\ Kind(t) = "git" /\ InGit(Repo(t), Key(t)) /\ Settle(t, tree, Repo(t)) /\ StoresSame
    BY <1>3 DEF CommitPresent, Starts, HaveCommit
  <2>2. InGit(Repo(t), Wanted(t)) /\ Wanted(t) = tree
    BY <1>1, <1>2, <2>1, GitTask DEF CommitsComplete, InGit, Gens0
  <2>3. StoresOK' /\ ClientGrows /\ ServeGrows
    BY <2>1, SameKept DEF Settle, SetPresent, SetAbsent, Finish, Ask, historyVars
  <2> QED
    BY <2>1, <2>2, <2>3, SettleKept
<1>4. ASSUME CommitTreeKnown(t) PROVE Inv'
  <2>1. pc[t] = "start" /\ Kind(t) = "git" /\ IdFile("client", 0, "tree-map", Key(t)) /\ StoresSame
        /\ Settle(t, IdOf("client", 0, "tree-map", Key(t)), "client")
    BY <1>4 DEF CommitTreeKnown, Starts, KnowTree
  <2>2. IdOf("client", 0, "tree-map", Key(t)) = Wanted(t) /\ <<"tree-map", Key(t), Wanted(t)>> \in ids["client"][0]
    BY <1>1, <1>2, <2>1, GitTask, IdFacts DEF Gens0
  <2>3. InGit("client", Wanted(t))
    BY <1>1, <1>2, <2>2 DEF IdsAreBacked, InGit, Gens0
  <2>4. StoresOK' /\ ClientGrows /\ ServeGrows
    BY <2>1, SameKept DEF Settle, SetPresent, SetAbsent, Finish, Ask, historyVars
  <2> QED
    BY <2>1, <2>2, <2>3, <2>4, SettleKept
<1>5. ASSUME CommitInOlderGeneration(t) PROVE Inv'
  <2>1. pc[t] = "start" /\ Kind(t) = "git" /\ Learn(t, "take", Key(t), hit[t]) /\ StoresSame
    BY <1>5 DEF CommitInOlderGeneration, Unknown, Starts, Move
  <2>2. TaskAt(t, "take", Key(t)) /\ SearchAt(t, "take", Key(t))
    BY <2>1 DEF TaskAt, IsAbout, IsFor, HasAtHand, SearchAt
  <2>3. StoresOK' /\ ClientGrows /\ ServeGrows
    BY <2>1, SameKept DEF Learn, historyVars
  <2> QED
    BY <2>1, <2>2, <2>3, GitTask, MoveKept DEF Labels, Waits
<1>6. ASSUME TakeCommitFromOlderGeneration(t) PROVE Inv'
  <2>1. pc[t] = "take" /\ Kind(t) = "git" /\ ToGit(Repo(t), Key(t)) /\ Learn(t, "tag", tree, hit[t]) /\ OnlyGit
    BY <1>6 DEF TakeCommitFromOlderGeneration, AtFor, Move
  <2>2. Spent
    BY <2>1, NoTroubleFacts DEF OnlyGit, NoTrouble, Learn, historyVars
  <2>3. StoresOK' /\ ClientGrows /\ ServeGrows /\ tree \in git'[Repo(t)][0]
    BY <1>1, <1>2, <2>1, <2>2, GitTask, GitGrows DEF OnlyGit
  <2>4. pc'[t] = "tag" /\ object'[t] = tree /\ cast' = cast
    BY <1>1, <2>1 DEF Learn, TypeTasks
  <2>5. TaskOK(t)' /\ Searching(t)'
    BY <2>1, <2>3, <2>4, GitTask DEF TaskOK, TaskAt, IsAbout, IsFor, HasAtHand, InGit, Searching, SearchAt,
          Kind, Key, Special, Repo, Plain
  <2> QED
    BY <2>1, <2>3, <2>5, GitTask, LearnKept DEF Labels, Waits
<1>7. ASSUME TagCommitAndSetRoot(t) PROVE Inv'
  <2>1. pc[t] = "tag" /\ Kind(t) = "git" /\ SetPresent(t, object[t], Repo(t)) /\ StoresSame
    BY <1>7 DEF TagCommitAndSetRoot, AtFor
  <2>2. object[t] = Wanted(t) /\ InGit(Repo(t), Wanted(t))
    BY <1>1, <2>1, GitTask DEF IsAbout, HasAtHand
  <2>3. StoresOK' /\ ClientGrows /\ ServeGrows
    BY <2>1, SameKept DEF SetPresent, Finish, historyVars
  <2>4. Wanted(t) \in git'[Repo(t)][0]
    BY <2>1, <2>2 DEF StoresSame, storeVars, InGit
  <2> QED
    BY <2>1, <2>2, <2>3, <2>4, GitTask, PresentKept
<1>8. ASSUME AskForCommit(t) PROVE Inv'
  <2>1. NeedCommit(t) /\ Ask(t, "commit", Key(t), "none", "served") /\ StoresSame
    BY <1>8 DEF AskForCommit
  <2>2. Kind(t) = "git" /\ pc[t] = "start" /\ near[t] # "local"
    BY <2>1, NeedCommitFacts
  <2>3. TaskAt(t, "served", "none") /\ SearchAt(t, "served", "none")
    BY <2>2 DEF TaskAt, IsAbout, IsFor, HasAtHand, SearchAt
  <2>4. AskedAt(t, "served", "none", Call(t, "commit", Key(t)))
    BY <2>2 DEF AskedAt, Call
  <2>5. AskingAt(t, "served", "none", Call(t, "commit", Key(t)))
    BY <2>2 DEF AskingAt
  <2>6. Fits("commit", Key(t))
    BY <2>2, GitTask DEF Fits
  <2>7. StoresOK' /\ ClientGrows /\ ServeGrows
    BY <2>1, SameKept DEF Ask, historyVars
  <2> QED
    BY <2>1, <2>2, <2>3, <2>4, <2>5, <2>6, <2>7, AskKept DEF Waits
<1>9. ASSUME CommitWithoutServe(t) PROVE Inv'
  <2>1. NeedCommit(t) /\ ~WithServe /\ FetchUnlessAbsent(t) /\ StoresSame
    BY <1>9 DEF CommitWithoutServe
  <2>2. StoresOK' /\ ClientGrows /\ ServeGrows /\ (Calm' <=> Calm)
    BY <2>1, SameKept DEF FetchUnlessAbsent, Fails, Finish, Move, Learn, historyVars
  <2> QED
    BY <2>1, <2>2, NeedCommitFacts, FetchUnlessAbsentKept
<1>10. ASSUME CommitNotServed(t) PROVE Inv'
  <2>1. pc[t] = "served" /\ Kind(t) = "git" /\ Answered(t) /\ ~Says(t, "OK") /\ StoresSame
    BY <1>10 DEF CommitNotServed, Answer
  <2>2. CASE Says(t, "ERROR")
    BY <1>10, <2>1, <2>2, ErrorKept DEF CommitNotServed, Waits
  <2>3. CASE ~Says(t, "ERROR")
    <3>1. FetchUnlessAbsent(t) /\ handler[t].stage = "NOT_FOUND"
      BY <1>10, <2>1, <2>3 DEF CommitNotServed, Answered, Answers, Says
    <3>2. near[t] # "local" /\ (Calm => near[t] # "serve")
      BY <1>1, <2>1, <3>1 DEF NotFoundAt, SearchAt
    <3>3. StoresOK' /\ ClientGrows /\ ServeGrows /\ (Calm' <=> Calm)
      BY <2>1, <3>1, SameKept DEF FetchUnlessAbsent, Fails, Finish, Move, Learn, historyVars
    <3> QED
      BY <2>1, <3>1, <3>2, <3>3, FetchUnlessAbsentKept
  <2> QED
    BY <2>2, <2>3
<1>11. ASSUME AbsentCommitServed(t) PROVE Inv'
  <2>1. pc[t] = "served" /\ Says(t, "OK") /\ SetAbsent(t, handler[t].tree) /\ StoresSame
    BY <1>11 DEF AbsentCommitServed, Answer
  <2> QED
    BY <2>1, ToldTree, ToldAbsent DEF Waits
<1>12. ASSUME PresentCommitServed(t) PROVE Inv'
  <2>1. pc[t] = "served" /\ Kind(t) = "git" /\ Says(t, "OK") /\ ~Absent(t) /\ StoresSame
    BY <1>12 DEF PresentCommitServed, Answer
  <2>2. handler[t].tree = Wanted(t) /\ Promised(handler[t]) = Wanted(t)
    BY <2>1, ToldTree, PromisedFacts DEF Waits
  <2>3. Calm => Wanted(t) \in remote
    BY <1>1, <2>1, <2>2 DEF RepliedAt, AskedAt, Says, Waits
  <2>4. StoresOK' /\ ClientGrows /\ ServeGrows
    BY <1>12, <2>1, SameKept DEF PresentCommitServed, SetPresent, Finish, Move, Learn, historyVars
  <2>5. CASE InGit("client", Wanted(t))
    <3>1. Learn(t, "write_id", Wanted(t), hit[t])
      BY <1>12, <2>2, <2>5 DEF PresentCommitServed, Move
    <3>2. TaskAt(t, "write_id", Wanted(t)) /\ SearchAt(t, "write_id", Wanted(t))
      BY <2>1, <2>5, GitTask DEF TaskAt, IsAbout, IsFor, HasAtHand, SearchAt
    <3> QED
      BY <2>1, <2>4, <3>1, <3>2, GitTask, MoveKept DEF Labels, Waits
  <2>6. CASE ~InGit("client", Wanted(t)) /\ InGit(Repo(t), Wanted(t))
    <3>1. SetPresent(t, Wanted(t), Repo(t)) /\ Wanted(t) \in git'[Repo(t)][0]
      BY <1>12, <2>2, <2>6 DEF PresentCommitServed, StoresSame, storeVars, InGit
    <3> QED
      BY <2>1, <2>4, <3>1, GitTask, PresentKept
  <2>7. CASE ~InGit("client", Wanted(t)) /\ ~InGit(Repo(t), Wanted(t))
    <3>1. Learn(t, "retrieve", Wanted(t), hit[t])
      BY <1>12, <2>2, <2>7 DEF PresentCommitServed, Move
    <3>2. TaskAt(t, "retrieve", Wanted(t))
      BY <2>1, GitTask DEF TaskAt, IsAbout, IsFor, HasAtHand
    <3>3. SearchAt(t, "retrieve", Wanted(t))
      BY <1>1, <2>1, <2>3 DEF SearchAt
    <3> QED
      BY <2>1, <2>4, <3>1, <3>2, <3>3, GitTask, MoveKept DEF Labels, Waits
  <2> QED
    BY <2>5, <2>6, <2>7
<1>13. ASSUME RetrieveCommitTree(t) PROVE Inv'
  <2>1. pc[t] = "retrieve" /\ Kind(t) = "git" /\ OnlyCas
    BY <1>13 DEF RetrieveCommitTree, AtFor
  <2>2. object[t] = Wanted(t) /\ near[t] # "local" /\ (Calm => Wanted(t) \in remote)
    BY <1>1, <2>1, GitTask DEF IsAbout, SearchAt
  <2>3. CASE ToCas("client", Wanted(t)) /\ Move(t, "import", Wanted(t)) /\ NoTrouble
    <3>1. Spent
      BY <2>1, <2>3, NoTroubleFacts DEF OnlyCas, Move, Learn, historyVars
    <3>2. StoresOK' /\ ClientGrows /\ ServeGrows
      BY <1>1, <1>2, <2>1, <2>3, <3>1, GitTask, WholeObjects, CasGrows DEF ToCas, OnlyCas
    <3>3. TaskAt(t, "import", Wanted(t)) /\ SearchAt(t, "import", Wanted(t))
      BY <2>1, GitTask DEF TaskAt, IsAbout, IsFor, HasAtHand, SearchAt
    <3> QED
      BY <2>1, <2>3, <3>2, <3>3, GitTask, MoveKept DEF Labels, Waits, Move
  <2>4. CASE (IF Wanted(t) \in remote THEN Trouble ELSE NoTrouble) /\ FetchUnlessAbsent(t) /\ UNCHANGED cas
    <3>1. cast' = cast /\ begun' = begun /\ collections' = collections
      BY <2>1, <2>4 DEF FetchUnlessAbsent, Fails, Finish, Move, Learn, historyVars, OnlyCas
    <3>2. Spent /\ ~Calm'
      BY <2>2, <2>4, <3>1, TroubleFacts, NoTroubleFacts
    <3>3. StoresOK' /\ ClientGrows /\ ServeGrows
      BY <1>1, <2>1, <2>4, <3>2, NothingStored DEF OnlyCas
    <3> QED
      BY <2>1, <2>2, <2>4, <3>2, <3>3, FetchUnlessAbsentKept
  <2> QED
    BY <1>13, <2>2, <2>3, <2>4 DEF RetrieveCommitTree
<1>14. ASSUME WriteCommitId(t) PROVE Inv'
  <2>1. pc[t] = "write_id" /\ Kind(t) = "git" /\ OnlyIds
        /\ WriteTreeIDFile("client", "tree-map", Key(t), object[t]) /\ SetPresent(t, object[t], "client")
    BY <1>14 DEF WriteCommitId, AtFor
  <2>2. object[t] = Wanted(t) /\ InGit("client", Wanted(t))
    BY <1>1, <2>1, GitTask DEF IsAbout, HasAtHand
  <2>3. Spent
    BY <2>1, NoTroubleFacts DEF OnlyIds, NoTrouble, SetPresent, Finish, historyVars
  <2>4. StoresOK' /\ ClientGrows /\ ServeGrows
    BY <1>1, <1>2, <2>1, <2>2, <2>3, GitTask, IdsGrow DEF OnlyIds
  <2> QED
    BY <2>1, <2>2, <2>4, PresentKept DEF OnlyIds, InGit
<1>15. ASSUME FetchCommit(t) PROVE Inv'
  <2>1. pc[t] = "fetch" /\ Kind(t) = "git" /\ UNCHANGED <<ids, cas, remote, distdir, collections>>
    BY <1>15 DEF FetchCommit, AtFor
  <2>2. CASE NoTrouble /\ ToGit(Repo(t), Key(t))
             /\ IF Repo(t) = "client" THEN Move(t, "tag", tree) ELSE SetPresent(t, tree, Repo(t))
    <3>1. cast' = cast /\ begun' = begun
      BY <2>2 DEF SetPresent, Finish, Move, Learn, historyVars
    <3>2. StoresOK' /\ ClientGrows /\ ServeGrows /\ tree \in git'[Repo(t)][0]
      BY <1>1, <1>2, <2>1, <2>2, <3>1, GitTask, NoTroubleFacts, GitGrows
    <3>3. CASE Repo(t) = "client"
      <4>1. Learn(t, "tag", tree, hit[t]) /\ pc'[t] = "tag" /\ object'[t] = tree
        BY <1>1, <2>2, <3>3 DEF Move, Learn, TypeTasks
      <4>2. TaskOK(t)' /\ Searching(t)'
        BY <2>1, <3>1, <3>2, <4>1, GitTask DEF TaskOK, TaskAt, IsAbout, IsFor, HasAtHand, InGit, Searching, SearchAt,
              Kind, Key, Special, Repo, Plain
      <4> QED
        BY <2>1, <3>2, <4>1, <4>2, GitTask, LearnKept DEF Labels, Waits
    <3>4. CASE Repo(t) # "client"
      BY <2>1, <2>2, <3>2, <3>4, GitTask, PresentKept
    <3> QED
      BY <3>3, <3>4
  <2>3. CASE (IF Key(t) \in Upstream THEN Trouble ELSE NoTrouble) /\ Fails(t) /\ UNCHANGED git
    <3>1. cast' = cast /\ begun' = begun
      BY <2>3 DEF Fails, Finish, historyVars
    <3>2. StoresOK' /\ ClientGrows /\ ServeGrows
      BY <1>1, <2>1, <2>3, <3>1, TroubleFacts, NoTroubleFacts, NothingStored
    <3>3. Key(t) \in Upstream => ~Calm'
      BY <2>1, <2>3, <3>1, TroubleFacts
    <3>4. Calm' => Calm
      BY <2>1, <2>3, <3>1, TroubleFacts, NoTroubleFacts
    <3>5. Calm /\ ~astray /\ near[t] # "nowhere" => Key(t) \in Upstream
      BY <1>1, <2>1 DEF SearchAt, IsAbout
    <3> QED
      BY <2>3, <3>2, <3>3, <3>4, <3>5, FailureKept
  <2> QED
    BY <1>15, <2>2, <2>3 DEF FetchCommit
<1>16. ASSUME CommitRootChecked(t) PROVE Inv'
  <2>1. pc[t] = "checked" /\ Kind(t) = "git" /\ Answered(t) /\ StoresSame
    BY <1>16 DEF CommitRootChecked, Answer
  <2>2. object[t] = Wanted(t)
    BY <1>1, <2>1 DEF AskedAt
  <2>3. CASE Says(t, "OK")
    BY <1>16, <2>1, <2>2, <2>3, ToldAbsent DEF CommitRootChecked, Says, Waits
  <2>4. CASE Says(t, "ERROR")
    BY <1>16, <2>1, <2>4, ErrorKept DEF CommitRootChecked, Says, Waits
  <2>5. CASE Says(t, "NOT_FOUND")
    <3>1. Ask(t, "commit", Key(t), object[t], "asked")
      BY <1>16, <2>5 DEF CommitRootChecked, Says
    <3> QED
      BY <2>1, <2>5, <3>1, AskAgain
  <2> QED
    BY <2>1, <2>3, <2>4, <2>5 DEF Answered, Answers, Says
<1>17. ASSUME CommitAsked(t) PROVE Inv'
  <2>1. pc[t] = "asked" /\ Kind(t) = "git" /\ Answered(t) /\ StoresSame
    BY <1>17 DEF CommitAsked, Answer
  <2>2. object[t] = Wanted(t) /\ Absent(t) /\ Here(t, Wanted(t))
    BY <1>1, <2>1 DEF AskedAt, IsFor, HasAtHand
  <2>3. CASE Says(t, "OK")
    BY <1>17, <2>1, <2>2, <2>3, ToldTree, ToldAbsent DEF CommitAsked, Says, Waits
  <2>4. CASE Says(t, "ERROR")
    BY <1>17, <2>1, <2>4, ErrorKept DEF CommitAsked, Says, Waits
  <2>5. CASE Says(t, "NOT_FOUND")
    BY <1>17, <2>1, <2>2, <2>5, SendTree DEF CommitAsked, Says
  <2> QED
    BY <2>1, <2>3, <2>4, <2>5 DEF Answered, Answers, Says
<1> QED
  BY <1>3, <1>4, <1>5, <1>6, <1>7, <1>8, <1>9, <1>10, <1>11, <1>12, <1>13, <1>14, <1>15, <1>16, <1>17 DEF CommitStep

-----------------------------------------------------------------------------
(* Contents.                                                               *)
LEMMA AnyTask ==
  ASSUME Inv, NEW t \in Threads
  PROVE  /\ Wanted(t) \in Objects /\ Wanted(t) \in Stored /\ Plain(t) \in Objects /\ Plain(t) \in Stored
         /\ hit[t] \in BOOLEAN /\ Absent(t) \in BOOLEAN /\ Special(t) \in BOOLEAN
         /\ object[t] \in Objects \cup Distdirs \cup {"none"}
         /\ near[t] \in {"local", "serve", "upstream", "nowhere"}
         /\ Kind(t) \in Kinds
<1>1. CastOK /\ TypeTasks /\ TypeRun
  BY TaskFacts
<1> QED
  BY <1>1, RootFacts, ObjectFacts DEF TypeTasks, TypeRun

LEMMA ContentTask ==
  ASSUME Inv, NEW t \in Threads, HasContents(t)
  PROVE  /\ Kind(t) \in {"archive", "distdir", "foreign file"} /\ Kind(t) \notin {"git", "git tree", "file"}
         /\ Contents(t) \subseteq Archives \cup Files /\ Sought(t) = Contents(t)
         /\ \A o \in Contents(t) : o \in Stored /\ o \in Objects /\ Below[o] = {}
         /\ Key(t) \in Objects \cup Distdirs
         /\ Kind(t) = "archive" => Contents(t) = {Key(t)}
         /\ Repo(t) = "client"
<1>1. CastOK
  BY TaskFacts
<1>2. Kind(t) \in {"archive", "distdir", "foreign file"} /\ Contents(t) \subseteq Archives \cup Files
  BY <1>1, RootFacts DEF HasContents
<1>3. \A o \in Archives \cup Files : o \in Stored /\ o \in Objects /\ Below[o] = {}
  BY ObjectFacts, ContentAssumption
<1>4. Key(t) \in Objects \cup Distdirs /\ Repo(t) = "client"
  BY <1>1, <1>2, RootFacts, ObjectFacts
<1> QED
  BY <1>2, <1>3, <1>4 DEF Sought, Contents

LEMMA GetsKept ==
  ASSUME Inv, NEW t \in Threads, NEW o \in Contents(t), Gets(t, o), OnlyCas, NoTrouble, HasContents(t), ~Absent(t),
         near[t] = "local" => AllLocal(t), pc[t] \notin {"idle", "done"}
  PROVE  Inv'
<1>1. cas' = [cas EXCEPT !["client"] = @ \cup {o}] /\ Learn(t, "content", o, hit[t])
  BY DEF Gets, Move
<1>2. Spent
  BY <1>1, NoTroubleFacts DEF OnlyCas, Learn, historyVars
<1>3. o \in Stored /\ o \in Objects /\ Below[o] = {} /\ "client" \in Hosts /\ StoresOK
  BY ContentTask, TaskFacts DEF Hosts
<1>4. StoresOK' /\ ClientGrows /\ ServeGrows
  <2>1. {o} \in SUBSET Stored /\ \A x \in {o} : Below[x] \subseteq {o}
    BY <1>3
  <2>2. UNCHANGED <<git, ids, remote, distdir>>
    BY DEF OnlyCas
  <2> QED
    BY <1>1, <1>2, <1>3, <2>1, <2>2, CasGrows
<1>5. TaskAt(t, "content", o) /\ SearchAt(t, "content", o)
  BY DEF TaskAt, IsAbout, IsFor, HasAtHand, SearchAt
<1> QED
  BY <1>1, <1>3, <1>4, <1>5, AnyTask, MoveKept DEF Labels, Waits

(* What is not local is where the run can get it.                          *)
LEMMA OfferedFacts ==
  ASSUME Inv, NEW t \in Threads, pc[t] \notin {"idle", "done"}, HasContents(t), ~Absent(t),
         NEW o \in Contents(t), ~Locally(o), Calm, near[t] \notin {"nowhere", "local"}
  PROVE  Offered(t, o)
<1>1. Began(t) /\ near[t] \in {"serve", "upstream"}
  BY TaskFacts, AnyTask
<1>2. CASE near[t] = "serve"
  <2>1. KnownToServe(t)
    BY <1>1, <1>2 DEF Began
  <2> QED
    BY <1>2, <2>1, ContentTask DEF KnownToServe, AllFound, Offered
<1>3. CASE near[t] = "upstream"
  <2>1. Reachable(t)
    BY <1>1, <1>3 DEF Began
  <2> QED
    BY <1>3, <2>1, ContentTask DEF Reachable, Offered
<1> QED
  BY <1>1, <1>2, <1>3

(* What was not got from one place is looked for in the next.              *)
LEMMA LookNext ==
  ASSUME Inv, NEW t \in Threads, NEW l \in {"retrieve", "fetch"}, Kind(t) # "git", pc[t] \notin {"idle", "done"},
         Move(t, l, object[t]), StoresOK', ClientGrows, ServeGrows,
         Kind(t) # "file", ~Absent(t), object[t] \in Sought(t), near[t] # "local",
         l = "retrieve" /\ Calm' /\ ~astray /\ near[t] # "nowhere" => InReach(t, object[t]),
         l = "fetch" /\ Calm' /\ ~astray /\ near[t] # "nowhere" => near[t] = "upstream" /\ object[t] \in Upstream
  PROVE  Inv'
<1>1. StoresOK /\ TypeTasks /\ TypeRun /\ StoresGrow
  BY TaskFacts DEF StoresGrow
<1>2. Learn(t, l, object[t], hit[t])
  BY DEF Move
<1>3. HistoryKept
  BY <1>2 DEF Learn, HistoryKept, historyVars, mapVars
<1>4. pc'[t] = l /\ object'[t] = object[t] /\ near' = near /\ astray' = astray /\ Upstream' = Upstream /\ Kind(t)' = Kind(t)
  BY <1>1, <1>2 DEF Learn, TypeTasks, historyVars, mapVars, Upstream, Kind
<1>5. TaskAt(t, l, object[t])
  BY DEF TaskAt, IsAbout, IsFor, HasAtHand
<1>6. TaskOK(t)'
  BY <1>1, <1>3, <1>4, <1>5, TaskKept
<1>7. Calm' => remote \subseteq remote'
  BY <1>1, <1>3, GrowFacts
<1>8. Searching(t)'
  BY <1>4, <1>7 DEF Searching, SearchAt, InReach
<1>9. l \in Labels \ (Waits \cup {"idle", "done"})
  BY DEF Labels, Waits
<1> QED
  BY <1>2, <1>6, <1>8, <1>9, AnyTask, LearnKept

LEMMA NotServed ==
  ASSUME Inv, NEW t \in Threads, pc[t] = "content_served", Answered(t), Move(t, "retrieve", object[t]),
         IF Says(t, "OK") /\ object[t] \in remote THEN Trouble ELSE NoTrouble, UNCHANGED cas, OnlyCas
  PROVE  Inv'
<1>1. /\ IsFor(t, pc[t]) /\ IsAbout(t, pc[t], object[t]) /\ SearchAt(t, pc[t], object[t]) /\ StoresOK
      /\ AskedAt(t, pc[t], object[t], handler[t]) /\ RepliedAt(pc[t], handler[t])
      /\ NotFoundAt(t, pc[t], object[t], handler[t])
  BY TaskFacts
<1>2. Kind(t) \notin {"git", "file"} /\ ~Absent(t) /\ object[t] \in Sought(t) /\ near[t] # "local"
  BY <1>1 DEF IsFor, IsAbout, SearchAt
<1>3. cast' = cast /\ begun' = begun /\ collections' = collections
  BY DEF Move, Learn, historyVars, OnlyCas
<1>4. Spent /\ (Calm' => Calm)
  BY <1>3, TroubleFacts, NoTroubleFacts
<1>5. StoresOK' /\ ClientGrows /\ ServeGrows
  BY <1>1, <1>4, NothingStored DEF OnlyCas
<1>6. ASSUME Calm', ~astray, near[t] # "nowhere" PROVE InReach(t, object[t])
  <2>1. CASE Says(t, "OK")
    <3>1. object[t] \in remote
      BY <1>1, <1>4, <1>6, <2>1 DEF RepliedAt, AskedAt, Promised, Says, Waits
    <3> QED
      BY <3>1 DEF InReach
  <2>2. CASE Says(t, "ERROR")
    BY <1>1, <1>4, <1>6, <2>2 DEF RepliedAt, Says, Waits
  <2>3. CASE Says(t, "NOT_FOUND")
    BY <1>1, <1>4, <1>6, <2>3 DEF NotFoundAt, Says
  <2> QED
    BY <2>1, <2>2, <2>3 DEF Answered, Answers, Says
<1> QED
  BY <1>2, <1>5, <1>6, LookNext

LEMMA NotRetrieved ==
  ASSUME Inv, NEW t \in Threads, pc[t] = "retrieve", Kind(t) # "git", Move(t, "fetch", object[t]),
         IF object[t] \in remote THEN Trouble ELSE NoTrouble, UNCHANGED cas, OnlyCas
  PROVE  Inv'
<1>1. IsFor(t, pc[t]) /\ IsAbout(t, pc[t], object[t]) /\ SearchAt(t, pc[t], object[t]) /\ StoresOK
  BY TaskFacts
<1>2. Kind(t) \notin {"git", "file"} /\ ~Absent(t) /\ object[t] \in Sought(t) /\ near[t] # "local"
  BY <1>1 DEF IsFor, IsAbout, SearchAt
<1>3. cast' = cast /\ begun' = begun /\ collections' = collections
  BY DEF Move, Learn, historyVars, OnlyCas
<1>4. Spent /\ (Calm' => Calm /\ object[t] \notin remote)
  BY <1>3, TroubleFacts, NoTroubleFacts
<1>5. StoresOK' /\ ClientGrows /\ ServeGrows
  BY <1>1, <1>4, NothingStored DEF OnlyCas
<1>6. ASSUME Calm', ~astray, near[t] # "nowhere" PROVE near[t] = "upstream" /\ object[t] \in Upstream
  BY <1>1, <1>4, <1>6 DEF SearchAt, InReach
<1> QED
  BY <1>2, <1>5, <1>6, LookNext

LEMMA NotFetched ==
  ASSUME Inv, NEW t \in Threads, pc[t] = "fetch", Fails(t),
         IF object[t] \in Upstream THEN Trouble ELSE NoTrouble, UNCHANGED <<git, ids, cas, remote, distdir, collections>>
  PROVE  Inv'
<1>1. SearchAt(t, pc[t], object[t]) /\ StoresOK
  BY TaskFacts
<1>2. cast' = cast /\ begun' = begun
  BY DEF Fails, Finish, historyVars
<1>3. Spent /\ (Calm' => Calm /\ object[t] \notin Upstream)
  BY <1>2, TroubleFacts, NoTroubleFacts
<1>4. StoresOK' /\ ClientGrows /\ ServeGrows
  BY <1>1, <1>3, NothingStored
<1>5. near[t] = "nowhere" \/ ~Calm' \/ astray
  BY <1>1, <1>3 DEF SearchAt
<1> QED
  BY <1>4, <1>5, FailureKept

LEMMA ContentKept ==
  ASSUME Inv, NEW t \in Threads, ContentStep(t)
  PROVE  Inv'
<1>1. /\ StoresOK /\ CastOK /\ TypeTasks
      /\ IsAbout(t, pc[t], object[t]) /\ IsFor(t, pc[t]) /\ HasAtHand(t, pc[t])
      /\ AskedAt(t, pc[t], object[t], handler[t]) /\ SearchAt(t, pc[t], object[t]) /\ Began(t)
  BY TaskFacts
<1>2. ASSUME ContentsInCas(t) PROVE Inv'
  <2> DEFINE l == IF Fetching THEN "stored" ELSE IF Kind(t) = "archive" THEN "extract" ELSE "link"
  <2>1. pc[t] = "content" /\ Missing(t) = {} /\ Learn(t, l, Key(t), hit[t]) /\ StoresSame
    BY <1>2 DEF ContentsInCas, Move
  <2>2. HasContents(t) /\ Contents(t) \subseteq cas["client"]
    BY <1>1, <2>1 DEF IsFor, Missing
  <2>3. TaskAt(t, l, Key(t)) /\ SearchAt(t, l, Key(t))
    BY <2>2, ContentTask DEF TaskAt, IsAbout, IsFor, HasAtHand, SearchAt
  <2>4. StoresOK' /\ ClientGrows /\ ServeGrows
    BY <2>1, SameKept DEF Learn, historyVars
  <2>5. l \in Labels \ (Waits \cup {"idle", "done"})
    BY DEF Labels, Waits
  <2> QED
    BY <2>1, <2>2, <2>3, <2>4, <2>5, ContentTask, AnyTask, MoveKept
<1>3. ASSUME ContentServed(t) PROVE Inv'
  <2>1. pc[t] = "content_served" /\ Answered(t) /\ HasContents(t) /\ OnlyCas
    BY <1>3 DEF ContentServed, Answer
  <2>2. object[t] \in Contents(t) /\ ~Absent(t) /\ near[t] # "local"
    BY <1>1, <2>1, ContentTask DEF IsAbout, IsFor, SearchAt
  <2>3. CASE Gets(t, object[t]) /\ NoTrouble
    BY <2>1, <2>2, <2>3, GetsKept
  <2>4. CASE /\ IF Says(t, "OK") /\ object[t] \in remote THEN Trouble ELSE NoTrouble
             /\ Move(t, "retrieve", object[t]) /\ UNCHANGED cas
    BY <2>1, <2>4, NotServed
  <2> QED
    BY <1>3, <2>3, <2>4 DEF ContentServed
<1>4. ASSUME RetrieveContent(t) PROVE Inv'
  <2>1. pc[t] = "retrieve" /\ HasContents(t) /\ OnlyCas
    BY <1>4 DEF RetrieveContent
  <2>2. object[t] \in Contents(t) /\ ~Absent(t) /\ near[t] # "local" /\ Kind(t) # "git"
    BY <1>1, <2>1, ContentTask DEF IsAbout, IsFor, SearchAt
  <2>3. CASE Gets(t, object[t]) /\ NoTrouble
    BY <2>1, <2>2, <2>3, GetsKept
  <2>4. CASE (IF object[t] \in remote THEN Trouble ELSE NoTrouble) /\ Move(t, "fetch", object[t]) /\ UNCHANGED cas
    BY <2>1, <2>2, <2>4, NotRetrieved
  <2> QED
    BY <1>4, <2>3, <2>4 DEF RetrieveContent
<1>5. ASSUME FetchContent(t) PROVE Inv'
  <2>1. pc[t] = "fetch" /\ HasContents(t) /\ OnlyCas
    BY <1>5 DEF FetchContent
  <2>2. object[t] \in Contents(t) /\ ~Absent(t) /\ near[t] # "local"
    BY <1>1, <2>1, ContentTask DEF IsAbout, IsFor, SearchAt
  <2>3. CASE Gets(t, object[t]) /\ NoTrouble
    BY <2>1, <2>2, <2>3, GetsKept
  <2>4. CASE (IF object[t] \in Upstream THEN Trouble ELSE NoTrouble) /\ Fails(t) /\ UNCHANGED cas
    BY <2>1, <2>4, NotFetched DEF OnlyCas
  <2> QED
    BY <1>5, <2>3, <2>4 DEF FetchContent
<1>6. ASSUME NEW o \in Missing(t), BlobFromGit(t, o) \/ AddDistfileToCAS(t, o) PROVE Inv'
  <2>1. pc[t] = "content" /\ Gets(t, o) /\ OnlyCas /\ NoTrouble /\ o \in Contents(t)
    BY <1>6 DEF BlobFromGit, AddDistfileToCAS, Wants, Missing
  <2>2. HasContents(t) /\ ~Absent(t) /\ (near[t] = "local" => AllLocal(t))
    BY <1>1, <2>1 DEF IsFor, SearchAt
  <2> QED
    BY <2>1, <2>2, GetsKept
<1>7. ASSUME NEW o \in Missing(t), AskForContent(t, o) PROVE Inv'
  <2>1. pc[t] = "content" /\ o \in Contents(t) /\ ~Locally(o) /\ StoresSame
    BY <1>7 DEF AskForContent, Wants, Missing
  <2>2. HasContents(t) /\ ~Absent(t) /\ near[t] # "local"
    BY <1>1, <2>1 DEF IsFor, SearchAt, AllLocal
  <2>3. Calm /\ near[t] # "nowhere" => Offered(t, o)
    BY <2>1, <2>2, OfferedFacts
  <2>4. o \in Objects /\ o \in Stored
    BY <2>1, <2>2, ContentTask
  <2>5. CASE WithServe
    <3>1. Ask(t, "content", o, o, "content_served")
      BY <1>7, <2>5 DEF AskForContent
    <3>2. TaskAt(t, "content_served", o) /\ SearchAt(t, "content_served", o)
      BY <2>1, <2>2, ContentTask DEF TaskAt, IsAbout, IsFor, HasAtHand, SearchAt
    <3>3. AskedAt(t, "content_served", o, Call(t, "content", o))
      BY DEF AskedAt, Call
    <3>4. AskingAt(t, "content_served", o, Call(t, "content", o))
      BY <2>3 DEF AskingAt
    <3>5. Fits("content", o)
      BY <2>4 DEF Fits
    <3>6. StoresOK' /\ ClientGrows /\ ServeGrows
      BY <2>1, <3>1, SameKept DEF Ask, historyVars
    <3> QED
      BY <2>1, <2>4, <3>1, <3>2, <3>3, <3>4, <3>5, <3>6, AskKept DEF Waits
  <2>6. CASE ~WithServe
    <3>1. Learn(t, "retrieve", o, hit[t])
      BY <1>7, <2>6 DEF AskForContent, Move
    <3>2. TaskAt(t, "retrieve", o)
      BY <2>1, <2>2, ContentTask DEF TaskAt, IsAbout, IsFor, HasAtHand
    <3>3. SearchAt(t, "retrieve", o)
      BY <2>2, <2>3, <2>6, ContentTask DEF SearchAt, Offered, ServeFinds, InReach
    <3>4. StoresOK' /\ ClientGrows /\ ServeGrows
      BY <2>1, <3>1, SameKept DEF Learn, historyVars
    <3> QED
      BY <2>1, <2>4, <3>1, <3>2, <3>3, <3>4, AnyTask, MoveKept DEF Labels, Waits
  <2> QED
    BY <2>5, <2>6
<1>8. ASSUME FetchArchive(t) PROVE Inv'
  <2>1. pc[t] = "start" /\ Fetching /\ Kind(t) \in {"archive", "foreign file"} /\ ~Absent(t) /\ StoresSame
        /\ Learn(t, "content", Key(t), hit[t])
    BY <1>8 DEF FetchArchive, Move
  <2>2. HasContents(t)
    BY <2>1 DEF HasContents
  <2>3. near[t] = "local" => AllLocal(t)
    BY <1>1, <2>1, <2>2, ContentTask DEF Began, KnownLocally, AllLocal
  <2>4. TaskAt(t, "content", Key(t)) /\ SearchAt(t, "content", Key(t))
    BY <2>1, <2>2, <2>3 DEF TaskAt, IsAbout, IsFor, HasAtHand, SearchAt
  <2>5. StoresOK' /\ ClientGrows /\ ServeGrows
    BY <2>1, SameKept DEF Learn, historyVars
  <2> QED
    BY <2>1, <2>2, <2>4, <2>5, ContentTask, AnyTask, MoveKept DEF Labels, Waits
<1>9. ASSUME BackUpContent(t) PROVE Inv'
  <2>1. pc[t] = "stored" /\ HasContents(t) /\ Learn(t, "copy", object[t], hit[t]) /\ OnlyRemote
        /\ (remote' = remote \cup Contents(t) \/ remote' = remote) /\ (NoTrouble \/ Trouble)
    BY <1>9 DEF BackUpContent, Move
  <2>2. Contents(t) \subseteq cas["client"] /\ Contents(t) \in SUBSET Stored
    BY <1>1, <2>1, ContentTask DEF HasAtHand
  <2>3. Spent
    BY <2>1, TroubleFacts, NoTroubleFacts DEF OnlyRemote, Learn, historyVars
  <2>4. StoresOK' /\ ClientGrows /\ ServeGrows
    BY <1>1, <2>1, <2>2, <2>3, RemoteGrows, NothingStored DEF OnlyRemote
  <2>5. TaskAt(t, "copy", object[t]) /\ SearchAt(t, "copy", object[t])
    BY <2>1, <2>2 DEF TaskAt, IsAbout, IsFor, HasAtHand, SearchAt
  <2> QED
    BY <2>1, <2>4, <2>5, AnyTask, MoveKept DEF Labels, Waits
<1>10. ASSUME CopyToFetchDir(t) PROVE Inv'
  <2>1. pc[t] = "copy" /\ UNCHANGED <<git, ids, cas, remote, collections>>
    BY <1>10 DEF CopyToFetchDir
  <2>2. HasContents(t) /\ Contents(t) \subseteq cas["client"] /\ Contents(t) \in SUBSET (Archives \cup Files)
    BY <1>1, <2>1, ContentTask DEF IsFor, HasAtHand
  <2>3. CASE distdir' = distdir \cup Contents(t) /\ NoTrouble /\ Finish(t, Outcome("fetched", object[t], "none"))
    <3>1. cast' = cast /\ begun' = begun /\ pc'[t] = "done" /\ root'[t] = Outcome("fetched", object[t], "none")
      BY <1>1, <2>3 DEF Finish, historyVars, TypeTasks
    <3>2. StoresOK' /\ ClientGrows /\ ServeGrows
      BY <1>1, <2>1, <2>2, <2>3, <3>1, NoTroubleFacts, DistdirGrows
    <3>3. Contents(t)' = Contents(t)
      BY <3>1 DEF Contents, Kind, Key, HasContents
    <3>4. RootOK(t)'
      BY <2>1, <2>2, <2>3, <3>1, <3>3 DEF RootOK, RootAt, Outcome
    <3>5. Typed(Outcome("fetched", object[t], "none"))
      BY AnyTask DEF Typed, Outcome
    <3> QED
      BY <2>3, <3>2, <3>4, <3>5, FinishKept
  <2>4. CASE Trouble /\ Fails(t) /\ UNCHANGED distdir
    <3>1. Spent /\ ~Calm'
      BY <2>1, <2>4, TroubleFacts DEF Fails, Finish, historyVars
    <3>2. StoresOK' /\ ClientGrows /\ ServeGrows
      BY <1>1, <2>1, <2>4, <3>1, NothingStored
    <3> QED
      BY <2>4, <3>1, <3>2, FailureKept
  <2> QED
    BY <1>10, <2>3, <2>4 DEF CopyToFetchDir
<1> QED
  BY <1>2, <1>3, <1>4, <1>5, <1>6, <1>7, <1>8, <1>9, <1>10 DEF ContentStep

-----------------------------------------------------------------------------
(* Archives.                                                               *)
LEMMA ArchiveTask ==
  ASSUME Inv, NEW t \in Threads, Kind(t) = "archive"
  PROVE  /\ HasContents(t) /\ Contents(t) = {Key(t)} /\ Key(t) \in Archives /\ Key(t) \in Stored /\ Key(t) \in Objects
         /\ Repo(t) = "client" /\ Plain(t) = TreeOf[Key(t)] /\ Plain(t) \in Objects /\ Wanted(t) \in Objects
         /\ Wanted(t) = IF Special(t) THEN Resolved[Plain(t)] ELSE Plain(t)
         /\ <<"tree-map", Key(t), Plain(t)>> \in IdFiles
         /\ <<"special-tree-map", Plain(t), Resolved[Plain(t)]>> \in IdFiles
         /\ Resolved[Plain(t)] \in Objects
<1>1. CastOK
  BY TaskFacts
<1>2. HasContents(t) /\ Plain(t) = TreeOf[Key(t)]
  BY DEF HasContents, Plain
<1>3. Key(t) \in Archives /\ Repo(t) = "client" /\ Wanted(t) = IF Special(t) THEN Resolved[Plain(t)] ELSE Plain(t)
  BY <1>1, RootFacts
<1>4. Key(t) \in Described /\ Plain(t) \in Linked
  BY <1>2, <1>3, ObjectFacts DEF Described
<1>5. /\ <<"tree-map", Key(t), Plain(t)>> \in IdFiles /\ Key(t) \in Stored /\ Key(t) \in Objects
      /\ <<"special-tree-map", Plain(t), Resolved[Plain(t)]>> \in IdFiles /\ Resolved[Plain(t)] \in Objects
  BY <1>2, <1>3, <1>4, ObjectFacts
<1> QED
  BY <1>2, <1>3, <1>5, AnyTask, ContentTask

(* The tree of an id file is in the repository of the id file.             *)
LEMMA KnownTree ==
  ASSUME Inv, NEW h \in Hosts, NEW x
  PROVE  /\ IdFile(h, 0, "tree-map", x) => IdOf(h, 0, "tree-map", x) = TreeOf[x] /\ InGit(h, TreeOf[x])
         /\ IdFile(h, 0, "special-tree-map", x) =>
              IdOf(h, 0, "special-tree-map", x) = Resolved[x] /\ InGit(h, Resolved[x])
<1>0. 0 \in 0 .. Generations - 1
  BY ContentAssumption
<1>1. StoresTypeOK /\ IdsAreBacked /\ 0 \in 0 .. Generations - 1
  BY <1>0 DEF Inv, StoresOK
<1>2. CASE IdFile(h, 0, "tree-map", x)
  <2>1. IdOf(h, 0, "tree-map", x) = TreeOf[x] /\ <<"tree-map", x, TreeOf[x]>> \in ids[h][0]
    BY <1>1, <1>2, IdFacts
  <2> QED
    BY <1>1, <1>2, <2>1, IdFacts DEF IdsAreBacked, InGit
<1>3. CASE IdFile(h, 0, "special-tree-map", x)
  <2>1. IdOf(h, 0, "special-tree-map", x) = Resolved[x] /\ <<"special-tree-map", x, Resolved[x]>> \in ids[h][0]
    BY <1>1, <1>3, IdFacts
  <2> QED
    BY <1>1, <1>3, <2>1, IdFacts DEF IdsAreBacked, InGit
<1> QED
  BY <1>2, <1>3, <1>1, IdFacts DEF IdsAreBacked, InGit

(* Some generation is the youngest.                                        *)
LEMMA YoungestIsOne ==
  ASSUME NEW G \in SUBSET Nat, G # {}
  PROVE  Youngest(G) \in G
<1> DEFINE R == OpToRel(<, Nat)
<1>1. IsWellFoundedOn(R, Nat)
  BY NatLessThanWellFounded
<1>2. \A a, b \in Nat : <<a, b>> \in R <=> a < b
  BY DEF OpToRel
<1> HIDE DEF R
<1>3. PICK m \in G : \A k \in G : ~(<<k, m>> \in R)
  BY <1>1, WFMin
<1>4. \A k \in G : m <= k
  <2> TAKE k \in G
  <2>1. k \in Nat /\ m \in Nat /\ ~(k < m)
    BY <1>2, <1>3
  <2> QED
    BY <2>1
<1> QED
  BY <1>4 DEF Youngest

(* An archive that is not known is not near unless it is there itself.     *)
LEMMA NoIdFacts ==
  ASSUME Inv, NEW t \in Threads, NoId(t)
  PROVE  /\ pc[t] = "start" /\ Kind(t) = "archive"
         /\ near[t] = "local" => IF Absent(t) THEN LocalSource(t) ELSE AllLocal(t)
         /\ Calm /\ Absent(t) /\ ~WithServe => near[t] # "serve"
<1>1. pc[t] = "start" /\ Kind(t) = "archive" /\ ~YoungId(t) /\ OldIds(t) = {} /\ ~Fetching
  BY DEF NoId, Starts
<1>2. ~OldId(t)
  BY <1>1, ContentAssumption DEF OldId, OldIds, OldKnowing, YoungId, Old
<1>3. Began(t) /\ Absent(t) \in BOOLEAN
  BY TaskFacts, AnyTask
<1>4. near[t] = "local" => IF Absent(t) THEN LocalSource(t) ELSE Locally(Key(t))
  BY <1>1, <1>2, <1>3 DEF Began, KnownLocally, LocalSource
<1>5. Locally(Key(t)) => AllLocal(t)
  BY <1>1, ArchiveTask DEF AllLocal
<1>6. Calm /\ Absent(t) /\ ~WithServe => near[t] # "serve"
  BY <1>1, <1>3 DEF Began, KnownToServe
<1> QED
  BY <1>1, <1>4, <1>5, <1>6

(* A step from one place to another that touches no store.                 *)
LEMMA PlainMove ==
  ASSUME Inv, NEW t \in Threads, NEW l \in Labels \ (Waits \cup {"idle", "done"}),
         NEW x \in Objects \cup Distdirs \cup {"none"}, Move(t, l, x), StoresSame,
         pc[t] \notin {"idle", "done"}, TaskAt(t, l, x), SearchAt(t, l, x)
  PROVE  Inv'
<1>1. Learn(t, l, x, hit[t])
  BY DEF Move
<1>2. StoresOK' /\ ClientGrows /\ ServeGrows
  BY <1>1, SameKept DEF Learn, historyVars
<1> QED
  BY <1>1, <1>2, AnyTask, MoveKept

(* An object comes into the Git cache, with what the task is about.        *)
LEMMA ImportMove ==
  ASSUME Inv, NEW t \in Threads, NEW l \in Labels \ (Waits \cup {"idle", "done"}),
         NEW o \in Objects, ToGit("client", o), Move(t, l, o), OnlyGit,
         pc[t] \notin {"idle", "done"}, IsAbout(t, l, o), IsFor(t, l),
         l \in {"moved", "imported", "tag", "keep"}, l = "tag" => Repo(t) = "client",
         o = IF l = "keep" THEN Wanted(t) ELSE Plain(t)
  PROVE  Inv'
<1>1. Learn(t, l, o, hit[t]) /\ cast' = cast /\ begun' = begun /\ runs' = runs
  BY DEF Move, Learn, historyVars
<1>2. "client" \in Repositories /\ StoresOK /\ TypeTasks
  BY TaskFacts DEF Repositories, Hosts
<1>3. Spent
  BY <1>1, NoTroubleFacts DEF OnlyGit, NoTrouble
<1>4. StoresOK' /\ ClientGrows /\ ServeGrows /\ o \in git'["client"][0]
  BY <1>2, <1>3, GitGrows, ObjectFacts DEF OnlyGit
<1>5. pc'[t] = l /\ object'[t] = o
  BY <1>1, <1>2 DEF Learn, TypeTasks
<1>6. /\ Kind(t)' = Kind(t) /\ Key(t)' = Key(t) /\ Special(t)' = Special(t) /\ Absent(t)' = Absent(t)
      /\ Fetching' = Fetching /\ Repo(t)' = Repo(t) /\ Plain(t)' = Plain(t) /\ Wanted(t)' = Wanted(t)
      /\ Contents(t)' = Contents(t) /\ Sought(t)' = Sought(t) /\ HasContents(t)' = HasContents(t)
  <2>1. HistoryKept
    BY <1>1 DEF Learn, HistoryKept, historyVars, mapVars
  <2> QED
    BY <2>1, CastSame
<1>7. IsAbout(t, pc[t], object[t])'
  BY <1>5, <1>6 DEF IsAbout
<1>8. IsFor(t, pc[t])'
  BY <1>5, <1>6 DEF IsFor
<1>9. HasAtHand(t, pc[t])'
  BY <1>4, <1>5, <1>6 DEF HasAtHand, InGit
<1>10. Searching(t)'
  BY <1>5 DEF Searching, SearchAt
<1> QED
  BY <1>1, <1>4, <1>7, <1>8, <1>9, <1>10, AnyTask, LearnKept DEF TaskOK, TaskAt

LEMMA ArchiveKept ==
  ASSUME Inv, NEW t \in Threads, ArchiveStep(t)
  PROVE  Inv'
<1>1. /\ StoresOK /\ StoresTypeOK /\ CastOK /\ IdsAreBacked /\ TypeTasks
      /\ IsAbout(t, pc[t], object[t]) /\ IsFor(t, pc[t]) /\ HasAtHand(t, pc[t])
      /\ AskedAt(t, pc[t], object[t], handler[t]) /\ NotFoundAt(t, pc[t], object[t], handler[t])
      /\ SearchAt(t, pc[t], object[t]) /\ Began(t)
  BY TaskFacts
<1>2. "client" \in Hosts
  BY DEF Hosts
<1>3. ASSUME ArchiveKnown(t) PROVE Inv'
  <2>1. pc[t] = "start" /\ Kind(t) = "archive" /\ YoungId(t) /\ Move(t, "known", Key(t)) /\ StoresSame
    BY <1>3 DEF ArchiveKnown, Starts
  <2>2. TaskAt(t, "known", Key(t)) /\ SearchAt(t, "known", Key(t))
    BY <2>1 DEF TaskAt, IsAbout, IsFor, HasAtHand, SearchAt
  <2> QED
    BY <2>1, <2>2, ArchiveTask, PlainMove DEF Labels, Waits
<1>4. ASSUME HandleLocallyKnownTree(t) PROVE Inv'
  <2>1. pc[t] = "known" /\ Kind(t) = "archive" /\ StoresSame
        /\ Learn(t, "resolve", IdOf("client", 0, "tree-map", Key(t)), TRUE)
    BY <1>4 DEF HandleLocallyKnownTree, AtFor
  <2>2. IdOf("client", 0, "tree-map", Key(t)) = Plain(t) /\ InGit("client", Plain(t))
    BY <1>1, <1>2, <2>1, ArchiveTask, KnownTree DEF HasAtHand, YoungId
  <2>3. TaskAt(t, "resolve", Plain(t)) /\ SearchAt(t, "resolve", Plain(t))
    BY <2>1, <2>2, ArchiveTask DEF TaskAt, IsAbout, IsFor, HasAtHand, SearchAt
  <2>4. StoresOK' /\ ClientGrows /\ ServeGrows
    BY <2>1, SameKept DEF Learn, historyVars
  <2> QED
    BY <2>1, <2>2, <2>3, <2>4, AnyTask, MoveKept DEF Labels, Waits
<1>5. ASSUME HandleKnownInOlderGeneration(t) PROVE Inv'
  <2> DEFINE g == Youngest(OldIds(t))
             tree == IdOf("client", g, "tree-map", Key(t))
  <2>1. pc[t] = "start" /\ Kind(t) = "archive" /\ StoresSame /\ OldIds(t) # {}
        /\ IF tree \in git["client"][g] THEN Move(t, "taken", tree) ELSE Fails(t)
    BY <1>5 DEF HandleKnownInOlderGeneration, Starts
  <2>2. g \in OldIds(t)
    <3>1. OldIds(t) \in SUBSET Nat
      BY ContentAssumption DEF OldIds, OldKnowing, Old
    <3> QED
      BY <2>1, <3>1, YoungestIsOne
  <2>3. g \in 0 .. Generations - 1 /\ IdFile("client", g, "tree-map", Key(t))
    BY <2>2, ContentAssumption DEF OldIds, OldKnowing, Old
  <2> HIDE DEF g
  <2>4. tree = Plain(t) /\ tree \in git["client"][g]
    <3>1. tree = TreeOf[Key(t)] /\ <<"tree-map", Key(t), TreeOf[Key(t)]>> \in ids["client"][g]
      BY <1>1, <1>2, <2>3, IdFacts
    <3> QED
      BY <1>1, <1>2, <2>1, <2>3, <3>1, ArchiveTask DEF IdsAreBacked
  <2>5. Move(t, "taken", Plain(t))
    BY <2>1, <2>4
  <2>6. TaskAt(t, "taken", Plain(t)) /\ SearchAt(t, "taken", Plain(t))
    BY <2>1 DEF TaskAt, IsAbout, IsFor, HasAtHand, SearchAt
  <2> QED
    BY <2>1, <2>5, <2>6, AnyTask, PlainMove DEF Labels, Waits
<1>6. ASSUME HandleKnownAfterTagging(t) PROVE Inv'
  <2>1. pc[t] = "taken" /\ Kind(t) = "archive" /\ ToGit("client", object[t]) /\ Move(t, "moved", object[t]) /\ OnlyGit
    BY <1>6 DEF HandleKnownAfterTagging, AtFor
  <2>2. object[t] = Plain(t)
    BY <1>1, <2>1 DEF IsAbout
  <2>3. IsAbout(t, "moved", Plain(t)) /\ IsFor(t, "moved")
    BY <2>1 DEF IsAbout, IsFor
  <2> QED
    BY <2>1, <2>2, <2>3, AnyTask, ImportMove DEF Labels, Waits
<1>7. ASSUME HandleKnownAfterImport(t) PROVE Inv'
  <2>1. pc[t] = "moved" /\ Kind(t) = "archive" /\ OnlyIds /\ WriteTreeIDFile("client", "tree-map", Key(t), object[t])
        /\ Learn(t, "known", Key(t), hit[t])
    BY <1>7 DEF HandleKnownAfterImport, AtFor, Move
  <2>2. object[t] = Plain(t) /\ InGit("client", Plain(t))
    BY <1>1, <2>1 DEF IsAbout, HasAtHand
  <2>3. Spent
    BY <2>1, NoTroubleFacts DEF OnlyIds, NoTrouble, Learn, historyVars
  <2>4. StoresOK' /\ ClientGrows /\ ServeGrows /\ <<"tree-map", Key(t), Plain(t)>> \in ids'["client"][0]
    BY <1>1, <1>2, <2>1, <2>2, <2>3, ArchiveTask, IdsGrow DEF OnlyIds
  <2>5. pc'[t] = "known" /\ cast' = cast
    BY <1>1, <2>1 DEF Learn, TypeTasks
  <2>6. YoungId(t)' /\ Kind(t)' = "archive"
    BY <2>1, <2>4, <2>5 DEF YoungId, IdFile, Kind, Key
  <2>7. TaskOK(t)' /\ Searching(t)'
    BY <2>5, <2>6 DEF TaskOK, TaskAt, IsAbout, IsFor, HasAtHand, Searching, SearchAt
  <2> QED
    BY <2>1, <2>4, <2>7, ArchiveTask, AnyTask, LearnKept DEF Labels, Waits
<1>8. ASSUME AskForArchive(t) PROVE Inv'
  <2>1. NoId(t) /\ Absent(t) /\ StoresSame
    BY <1>8 DEF AskForArchive
  <2>2. pc[t] = "start" /\ Kind(t) = "archive" /\ (near[t] = "local" => LocalSource(t))
        /\ (Calm /\ ~WithServe => near[t] # "serve")
    BY <2>1, NoIdFacts
  <2>3. CASE WithServe
    <3>1. Ask(t, "archive", Key(t), "none", "served")
      BY <1>8, <2>3 DEF AskForArchive
    <3>2. TaskAt(t, "served", "none")
      BY DEF TaskAt, IsAbout, IsFor, HasAtHand
    <3>3. SearchAt(t, "served", "none")
      BY <2>1, <2>2 DEF SearchAt
    <3>4. AskedAt(t, "served", "none", Call(t, "archive", Key(t)))
      BY <2>2, AnyTask DEF AskedAt, Call
    <3>5. AskingAt(t, "served", "none", Call(t, "archive", Key(t)))
      BY DEF AskingAt, Call
    <3>6. Fits("archive", Key(t))
      BY <2>2, ArchiveTask DEF Fits
    <3>7. StoresOK' /\ ClientGrows /\ ServeGrows
      BY <2>1, <3>1, SameKept DEF Ask, historyVars
    <3> QED
      BY <2>2, <3>1, <3>2, <3>3, <3>4, <3>5, <3>6, <3>7, AskKept DEF Waits
  <2>4. CASE ~WithServe
    <3>1. Move(t, "local", Key(t))
      BY <1>8, <2>4 DEF AskForArchive
    <3>2. TaskAt(t, "local", Key(t))
      BY <2>1, <2>2 DEF TaskAt, IsAbout, IsFor, HasAtHand
    <3>3. SearchAt(t, "local", Key(t))
      BY <2>1, <2>2, <2>4 DEF SearchAt
    <3> QED
      BY <2>1, <2>2, <3>1, <3>2, <3>3, ArchiveTask, PlainMove DEF Labels, Waits
  <2> QED
    BY <2>3, <2>4
<1>9. ASSUME ArchiveServed(t) PROVE Inv'
  <2>1. pc[t] = "served" /\ Kind(t) = "archive" /\ Answered(t) /\ StoresSame
    BY <1>9 DEF ArchiveServed, Answer
  <2>2. CASE Says(t, "OK")
    <3>1. SetAbsent(t, handler[t].tree)
      BY <1>9, <2>2 DEF ArchiveServed, Says
    <3>2. handler[t].tree = Wanted(t)
      BY <2>1, <2>2, ToldTree
    <3>3. SetAbsent(t, Wanted(t))
      BY <3>1, <3>2
    <3> QED
      BY <2>1, <2>2, <3>3, ToldAbsent DEF Waits
  <2>3. CASE Says(t, "ERROR")
    BY <1>9, <2>1, <2>3, ErrorKept DEF ArchiveServed, Says, Waits
  <2>4. CASE Says(t, "NOT_FOUND")
    <3>1. Move(t, "local", Key(t))
      BY <1>9, <2>4 DEF ArchiveServed, Says
    <3>2. Absent(t) /\ (near[t] = "local" => LocalSource(t)) /\ (Calm => near[t] # "serve")
      BY <1>1, <2>1, <2>4 DEF SearchAt, NotFoundAt, Says
    <3>3. TaskAt(t, "local", Key(t))
      BY <2>1, <3>2 DEF TaskAt, IsAbout, IsFor, HasAtHand
    <3>4. SearchAt(t, "local", Key(t))
      BY <2>1, <3>2 DEF SearchAt
    <3> QED
      BY <2>1, <3>1, <3>3, <3>4, ArchiveTask, PlainMove DEF Labels, Waits
  <2> QED
    BY <2>1, <2>2, <2>3, <2>4 DEF Answered, Answers, Says
<1>10. ASSUME LocalContent(t) PROVE Inv'
  <2>1. pc[t] = "local" /\ Kind(t) = "archive" /\ StoresSame
    BY <1>10 DEF LocalContent, AtFor
  <2>2. Absent(t) /\ (near[t] = "local" => LocalSource(t)) /\ (Calm => near[t] # "serve")
    BY <1>1, <2>1 DEF SearchAt
  <2>3. CASE Key(t) \in cas["client"]
    <3>1. Move(t, "extract", Key(t))
      BY <1>10, <2>3 DEF LocalContent
    <3>2. TaskAt(t, "extract", Key(t)) /\ SearchAt(t, "extract", Key(t))
      BY <2>1, ArchiveTask DEF TaskAt, IsAbout, IsFor, HasAtHand, SearchAt
    <3> QED
      BY <2>1, <3>1, <3>2, ArchiveTask, PlainMove DEF Labels, Waits
  <2>4. CASE Key(t) \notin cas["client"]
    <3>1. Move(t, "blob", Key(t))
      BY <1>10, <2>4 DEF LocalContent
    <3>2. TaskAt(t, "blob", Key(t))
      BY <2>1, <2>2 DEF TaskAt, IsAbout, IsFor, HasAtHand
    <3>3. SearchAt(t, "blob", Key(t))
      BY <2>2, <2>4 DEF SearchAt, LocalSource
    <3> QED
      BY <2>1, <3>1, <3>2, <3>3, ArchiveTask, PlainMove DEF Labels, Waits
  <2> QED
    BY <2>3, <2>4
<1>11. ASSUME LocalBlob(t) PROVE Inv'
  <2>1. pc[t] = "blob" /\ OnlyCas /\ NoTrouble
    BY <1>11 DEF LocalBlob
  <2>2. Kind(t) = "archive" /\ Absent(t) /\ (Calm => near[t] # "serve")
        /\ (near[t] = "local" => Key(t) \in distdir \/ InGit("client", Key(t)))
    BY <1>1, <2>1 DEF SearchAt, IsFor
  <2>3. CASE ToCas("client", Key(t)) /\ Move(t, "extract", Key(t))
    <3>1. Learn(t, "extract", Key(t), hit[t])
      BY <2>3 DEF Move
    <3>2. Spent
      BY <2>1, <3>1, NoTroubleFacts DEF OnlyCas, Learn, historyVars
    <3>3. StoresOK' /\ ClientGrows /\ ServeGrows
      BY <1>1, <1>2, <2>1, <2>2, <2>3, <3>2, ArchiveTask, WholeObjects, CasGrows DEF ToCas, OnlyCas
    <3>4. TaskAt(t, "extract", Key(t)) /\ SearchAt(t, "extract", Key(t))
      BY <2>2, ArchiveTask DEF TaskAt, IsAbout, IsFor, HasAtHand, SearchAt
    <3> QED
      BY <2>1, <2>2, <3>1, <3>3, <3>4, ArchiveTask, AnyTask, MoveKept DEF Labels, Waits
  <2>4. CASE Fails(t) /\ UNCHANGED cas /\ ~(InGit("client", Key(t)) \/ Key(t) \in distdir)
    <3>1. StoresSame
      BY <2>1, <2>4 DEF OnlyCas, NoTrouble, StoresSame, storeVars
    <3>2. near[t] # "upstream"
      BY <1>1, <2>1, <2>2 DEF Began
    <3>3. near[t] = "nowhere" \/ ~Calm
      BY <2>2, <2>4, <3>2, AnyTask
    <3> QED
      BY <2>4, <3>1, <3>3, Nowhere
  <2> QED
    BY <1>11, <2>3, <2>4 DEF LocalBlob
<1>12. ASSUME PresentArchive(t) PROVE Inv'
  <2>1. NoId(t) /\ ~Absent(t) /\ Move(t, "content", Key(t)) /\ StoresSame
    BY <1>12 DEF PresentArchive
  <2>2. pc[t] = "start" /\ Kind(t) = "archive" /\ (near[t] = "local" => AllLocal(t))
    BY <2>1, NoIdFacts
  <2>3. TaskAt(t, "content", Key(t)) /\ SearchAt(t, "content", Key(t))
    BY <2>1, <2>2, ArchiveTask DEF TaskAt, IsAbout, IsFor, HasAtHand, SearchAt
  <2> QED
    BY <2>1, <2>2, <2>3, ArchiveTask, PlainMove DEF Labels, Waits
<1>13. ASSUME ExtractArchive(t) PROVE Inv'
  <2>1. pc[t] = "extract" /\ Kind(t) = "archive" /\ Move(t, "import", TreeOf[Key(t)]) /\ StoresSame
    BY <1>1, <1>13 DEF ExtractArchive, IsFor
  <2>2. TreeOf[Key(t)] = Plain(t)
    BY <2>1, ArchiveTask
  <2>3. TaskAt(t, "import", Plain(t)) /\ SearchAt(t, "import", Plain(t))
    BY <2>1 DEF TaskAt, IsAbout, IsFor, HasAtHand, SearchAt
  <2> QED
    BY <2>1, <2>2, <2>3, AnyTask, PlainMove DEF Labels, Waits
<1>14. ASSUME WriteArchiveTreeId(t) PROVE Inv'
  <2>1. pc[t] = "write_id" /\ Kind(t) = "archive" /\ OnlyIds
        /\ WriteTreeIDFile("client", "tree-map", Key(t), object[t]) /\ Learn(t, "resolve", object[t], FALSE)
    BY <1>14 DEF WriteArchiveTreeId, AtFor
  <2>2. object[t] = Plain(t) /\ InGit("client", Plain(t))
    BY <1>1, <2>1 DEF IsAbout, HasAtHand
  <2>3. Spent
    BY <2>1, NoTroubleFacts DEF OnlyIds, NoTrouble, Learn, historyVars
  <2>4. StoresOK' /\ ClientGrows /\ ServeGrows
    BY <1>1, <1>2, <2>1, <2>2, <2>3, ArchiveTask, IdsGrow DEF OnlyIds
  <2>5. TaskAt(t, "resolve", Plain(t)) /\ SearchAt(t, "resolve", Plain(t))
    BY <2>1, <2>2, ArchiveTask DEF TaskAt, IsAbout, IsFor, HasAtHand, SearchAt
  <2> QED
    BY <2>1, <2>2, <2>4, <2>5, AnyTask, MoveKept DEF Labels, Waits
<1>15. ASSUME ContentTreeAsIs(t) PROVE Inv'
  <2>1. pc[t] = "resolve" /\ Kind(t) = "archive" /\ ~Special(t) /\ Settle(t, object[t], "client") /\ StoresSame
    BY <1>15 DEF ContentTreeAsIs, AtFor
  <2>2. object[t] = Wanted(t) /\ InGit("client", Wanted(t))
    BY <1>1, <2>1, ArchiveTask DEF IsAbout, HasAtHand
  <2>3. StoresOK' /\ ClientGrows /\ ServeGrows
    BY <2>1, SameKept DEF Settle, SetPresent, SetAbsent, Finish, Ask, historyVars
  <2> QED
    BY <2>1, <2>2, <2>3, SettleKept
<1>16. ASSUME ContentTreeResolved(t) PROVE Inv'
  <2>1. pc[t] = "resolve" /\ Kind(t) = "archive" /\ Special(t) /\ StoresSame
        /\ IdFile("client", 0, "special-tree-map", object[t])
        /\ Settle(t, IdOf("client", 0, "special-tree-map", object[t]), "client")
    BY <1>16 DEF ContentTreeResolved, AtFor, ResolvedId
  <2>2. object[t] = Plain(t)
    BY <1>1, <2>1 DEF IsAbout
  <2>3. IdOf("client", 0, "special-tree-map", object[t]) = Wanted(t) /\ InGit("client", Wanted(t))
    BY <1>2, <2>1, <2>2, ArchiveTask, KnownTree
  <2>4. StoresOK' /\ ClientGrows /\ ServeGrows
    BY <2>1, SameKept DEF Settle, SetPresent, SetAbsent, Finish, Ask, historyVars
  <2> QED
    BY <2>1, <2>3, <2>4, SettleKept
<1>17. ASSUME ResolveArchiveTree(t) PROVE Inv'
  <2>1. pc[t] = "resolve" /\ Kind(t) = "archive" /\ Special(t) /\ OnlyGit
        /\ ToGit("client", Resolved[object[t]]) /\ Move(t, "keep", Resolved[object[t]])
    BY <1>17 DEF ResolveArchiveTree, AtFor
  <2>2. Resolved[object[t]] = Wanted(t)
    BY <1>1, <2>1, ArchiveTask DEF IsAbout
  <2>3. IsAbout(t, "keep", Wanted(t)) /\ IsFor(t, "keep")
    BY <2>1 DEF IsAbout, IsFor
  <2> QED
    BY <2>1, <2>2, <2>3, AnyTask, ImportMove DEF Labels, Waits
<1>18. ASSUME KeepResolved(t) PROVE Inv'
  <2>1. pc[t] = "keep" /\ Kind(t) = "archive" /\ OnlyIds /\ Settle(t, object[t], "client")
        /\ WriteTreeIDFile("client", "special-tree-map", TreeOf[Key(t)], object[t])
    BY <1>18 DEF KeepResolved, AtFor
  <2>2. object[t] = Wanted(t) /\ InGit("client", Wanted(t)) /\ Special(t)
    BY <1>1, <2>1 DEF IsAbout, IsFor, HasAtHand
  <2>3. Wanted(t) = Resolved[Plain(t)] /\ TreeOf[Key(t)] = Plain(t)
    BY <2>1, <2>2, ArchiveTask
  <2>4. cast' = cast /\ begun' = begun
    BY <2>1 DEF Settle, SetPresent, SetAbsent, Finish, Ask, historyVars
  <2>5. Spent
    BY <2>1, <2>4, NoTroubleFacts DEF OnlyIds, NoTrouble
  <2>6. StoresOK' /\ ClientGrows /\ ServeGrows
    BY <1>1, <1>2, <2>1, <2>2, <2>3, <2>5, ArchiveTask, IdsGrow DEF OnlyIds
  <2> QED
    BY <2>1, <2>2, <2>6, SettleKept
<1>19. ASSUME ArchiveRootChecked(t) PROVE Inv'
  <2>1. pc[t] = "checked" /\ Kind(t) = "archive" /\ Answered(t) /\ StoresSame
    BY <1>19 DEF ArchiveRootChecked, Answer
  <2>2. object[t] = Wanted(t) /\ Absent(t) /\ Here(t, Wanted(t))
    BY <1>1, <2>1 DEF AskedAt, IsFor, HasAtHand
  <2>3. CASE Says(t, "OK")
    BY <1>19, <2>1, <2>2, <2>3, ToldAbsent DEF ArchiveRootChecked, Says, Waits
  <2>4. CASE Says(t, "ERROR")
    BY <1>19, <2>1, <2>4, ErrorKept DEF ArchiveRootChecked, Says, Waits
  <2>5. CASE Says(t, "NOT_FOUND")
    <3>1. IF hit[t] THEN Ask(t, "archive", Key(t), object[t], "asked") ELSE Move(t, "upload", object[t])
      BY <1>19, <2>5 DEF ArchiveRootChecked, Says
    <3>2. CASE hit[t]
      BY <2>1, <2>5, <3>1, <3>2, AskAgain
    <3>3. CASE ~hit[t]
      BY <2>1, <2>2, <3>1, <3>3, SendTree
    <3> QED
      BY <3>2, <3>3
  <2> QED
    BY <2>1, <2>3, <2>4, <2>5 DEF Answered, Answers, Says
<1>20. ASSUME ArchiveAsked(t) PROVE Inv'
  <2>1. pc[t] = "asked" /\ Kind(t) = "archive" /\ Answered(t) /\ StoresSame
    BY <1>20 DEF ArchiveAsked, Answer
  <2>2. object[t] = Wanted(t) /\ Absent(t) /\ Here(t, Wanted(t))
    BY <1>1, <2>1 DEF AskedAt, IsFor, HasAtHand
  <2>3. CASE Says(t, "OK")
    BY <1>20, <2>1, <2>2, <2>3, ToldTree, ToldAbsent DEF ArchiveAsked, Says, Waits
  <2>4. CASE Says(t, "ERROR")
    BY <1>20, <2>1, <2>4, ErrorKept DEF ArchiveAsked, Says, Waits
  <2>5. CASE Says(t, "NOT_FOUND")
    BY <1>20, <2>1, <2>2, <2>5, SendTree DEF ArchiveAsked, Says
  <2> QED
    BY <2>1, <2>3, <2>4, <2>5 DEF Answered, Answers, Says
<1> QED
  BY <1>3, <1>4, <1>5, <1>6, <1>7, <1>8, <1>9, <1>10, <1>11, <1>12, <1>13, <1>14, <1>15, <1>16, <1>17, <1>18, <1>19, <1>20
     DEF ArchiveStep

-----------------------------------------------------------------------------
(* Distdirs and foreign files.                                             *)
LEMMA DistdirTask ==
  ASSUME Inv, NEW t \in Threads, Kind(t) \in {"distdir", "foreign file"}
  PROVE  /\ HasContents(t) /\ Contents(t) = Below[Dir(t)] /\ Key(t) \in Distdirs /\ FileTree(t) = Dir(t)
         /\ Repo(t) = "client" /\ Plain(t) = Dir(t) /\ Wanted(t) = Dir(t) /\ Dir(t) \in Objects /\ Dir(t) \in Stored
         /\ <<"tree-map", Key(t), Dir(t)>> \in IdFiles /\ ~Special(t)
<1>1. CastOK
  BY TaskFacts
<1>2. Key(t) \in Distdirs /\ ~Special(t) /\ Repo(t) = "client"
  BY <1>1, RootFacts
<1>3. Plain(t) = Dir(t) /\ Wanted(t) = Dir(t) /\ HasContents(t) /\ FileTree(t) = Dir(t)
  BY <1>2 DEF Plain, Wanted, Dir, HasContents, FileTree
<1>4. Contents(t) = Below[Dir(t)]
  BY DEF Contents, Dir
<1>5. <<"tree-map", Key(t), Dir(t)>> \in IdFiles
  BY <1>2, ObjectFacts DEF Described, Dir
<1> QED
  BY <1>2, <1>3, <1>4, <1>5, AnyTask

(* A step that asks the endpoint and touches no store.                     *)
LEMMA PlainAsk ==
  ASSUME Inv, NEW t \in Threads, NEW l \in Waits, NEW x \in Objects \cup Distdirs \cup {"none"},
         NEW rpc, NEW key, Ask(t, rpc, key, x, l), StoresSame, Fits(rpc, key), rpc = "get" => key \in remote,
         pc[t] \notin {"idle", "done"}, TaskAt(t, l, x), SearchAt(t, l, x),
         AskedAt(t, l, x, Call(t, rpc, key)), AskingAt(t, l, x, Call(t, rpc, key))
  PROVE  Inv'
<1>1. StoresOK' /\ ClientGrows /\ ServeGrows
  BY SameKept DEF Ask, historyVars
<1>2. rpc = "get" => key \in remote'
  BY DEF StoresSame, storeVars
<1> QED
  BY <1>1, <1>2, AskKept

(* A root that is absent although nobody was asked, without the endpoint.  *)
LEMMA PlainAbsent ==
  ASSUME Inv, NEW t \in Threads, SetAbsent(t, Wanted(t)), StoresSame,
         WithServe /\ kept /\ (Kind(t) = "foreign file" => near[t] = "serve" /\ Calm) => Has(Wanted(t))
  PROVE  Inv'
<1>1. StoresOK' /\ ClientGrows /\ ServeGrows
  BY SameKept DEF SetAbsent, Finish, historyVars
<1> QED
  BY <1>1, AbsentKept

(* The id file of a root is written, and the root is present.              *)
LEMMA WriteIdAndSet ==
  ASSUME Inv, NEW t \in Threads, Kind(t) # "git tree", WriteTreeIDFile("client", "tree-map", Key(t), Wanted(t)),
         <<"tree-map", Key(t), Wanted(t)>> \in IdFiles, InGit("client", Wanted(t)),
         SetPresent(t, Wanted(t), "client"), UNCHANGED <<git, cas, remote, distdir, collections>>, NoTrouble
  PROVE  Inv'
<1>1. Spent
  BY NoTroubleFacts DEF SetPresent, Finish, historyVars
<1>2. StoresOK /\ "client" \in Hosts
  BY TaskFacts DEF Hosts
<1>3. StoresOK' /\ ClientGrows /\ ServeGrows
  BY <1>1, <1>2, IdsGrow
<1>4. Wanted(t) \in git'["client"][0]
  BY DEF InGit
<1> QED
  BY <1>3, <1>4, PresentKept

(* Files are taken from the CAS and imported, unless some are missing.     *)
LEMMA LinkKept ==
  ASSUME Inv, NEW t \in Threads, pc[t] = "link", Kind(t) \in {"distdir", "foreign file"},
         IF Missing(t) = {} THEN Move(t, "import", Dir(t)) ELSE Fails(t), StoresSame,
         Contents(t) \subseteq cas["client"]
  PROVE  Inv'
<1>1. Move(t, "import", Dir(t))
  BY DEF Missing
<1>2. TaskAt(t, "import", Dir(t)) /\ SearchAt(t, "import", Dir(t))
  BY DistdirTask DEF TaskAt, IsAbout, IsFor, HasAtHand, SearchAt
<1> QED
  BY <1>1, <1>2, DistdirTask, PlainMove DEF Labels, Waits

LEMMA DistdirKept ==
  ASSUME Inv, NEW t \in Threads, DistdirStep(t)
  PROVE  Inv'
<1>1. /\ StoresOK /\ StoresTypeOK /\ CastOK /\ IdsAreBacked /\ TypeTasks
      /\ IsAbout(t, pc[t], object[t]) /\ IsFor(t, pc[t]) /\ HasAtHand(t, pc[t])
      /\ AskedAt(t, pc[t], object[t], handler[t]) /\ NotFoundAt(t, pc[t], object[t], handler[t])
      /\ RepliedAt(pc[t], handler[t]) /\ SearchAt(t, pc[t], object[t]) /\ Began(t)
  BY TaskFacts
<1>2. "client" \in Hosts
  BY DEF Hosts
<1>3. ASSUME DistdirKnown(t) PROVE Inv'
  <2>1. pc[t] = "start" /\ Kind(t) = "distdir" /\ IdFile("client", 0, "tree-map", Key(t)) /\ StoresSame
        /\ Learn(t, "known", IdOf("client", 0, "tree-map", Key(t)), TRUE)
    BY <1>3 DEF DistdirKnown, Starts, DirId
  <2>2. IdOf("client", 0, "tree-map", Key(t)) = Plain(t) /\ InGit("client", Plain(t))
    BY <1>2, <2>1, DistdirTask, KnownTree DEF Dir
  <2>3. TaskAt(t, "known", Plain(t)) /\ SearchAt(t, "known", Plain(t))
    BY <2>1, <2>2 DEF TaskAt, IsAbout, IsFor, HasAtHand, SearchAt
  <2>4. StoresOK' /\ ClientGrows /\ ServeGrows
    BY <2>1, SameKept DEF Learn, historyVars
  <2> QED
    BY <2>1, <2>2, <2>3, <2>4, AnyTask, MoveKept DEF Labels, Waits
<1>4. ASSUME KnownDistdir(t) PROVE Inv'
  <2>1. pc[t] = "known" /\ Kind(t) = "distdir" /\ Settle(t, object[t], "client") /\ StoresSame
    BY <1>4 DEF KnownDistdir, AtFor
  <2>2. object[t] = Wanted(t) /\ InGit("client", Wanted(t))
    BY <1>1, <2>1, DistdirTask DEF IsAbout, HasAtHand
  <2>3. StoresOK' /\ ClientGrows /\ ServeGrows
    BY <2>1, SameKept DEF Settle, SetPresent, SetAbsent, Finish, Ask, historyVars
  <2> QED
    BY <2>1, <2>2, <2>3, SettleKept
<1>5. ASSUME DistdirRootChecked(t) PROVE Inv'
  <2>1. pc[t] = "checked" /\ Kind(t) = "distdir" /\ Answered(t) /\ StoresSame
    BY <1>5 DEF DistdirRootChecked, Answer
  <2>2. object[t] = Wanted(t)
    BY <1>1, <2>1 DEF AskedAt
  <2>3. CASE Says(t, "OK")
    BY <1>5, <2>1, <2>2, <2>3, ToldAbsent DEF DistdirRootChecked, Says, Waits
  <2>4. CASE Says(t, "ERROR")
    BY <1>5, <2>1, <2>4, ErrorKept DEF DistdirRootChecked, Says, Waits
  <2>5. CASE Says(t, "NOT_FOUND")
    <3>1. Ask(t, "distdir", Key(t), object[t], "asked")
      BY <1>5, <2>5 DEF DistdirRootChecked, Says
    <3> QED
      BY <2>1, <2>5, <3>1, AskAgain
  <2> QED
    BY <2>1, <2>3, <2>4, <2>5 DEF Answered, Answers, Says
<1>6. ASSUME DistdirRootAsked(t) PROVE Inv'
  <2>1. pc[t] = "asked" /\ Kind(t) = "distdir" /\ Answered(t) /\ StoresSame
    BY <1>6 DEF DistdirRootAsked, Answer
  <2>2. object[t] = Wanted(t) /\ Absent(t) /\ Here(t, Wanted(t))
    BY <1>1, <2>1 DEF AskedAt, IsFor, HasAtHand
  <2>3. CASE Says(t, "OK")
    BY <1>6, <2>1, <2>2, <2>3, ToldTree, ToldAbsent DEF DistdirRootAsked, Says, Waits
  <2>4. CASE Says(t, "ERROR")
    BY <1>6, <2>1, <2>4, ErrorKept DEF DistdirRootAsked, Says, Waits
  <2>5. CASE Says(t, "NOT_FOUND")
    BY <1>6, <2>1, <2>2, <2>5, SendTree DEF DistdirRootAsked, Says
  <2> QED
    BY <2>1, <2>3, <2>4, <2>5 DEF Answered, Answers, Says
<1>7. ASSUME AbsentDistdir(t) PROVE Inv'
  <2>1. pc[t] = "start" /\ Kind(t) = "distdir" /\ ~DirId(t) /\ Absent(t) /\ StoresSame /\ ~Fetching
    BY <1>7 DEF AbsentDistdir, NoDirId, Starts
  <2>2. CASE WithServe
    <3>1. Ask(t, "check", Dir(t), Dir(t), "dir_checked")
      BY <1>7, <2>2 DEF AbsentDistdir
    <3>2. near[t] = "local" => Dir(t) \in cas["client"]
      BY <1>1, <2>1, <2>2 DEF Began, KnownLocally
    <3>3. TaskAt(t, "dir_checked", Dir(t)) /\ SearchAt(t, "dir_checked", Dir(t))
      BY <2>1, <3>2 DEF TaskAt, IsAbout, IsFor, HasAtHand, SearchAt
    <3>4. AskedAt(t, "dir_checked", Dir(t), Call(t, "check", Dir(t)))
      BY <2>1, DistdirTask DEF AskedAt, Call
    <3>5. AskingAt(t, "dir_checked", Dir(t), Call(t, "check", Dir(t)))
      BY DEF AskingAt
    <3>6. Fits("check", Dir(t))
      BY <2>1, DistdirTask DEF Fits
    <3> QED
      BY <2>1, <3>1, <3>3, <3>4, <3>5, <3>6, DistdirTask, PlainAsk DEF Waits
  <2>3. CASE ~WithServe
    BY <1>7, <2>1, <2>3, DistdirTask, PlainAbsent DEF AbsentDistdir
  <2> QED
    BY <2>2, <2>3
<1>8. ASSUME DistdirChecked(t) PROVE Inv'
  <2>1. pc[t] = "dir_checked" /\ Answered(t) /\ StoresSame
    BY <1>8 DEF DistdirChecked, Answer
  <2>2. Kind(t) = "distdir" /\ Absent(t) /\ (near[t] = "local" => Dir(t) \in cas["client"])
    BY <1>1, <2>1 DEF AskedAt, IsFor, SearchAt
  <2>3. CASE Says(t, "OK")
    <3>1. SetAbsent(t, Wanted(t))
      BY <1>8, <2>2, <2>3, DistdirTask DEF DistdirChecked, Says
    <3> QED
      BY <2>1, <2>3, <3>1, ToldAbsent DEF Waits
  <2>4. CASE Says(t, "ERROR")
    BY <1>8, <2>1, <2>4, ErrorKept DEF DistdirChecked, Says, Waits
  <2>5. CASE Says(t, "NOT_FOUND")
    <3>1. Ask(t, "distdir", Key(t), Dir(t), "dir_asked")
      BY <1>8, <2>5 DEF DistdirChecked, Says
    <3>2. TaskAt(t, "dir_asked", Dir(t)) /\ SearchAt(t, "dir_asked", Dir(t))
      BY <2>2 DEF TaskAt, IsAbout, IsFor, HasAtHand, SearchAt
    <3>3. AskedAt(t, "dir_asked", Dir(t), Call(t, "distdir", Key(t)))
      BY <2>2, DistdirTask DEF AskedAt, Call
    <3>4. AskingAt(t, "dir_asked", Dir(t), Call(t, "distdir", Key(t)))
      BY <1>1, <2>1, <2>5 DEF AskingAt, NotFoundAt, Says
    <3>5. Fits("distdir", Key(t))
      BY <2>2, DistdirTask DEF Fits
    <3> QED
      BY <2>1, <2>2, <3>1, <3>2, <3>3, <3>4, <3>5, DistdirTask, PlainAsk DEF Waits
  <2> QED
    BY <2>1, <2>3, <2>4, <2>5 DEF Answered, Answers, Says
<1>9. ASSUME DistdirMade(t) PROVE Inv'
  <2>1. pc[t] = "dir_asked" /\ Answered(t) /\ StoresSame /\ ~Says(t, "NOT_FOUND")
    BY <1>9 DEF DistdirMade, Answer
  <2>2. Kind(t) = "distdir"
    BY <1>1, <2>1 DEF AskedAt
  <2>3. CASE Says(t, "OK")
    <3>1. handler[t].tree = Wanted(t) /\ Wanted(t) = Dir(t)
      BY <2>1, <2>2, <2>3, ToldTree, DistdirTask
    <3>2. SetAbsent(t, Wanted(t))
      BY <1>9, <2>3, <3>1 DEF DistdirMade, Says
    <3> QED
      BY <2>1, <2>3, <3>2, ToldAbsent DEF Waits
  <2>4. CASE Says(t, "ERROR")
    BY <1>9, <2>1, <2>4, ErrorKept DEF DistdirMade, Says, Waits
  <2> QED
    BY <2>1, <2>3, <2>4 DEF Answered, Answers, Says
<1>10. ASSUME SupplyDistdir(t) PROVE Inv'
  <2>1. pc[t] = "dir_asked" /\ Says(t, "NOT_FOUND") /\ OnlyRemote
    BY <1>10 DEF SupplyDistdir, Answer
  <2>2. Kind(t) = "distdir" /\ Absent(t) /\ (near[t] = "local" => Dir(t) \in cas["client"])
    BY <1>1, <2>1 DEF AskedAt, IsFor, SearchAt
  <2>3. TaskAt(t, "uploaded", Dir(t)) /\ SearchAt(t, "uploaded", Dir(t))
    BY <2>2 DEF TaskAt, IsAbout, IsFor, HasAtHand, SearchAt
  <2>4. AskedAt(t, "uploaded", Dir(t), Call(t, "get", Dir(t)))
    BY <2>2, DistdirTask DEF AskedAt, Call
  <2>5. AskingAt(t, "uploaded", Dir(t), Call(t, "get", Dir(t))) /\ Fits("get", Dir(t))
    BY <2>2, DistdirTask DEF AskingAt, Fits
  <2>6. CASE Dir(t) \in remote /\ Ask(t, "get", Dir(t), Dir(t), "uploaded") /\ UNCHANGED <<remote, trouble>>
    <3>1. StoresSame
      BY <2>1, <2>6 DEF OnlyRemote, StoresSame, storeVars
    <3> QED
      BY <2>1, <2>2, <2>3, <2>4, <2>5, <2>6, <3>1, DistdirTask, PlainAsk DEF Waits
  <2>7. CASE NoTrouble /\ ToRemote(Dir(t)) /\ Ask(t, "get", Dir(t), Dir(t), "uploaded")
    <3>1. Spent
      BY <2>1, <2>7, NoTroubleFacts DEF OnlyRemote, Ask, historyVars
    <3>2. StoresOK' /\ ClientGrows /\ ServeGrows
      BY <1>1, <2>1, <2>2, <2>7, <3>1, DistdirTask, WholeObjects, RemoteGrows DEF ToRemote, OnlyRemote
    <3>3. Dir(t) \in remote'
      BY <2>7 DEF ToRemote, WithBelow
    <3> QED
      BY <2>1, <2>2, <2>3, <2>4, <2>5, <2>7, <3>2, <3>3, DistdirTask, AskKept DEF Waits
  <2>8. CASE /\ Dir(t) \notin remote /\ Fails(t) /\ UNCHANGED remote
             /\ IF Dir(t) \in cas["client"] THEN Trouble ELSE NoTrouble
    <3>1. UNCHANGED <<collections, cast, begun, git, ids, cas, remote, distdir>>
      BY <2>1, <2>8 DEF OnlyRemote, Fails, Finish, historyVars
    <3>2. Spent /\ (Calm' => Calm /\ Dir(t) \notin cas["client"])
      BY <2>8, <3>1, TroubleFacts, NoTroubleFacts
    <3>3. StoresOK' /\ ClientGrows /\ ServeGrows
      BY <1>1, <3>1, <3>2, NothingStored
    <3>4. near[t] # "upstream"
      BY <1>1, <2>1, <2>2 DEF Began
    <3>5. Calm => near[t] # "serve"
      BY <1>1, <2>1, <2>8 DEF NotFoundAt, Says
    <3> QED
      BY <2>2, <2>8, <3>2, <3>3, <3>4, <3>5, AnyTask, FailureKept
  <2> QED
    BY <1>10, <2>6, <2>7, <2>8 DEF SupplyDistdir
<1>11. ASSUME PresentDistdir(t) PROVE Inv'
  <2>1. pc[t] = "start" /\ Kind(t) = "distdir" /\ ~DirId(t) /\ ~Absent(t) /\ StoresSame
    BY <1>11 DEF PresentDistdir, NoDirId, Starts
  <2>2. CASE Dir(t) \in cas["client"]
    <3>1. Move(t, "link", Dir(t))
      BY <1>11, <2>2 DEF PresentDistdir
    <3>2. Contents(t) \subseteq cas["client"]
      BY <1>1, <2>1, <2>2, DistdirTask DEF StoresOK, CasClosed
    <3>3. TaskAt(t, "link", Dir(t)) /\ SearchAt(t, "link", Dir(t))
      BY <2>1, <3>2, DistdirTask DEF TaskAt, IsAbout, IsFor, HasAtHand, SearchAt
    <3> QED
      BY <2>1, <3>1, <3>3, DistdirTask, PlainMove DEF Labels, Waits
  <2>3. CASE Dir(t) \notin cas["client"]
    <3>1. near[t] = "local" => AllLocal(t)
      BY <1>1, <2>1, <2>3 DEF Began, KnownLocally
    <3>2. CASE WithServe
      <4>1. Ask(t, "distdir", Key(t), Dir(t), "dir_served")
        BY <1>11, <2>3, <3>2 DEF PresentDistdir
      <4>2. TaskAt(t, "dir_served", Dir(t)) /\ SearchAt(t, "dir_served", Dir(t))
        BY <2>1, <3>1 DEF TaskAt, IsAbout, IsFor, HasAtHand, SearchAt
      <4>3. AskedAt(t, "dir_served", Dir(t), Call(t, "distdir", Key(t)))
        BY <2>1 DEF AskedAt, Call
      <4>4. AskingAt(t, "dir_served", Dir(t), Call(t, "distdir", Key(t))) /\ Fits("distdir", Key(t))
        BY <2>1, DistdirTask DEF AskingAt, Fits
      <4> QED
        BY <2>1, <4>1, <4>2, <4>3, <4>4, DistdirTask, PlainAsk DEF Waits
    <3>3. CASE ~WithServe
      <4>1. Move(t, "content", Dir(t))
        BY <1>11, <2>3, <3>3 DEF PresentDistdir
      <4>2. TaskAt(t, "content", Dir(t)) /\ SearchAt(t, "content", Dir(t))
        BY <2>1, <3>1, DistdirTask DEF TaskAt, IsAbout, IsFor, HasAtHand, SearchAt
      <4> QED
        BY <2>1, <4>1, <4>2, DistdirTask, PlainMove DEF Labels, Waits
    <3> QED
      BY <3>2, <3>3
  <2> QED
    BY <2>2, <2>3
<1>12. ASSUME DistdirServed(t) PROVE Inv'
  <2>1. pc[t] = "dir_served" /\ StoresSame
    BY <1>12 DEF DistdirServed, Answer
  <2>2. Kind(t) = "distdir" /\ ~Absent(t) /\ (near[t] = "local" => AllLocal(t))
    BY <1>1, <2>1 DEF AskedAt, SearchAt
  <2>3. handler[t].rpc = "distdir" /\ handler[t].key = Key(t)
    BY <1>1, <2>1, <2>2 DEF AskedAt
  <2>4. Says(t, "OK") => handler[t].tree = Dir(t)
    BY <1>1, <2>1, <2>3 DEF RepliedAt, Promised, Says, Waits, Dir
  <2>5. CASE Says(t, "ERROR")
    BY <1>12, <2>1, <2>5, ErrorKept DEF DistdirServed, Waits
  <2>6. CASE ~Says(t, "ERROR")
    <3>1. Move(t, "content", Dir(t))
      BY <1>12, <2>4, <2>6 DEF DistdirServed
    <3>2. TaskAt(t, "content", Dir(t)) /\ SearchAt(t, "content", Dir(t))
      BY <2>2, DistdirTask DEF TaskAt, IsAbout, IsFor, HasAtHand, SearchAt
    <3> QED
      BY <2>1, <2>2, <3>1, <3>2, DistdirTask, PlainMove DEF Labels, Waits
  <2> QED
    BY <2>5, <2>6
<1>13. ASSUME LinkToCAS(t) PROVE Inv'
  <2>1. pc[t] = "link" /\ Kind(t) = "distdir" /\ StoresSame
        /\ IF Missing(t) = {} THEN Move(t, "import", Dir(t)) ELSE Fails(t)
    BY <1>13 DEF LinkToCAS, AtFor
  <2>2. Contents(t) \subseteq cas["client"]
    BY <1>1, <2>1 DEF HasAtHand
  <2> QED
    BY <2>1, <2>2, LinkKept
<1>14. ASSUME WriteDistdirTreeId(t) PROVE Inv'
  <2>1. pc[t] = "write_id" /\ Kind(t) = "distdir" /\ OnlyIds
        /\ WriteTreeIDFile("client", "tree-map", Key(t), object[t]) /\ SetPresent(t, object[t], "client")
    BY <1>14 DEF WriteDistdirTreeId, AtFor
  <2>2. object[t] = Wanted(t) /\ InGit("client", Wanted(t)) /\ <<"tree-map", Key(t), Wanted(t)>> \in IdFiles
    BY <1>1, <2>1, DistdirTask DEF IsAbout, HasAtHand
  <2> QED
    BY <2>1, <2>2, WriteIdAndSet DEF OnlyIds, NoTrouble
<1> QED
  BY <1>3, <1>4, <1>5, <1>6, <1>7, <1>8, <1>9, <1>10, <1>11, <1>12, <1>13, <1>14 DEF DistdirStep

LEMMA ForeignFileKept ==
  ASSUME Inv, NEW t \in Threads, ForeignFileStep(t)
  PROVE  Inv'
<1>1. /\ StoresOK /\ StoresTypeOK /\ CastOK /\ IdsAreBacked /\ TypeTasks
      /\ IsAbout(t, pc[t], object[t]) /\ IsFor(t, pc[t]) /\ HasAtHand(t, pc[t])
      /\ AskedAt(t, pc[t], object[t], handler[t]) /\ NotFoundAt(t, pc[t], object[t], handler[t])
      /\ SearchAt(t, pc[t], object[t]) /\ Began(t)
  BY TaskFacts
<1>2. "client" \in Hosts
  BY DEF Hosts
<1>3. ASSUME AbsentForeignFile(t) PROVE Inv'
  <2>1. pc[t] = "start" /\ Kind(t) = "foreign file" /\ Absent(t) /\ StoresSame
    BY <1>3 DEF AbsentForeignFile, Starts
  <2>2. FileTree(t) = Wanted(t) /\ FileTree(t) \in Objects /\ FileTree(t) \in Stored
    BY <2>1, DistdirTask
  <2>3. CASE WithServe
    <3>1. Ask(t, "check", FileTree(t), FileTree(t), "checked")
      BY <1>3, <2>3 DEF AbsentForeignFile
    <3>2. TaskAt(t, "checked", FileTree(t)) /\ SearchAt(t, "checked", FileTree(t))
      BY <2>1 DEF TaskAt, IsAbout, IsFor, HasAtHand, SearchAt
    <3>3. AskedAt(t, "checked", FileTree(t), Call(t, "check", FileTree(t)))
      BY <2>1, <2>2 DEF AskedAt, Call
    <3>4. AskingAt(t, "checked", FileTree(t), Call(t, "check", FileTree(t))) /\ Fits("check", FileTree(t))
      BY <2>2 DEF AskingAt, Fits
    <3> QED
      BY <2>1, <2>2, <3>1, <3>2, <3>3, <3>4, PlainAsk DEF Waits
  <2>4. CASE ~WithServe
    BY <1>3, <2>1, <2>2, <2>4, PlainAbsent DEF AbsentForeignFile
  <2> QED
    BY <2>3, <2>4
<1>4. ASSUME ForeignFileChecked(t) PROVE Inv'
  <2>1. pc[t] = "checked" /\ Kind(t) = "foreign file" /\ Answered(t) /\ StoresSame
    BY <1>4 DEF ForeignFileChecked, Answer
  <2>2. object[t] = Wanted(t)
    BY <1>1, <2>1 DEF AskedAt
  <2>3. CASE Says(t, "OK")
    BY <1>4, <2>1, <2>2, <2>3, ToldAbsent DEF ForeignFileChecked, Says, Waits
  <2>4. CASE Says(t, "ERROR")
    BY <1>4, <2>1, <2>4, ErrorKept DEF ForeignFileChecked, Says, Waits
  <2>5. CASE Says(t, "NOT_FOUND")
    <3>1. Ask(t, "distdir", Key(t), object[t], "asked")
      BY <1>4, <2>5 DEF ForeignFileChecked, Says
    <3> QED
      BY <2>1, <2>5, <3>1, AskAgain
  <2> QED
    BY <2>1, <2>3, <2>4, <2>5 DEF Answered, Answers, Says
<1>5. ASSUME ForeignFileAsked(t) PROVE Inv'
  <2>1. pc[t] = "asked" /\ Kind(t) = "foreign file" /\ Answered(t) /\ StoresSame
    BY <1>5 DEF ForeignFileAsked, Answer
  <2>2. object[t] = Wanted(t)
    BY <1>1, <2>1 DEF AskedAt
  <2>3. CASE Says(t, "OK")
    <3>1. SetAbsent(t, Wanted(t))
      BY <1>5, <2>1, <2>2, <2>3, ToldTree DEF ForeignFileAsked
    <3> QED
      BY <2>1, <2>3, <3>1, ToldAbsent DEF Waits
  <2>4. CASE Says(t, "ERROR")
    BY <1>5, <2>1, <2>4, ErrorKept DEF ForeignFileAsked, Says, Waits
  <2>5. CASE Says(t, "NOT_FOUND")
    <3>1. SetAbsent(t, Wanted(t))
      BY <1>5, <2>2, <2>5 DEF ForeignFileAsked
    <3>2. Calm => near[t] # "serve"
      BY <1>1, <2>1, <2>5 DEF NotFoundAt, Says
    <3> QED
      BY <2>1, <3>1, <3>2, PlainAbsent
  <2> QED
    BY <2>1, <2>3, <2>4, <2>5 DEF Answered, Answers, Says
<1>6. ASSUME UseCacheHit(t) PROVE Inv'
  <2>1. pc[t] = "start" /\ Kind(t) = "foreign file" /\ StoresSame /\ IdFile("client", 0, "tree-map", Key(t))
        /\ SetPresent(t, IdOf("client", 0, "tree-map", Key(t)), "client")
    BY <1>6 DEF UseCacheHit, Starts, FileId
  <2>2. IdOf("client", 0, "tree-map", Key(t)) = Wanted(t) /\ InGit("client", Wanted(t))
    BY <1>2, <2>1, DistdirTask, KnownTree DEF Dir
  <2>3. StoresOK' /\ ClientGrows /\ ServeGrows
    BY <2>1, SameKept DEF SetPresent, Finish, historyVars
  <2>4. Wanted(t) \in git'["client"][0]
    BY <2>1, <2>2 DEF InGit, StoresSame, storeVars
  <2> QED
    BY <2>1, <2>2, <2>3, <2>4, PresentKept
<1>7. ASSUME PresentForeignFile(t) PROVE Inv'
  <2>1. pc[t] = "start" /\ Kind(t) = "foreign file" /\ ~Absent(t) /\ ~FileId(t) /\ StoresSame
        /\ Move(t, "content", Key(t))
    BY <1>7 DEF PresentForeignFile, Starts
  <2>2. near[t] = "local" => AllLocal(t)
    BY <1>1, <2>1 DEF Began, KnownLocally
  <2>3. TaskAt(t, "content", Key(t)) /\ SearchAt(t, "content", Key(t))
    BY <2>1, <2>2, DistdirTask DEF TaskAt, IsAbout, IsFor, HasAtHand, SearchAt
  <2> QED
    BY <2>1, <2>3, DistdirTask, PlainMove DEF Labels, Waits
<1>8. ASSUME WithFetchedFile(t) PROVE Inv'
  <2>1. pc[t] = "link" /\ Kind(t) = "foreign file" /\ StoresSame
        /\ IF Missing(t) = {} THEN Move(t, "import", FileTree(t)) ELSE Fails(t)
    BY <1>8 DEF WithFetchedFile, AtFor
  <2>2. Contents(t) \subseteq cas["client"] /\ FileTree(t) = Dir(t)
    BY <1>1, <2>1, DistdirTask DEF HasAtHand
  <2> QED
    BY <2>1, <2>2, LinkKept
<1>9. ASSUME WithRootImportedToGit(t) PROVE Inv'
  <2>1. pc[t] = "write_id" /\ Kind(t) = "foreign file" /\ SetPresent(t, object[t], "client")
        /\ UNCHANGED <<git, cas, remote, distdir, collections>>
    BY <1>9 DEF WithRootImportedToGit, AtFor
  <2>2. object[t] = Wanted(t) /\ InGit("client", Wanted(t)) /\ <<"tree-map", Key(t), Wanted(t)>> \in IdFiles
    BY <1>1, <2>1, DistdirTask DEF IsAbout, HasAtHand
  <2>3. CASE WriteTreeIDFile("client", "tree-map", Key(t), object[t]) /\ NoTrouble
    BY <2>1, <2>2, <2>3, WriteIdAndSet
  <2>4. CASE Trouble /\ UNCHANGED ids
    <3>1. Spent
      BY <2>1, <2>4, TroubleFacts DEF SetPresent, Finish, historyVars
    <3>2. StoresOK' /\ ClientGrows /\ ServeGrows
      BY <1>1, <2>1, <2>4, <3>1, NothingStored
    <3>3. Wanted(t) \in git'["client"][0]
      BY <2>1, <2>2 DEF InGit
    <3> QED
      BY <2>1, <2>2, <3>2, <3>3, PresentKept
  <2> QED
    BY <1>9, <2>3, <2>4 DEF WithRootImportedToGit
<1> QED
  BY <1>3, <1>4, <1>5, <1>6, <1>7, <1>8, <1>9 DEF ForeignFileStep

-----------------------------------------------------------------------------
(* Git trees and paths.                                                    *)
LEMMA TreeTask ==
  ASSUME Inv, NEW t \in Threads, Kind(t) = "git tree"
  PROVE  /\ Key(t) \in Stored /\ Key(t) \in Objects /\ Plain(t) = Key(t) /\ Wanted(t) = Key(t) /\ Sought(t) = {Key(t)}
         /\ Repo(t) = "client" /\ ~Special(t)
<1>1. CastOK
  BY TaskFacts
<1>2. Key(t) \in Trees /\ Repo(t) = "client" /\ ~Special(t)
  BY <1>1, RootFacts
<1> QED
  BY <1>2, ObjectFacts DEF Plain, Wanted, Sought

LEMMA PathTask ==
  ASSUME Inv, NEW t \in Threads, Kind(t) = "file"
  PROVE  /\ Plain(t) = TreeOf[Key(t)] /\ Plain(t) \in Objects /\ Wanted(t) \in Objects /\ Wanted(t) \in Stored
         /\ Wanted(t) = IF Special(t) THEN Resolved[Plain(t)] ELSE Plain(t)
         /\ <<"special-tree-map", Plain(t), Resolved[Plain(t)]>> \in IdFiles
<1>1. CastOK
  BY TaskFacts
<1>2. Key(t) \in FilePaths /\ Wanted(t) = IF Special(t) THEN Resolved[Plain(t)] ELSE Plain(t)
  BY <1>1, RootFacts
<1>3. Plain(t) = TreeOf[Key(t)]
  BY DEF Plain
<1> QED
  BY <1>2, <1>3, AnyTask, ObjectFacts

(* A tree comes from the remote CAS into the local one.                    *)
LEMMA FromRemoteKept ==
  ASSUME Inv, NEW t \in Threads, Kind(t) = "git tree", FromRemote(t), OnlyCas, pc[t] \notin {"idle", "done"}
  PROVE  Inv'
<1>1. ToCas("client", Key(t)) /\ Learn(t, "import", Key(t), TRUE) /\ NoTrouble
  BY DEF FromRemote
<1>2. Spent
  BY <1>1, NoTroubleFacts DEF OnlyCas, Learn, historyVars
<1>3. StoresOK /\ "client" \in Hosts
  BY TaskFacts DEF Hosts
<1>4. StoresOK' /\ ClientGrows /\ ServeGrows
  BY <1>1, <1>2, <1>3, TreeTask, WholeObjects, CasGrows DEF ToCas, OnlyCas
<1>5. TaskAt(t, "import", Key(t)) /\ SearchAt(t, "import", Key(t))
  BY TreeTask DEF TaskAt, IsAbout, IsFor, HasAtHand, SearchAt
<1> QED
  BY <1>1, <1>4, <1>5, TreeTask, MoveKept DEF Labels, Waits

LEMMA TreeKept ==
  ASSUME Inv, NEW t \in Threads, TreeStep(t)
  PROVE  Inv'
<1>1. /\ StoresOK /\ IsAbout(t, pc[t], object[t]) /\ IsFor(t, pc[t]) /\ HasAtHand(t, pc[t])
      /\ SearchAt(t, pc[t], object[t]) /\ Began(t)
  BY TaskFacts
<1>2. ASSUME TreeInGitCache(t) PROVE Inv'
  <2>1. pc[t] = "start" /\ Kind(t) = "git tree" /\ InGit("client", Key(t)) /\ Move(t, "stored", Key(t)) /\ StoresSame
    BY <1>2 DEF TreeInGitCache, TreeStarts
  <2>2. TaskAt(t, "stored", Key(t)) /\ SearchAt(t, "stored", Key(t))
    BY <2>1, TreeTask DEF TaskAt, IsAbout, IsFor, HasAtHand, SearchAt
  <2> QED
    BY <2>1, <2>2, TreeTask, PlainMove DEF Labels, Waits
<1>3. ASSUME TreeInOlderGeneration(t) PROVE Inv'
  <2>1. pc[t] = "start" /\ Kind(t) = "git tree" /\ Move(t, "take", Key(t)) /\ StoresSame
    BY <1>3 DEF TreeInOlderGeneration, TreeStarts
  <2>2. TaskAt(t, "take", Key(t)) /\ SearchAt(t, "take", Key(t))
    BY <2>1 DEF TaskAt, IsAbout, IsFor, HasAtHand, SearchAt
  <2> QED
    BY <2>1, <2>2, TreeTask, PlainMove DEF Labels, Waits
<1>4. ASSUME TakeTreeFromOlderGeneration(t) \/ FetchMadeTree(t) PROVE Inv'
  <2>1. pc[t] \in {"take", "made"} /\ Kind(t) = "git tree"
        /\ ToGit("client", Key(t)) /\ Move(t, "tag", Key(t)) /\ OnlyGit
    BY <1>1, <1>4 DEF TakeTreeFromOlderGeneration, FetchMadeTree, AtFor, IsFor
  <2>2. IsAbout(t, "tag", Key(t)) /\ IsFor(t, "tag")
    BY <2>1, TreeTask DEF IsAbout, IsFor
  <2> QED
    BY <2>1, <2>2, TreeTask, ImportMove DEF Labels, Waits
<1>5. ASSUME TagTree(t) PROVE Inv'
  <2>1. pc[t] = "tag" /\ Kind(t) = "git tree" /\ Move(t, "stored", Key(t)) /\ StoresSame
    BY <1>5 DEF TagTree, AtFor
  <2>2. InGit("client", Plain(t))
    BY <1>1, <2>1, TreeTask DEF HasAtHand
  <2>3. TaskAt(t, "stored", Key(t)) /\ SearchAt(t, "stored", Key(t))
    BY <2>1, <2>2 DEF TaskAt, IsAbout, IsFor, HasAtHand, SearchAt
  <2> QED
    BY <2>1, <2>3, TreeTask, PlainMove DEF Labels, Waits
<1>6. ASSUME MoveCASTreeToGit(t) PROVE Inv'
  <2>1. pc[t] = "start" /\ Kind(t) = "git tree" /\ Move(t, "import", Key(t)) /\ StoresSame
    BY <1>6 DEF MoveCASTreeToGit, NeedTree, TreeStarts
  <2>2. TaskAt(t, "import", Key(t)) /\ SearchAt(t, "import", Key(t))
    BY <2>1, TreeTask DEF TaskAt, IsAbout, IsFor, HasAtHand, SearchAt
  <2> QED
    BY <2>1, <2>2, TreeTask, PlainMove DEF Labels, Waits
<1>7. ASSUME AskForTree(t) PROVE Inv'
  <2>1. pc[t] = "start" /\ Kind(t) = "git tree" /\ ~Absent(t) /\ StoresSame
        /\ Key(t) \notin cas["client"] /\ ~InGit("client", Key(t)) /\ OldWith(Key(t)) = {}
    BY <1>7 DEF AskForTree, NeedTree, TreeStarts, OldTree
  <2>2. near[t] # "local"
    BY <1>1, <2>1 DEF Began, KnownLocally
  <2>3. Calm /\ near[t] # "nowhere" => Offered(t, Key(t))
    BY <1>1, <2>1, <2>2, AnyTask DEF Began, KnownToServe, Reachable, Offered
  <2>4. CASE WithServe
    <3>1. Ask(t, "tree", Key(t), Key(t), "content_served")
      BY <1>7, <2>4 DEF AskForTree
    <3>2. TaskAt(t, "content_served", Key(t)) /\ SearchAt(t, "content_served", Key(t))
      BY <2>1, <2>2, TreeTask DEF TaskAt, IsAbout, IsFor, HasAtHand, SearchAt
    <3>3. AskedAt(t, "content_served", Key(t), Call(t, "tree", Key(t)))
      BY DEF AskedAt, Call
    <3>4. AskingAt(t, "content_served", Key(t), Call(t, "tree", Key(t)))
      BY <2>3 DEF AskingAt
    <3>5. Fits("tree", Key(t))
      BY <2>1, TreeTask DEF Fits
    <3> QED
      BY <2>1, <3>1, <3>2, <3>3, <3>4, <3>5, TreeTask, PlainAsk DEF Waits
  <2>5. CASE ~WithServe
    <3>1. Move(t, "retrieve", Key(t))
      BY <1>7, <2>5 DEF AskForTree
    <3>2. TaskAt(t, "retrieve", Key(t))
      BY <2>1, TreeTask DEF TaskAt, IsAbout, IsFor, HasAtHand
    <3>3. SearchAt(t, "retrieve", Key(t))
      BY <2>1, <2>2, <2>3, <2>5 DEF SearchAt, Offered, ServeFinds, InReach
    <3> QED
      BY <2>1, <3>1, <3>2, <3>3, TreeTask, PlainMove DEF Labels, Waits
  <2> QED
    BY <2>4, <2>5
<1>8. ASSUME TreeServed(t) PROVE Inv'
  <2>1. pc[t] = "content_served" /\ Answered(t) /\ Kind(t) = "git tree" /\ OnlyCas
    BY <1>8 DEF TreeServed, Answer
  <2>2. object[t] = Key(t)
    BY <1>1, <2>1, TreeTask DEF IsAbout
  <2>3. CASE FromRemote(t)
    BY <2>1, <2>3, FromRemoteKept
  <2>4. CASE /\ IF Says(t, "OK") /\ Key(t) \in remote THEN Trouble ELSE NoTrouble
             /\ Move(t, "retrieve", Key(t)) /\ UNCHANGED cas
    BY <2>1, <2>2, <2>4, NotServed
  <2> QED
    BY <1>8, <2>3, <2>4 DEF TreeServed
<1>9. ASSUME RetrieveTree(t) PROVE Inv'
  <2>1. pc[t] = "retrieve" /\ Kind(t) = "git tree" /\ OnlyCas
    BY <1>9 DEF RetrieveTree, AtFor
  <2>2. object[t] = Key(t)
    BY <1>1, <2>1, TreeTask DEF IsAbout
  <2>3. CASE FromRemote(t)
    BY <2>1, <2>3, FromRemoteKept
  <2>4. CASE /\ IF Key(t) \in remote THEN Trouble ELSE NoTrouble
             /\ Move(t, "fetch", Key(t)) /\ UNCHANGED cas
    BY <2>1, <2>2, <2>4, NotRetrieved
  <2> QED
    BY <1>9, <2>3, <2>4 DEF RetrieveTree
<1>10. ASSUME MakeTree(t) PROVE Inv'
  <2>1. pc[t] = "fetch" /\ Kind(t) = "git tree" /\ OnlyTrouble
    BY <1>10 DEF MakeTree, AtFor
  <2>2. object[t] = Key(t)
    BY <1>1, <2>1, TreeTask DEF IsAbout
  <2>3. CASE Move(t, "made", Key(t)) /\ NoTrouble
    <3>1. TaskAt(t, "made", Key(t)) /\ SearchAt(t, "made", Key(t))
      BY <2>1 DEF TaskAt, IsAbout, IsFor, HasAtHand, SearchAt
    <3>2. StoresSame
      BY <2>1, <2>3 DEF OnlyTrouble, NoTrouble, StoresSame, storeVars
    <3> QED
      BY <2>1, <2>3, <3>1, <3>2, TreeTask, PlainMove DEF Labels, Waits
  <2>4. CASE (IF Key(t) \in Upstream THEN Trouble ELSE NoTrouble) /\ Fails(t)
    BY <2>1, <2>2, <2>4, NotFetched DEF OnlyTrouble
  <2> QED
    BY <1>10, <2>3, <2>4 DEF MakeTree
<1>11. ASSUME BackupTree(t) PROVE Inv'
  <2>1. pc[t] = "stored" /\ Kind(t) = "git tree" /\ SetPresent(t, Key(t), "client") /\ OnlyRemote
        /\ (ToRemote(Key(t)) \/ remote' = remote) /\ (NoTrouble \/ Trouble)
    BY <1>11 DEF BackupTree, AtFor
  <2>2. Spent
    BY <2>1, TroubleFacts, NoTroubleFacts DEF OnlyRemote, SetPresent, Finish, historyVars
  <2>3. StoresOK' /\ ClientGrows /\ ServeGrows
    BY <1>1, <2>1, <2>2, TreeTask, WholeObjects, RemoteGrows, NothingStored DEF ToRemote, OnlyRemote
  <2>4. Wanted(t) \in git'["client"][0]
    BY <1>1, <2>1, TreeTask DEF HasAtHand, InGit, OnlyRemote
  <2> QED
    BY <2>1, <2>3, <2>4, TreeTask, PresentKept
<1> QED
  BY <1>2, <1>3, <1>4, <1>5, <1>6, <1>7, <1>8, <1>9, <1>10, <1>11 DEF TreeStep

LEMMA TreeIdKept ==
  ASSUME Inv, NEW t \in Threads, TreeIdStep(t)
  PROVE  Inv'
<1>1. /\ StoresOK /\ AskedAt(t, pc[t], object[t], handler[t]) /\ IsFor(t, pc[t])
      /\ NotFoundAt(t, pc[t], object[t], handler[t]) /\ SearchAt(t, pc[t], object[t]) /\ Began(t)
  BY TaskFacts
<1>2. ASSUME AbsentTree(t) PROVE Inv'
  <2>1. pc[t] = "start" /\ Kind(t) = "git tree" /\ Absent(t) /\ StoresSame
    BY <1>2 DEF AbsentTree, Starts
  <2>2. CASE WithServe
    <3>1. Ask(t, "check", Key(t), Key(t), "tree_checked")
      BY <1>2, <2>2 DEF AbsentTree
    <3>2. near[t] = "local" => Key(t) \in cas["client"] \/ InGit("client", Key(t))
      BY <1>1, <2>1, <2>2 DEF Began, KnownLocally
    <3>3. TaskAt(t, "tree_checked", Key(t)) /\ SearchAt(t, "tree_checked", Key(t))
      BY <2>1, <3>2 DEF TaskAt, IsAbout, IsFor, HasAtHand, SearchAt
    <3>4. AskedAt(t, "tree_checked", Key(t), Call(t, "check", Key(t)))
      BY <2>1, TreeTask DEF AskedAt, Call
    <3>5. AskingAt(t, "tree_checked", Key(t), Call(t, "check", Key(t))) /\ Fits("check", Key(t))
      BY <2>1, TreeTask DEF AskingAt, Fits
    <3> QED
      BY <2>1, <3>1, <3>3, <3>4, <3>5, TreeTask, PlainAsk DEF Waits
  <2>3. CASE ~WithServe
    BY <1>2, <2>1, <2>3, TreeTask, PlainAbsent DEF AbsentTree
  <2> QED
    BY <2>2, <2>3
<1>3. ASSUME TreeChecked(t) PROVE Inv'
  <2>1. pc[t] = "tree_checked" /\ Answered(t) /\ StoresSame
    BY <1>3 DEF TreeChecked, Answer
  <2>2. Kind(t) = "git tree" /\ Absent(t)
        /\ (near[t] = "local" => Key(t) \in cas["client"] \/ InGit("client", Key(t)))
    BY <1>1, <2>1 DEF AskedAt, IsFor, SearchAt
  <2>3. CASE Says(t, "OK")
    BY <1>3, <2>1, <2>2, <2>3, TreeTask, ToldAbsent DEF TreeChecked, Says, Waits
  <2>4. CASE Says(t, "ERROR")
    BY <1>3, <2>1, <2>4, ErrorKept DEF TreeChecked, Says, Waits
  <2>5. CASE Says(t, "NOT_FOUND") /\ Key(t) \in remote
    <3>1. Ask(t, "get", Key(t), Key(t), "uploaded")
      BY <1>3, <2>5 DEF TreeChecked, Says
    <3>2. TaskAt(t, "uploaded", Key(t)) /\ SearchAt(t, "uploaded", Key(t))
      BY <2>2 DEF TaskAt, IsAbout, IsFor, HasAtHand, SearchAt
    <3>3. AskedAt(t, "uploaded", Key(t), Call(t, "get", Key(t)))
      BY <2>2, TreeTask DEF AskedAt, Call
    <3>4. AskingAt(t, "uploaded", Key(t), Call(t, "get", Key(t))) /\ Fits("get", Key(t))
      BY <2>2, TreeTask DEF AskingAt, Fits
    <3> QED
      BY <2>1, <2>2, <2>5, <3>1, <3>2, <3>3, <3>4, TreeTask, PlainAsk DEF Waits
  <2>6. CASE Says(t, "NOT_FOUND") /\ Key(t) \notin remote
    <3>1. Move(t, "local", Key(t))
      BY <1>3, <2>6 DEF TreeChecked, Says
    <3>2. Calm => near[t] # "serve"
      BY <1>1, <2>1, <2>6 DEF NotFoundAt, Says
    <3>3. TaskAt(t, "local", Key(t)) /\ SearchAt(t, "local", Key(t))
      BY <2>2, <3>2 DEF TaskAt, IsAbout, IsFor, HasAtHand, SearchAt, LocalSource
    <3> QED
      BY <2>1, <2>2, <3>1, <3>3, TreeTask, PlainMove DEF Labels, Waits
  <2> QED
    BY <2>1, <2>3, <2>4, <2>5, <2>6 DEF Answered, Answers, Says
<1>4. ASSUME LocalTree(t) PROVE Inv'
  <2>1. pc[t] = "local" /\ Kind(t) = "git tree" /\ StoresSame
    BY <1>4 DEF LocalTree, AtFor
  <2>2. Absent(t) /\ (Calm => near[t] # "serve")
        /\ (near[t] = "local" => Key(t) \in cas["client"] \/ InGit("client", Key(t)))
    BY <1>1, <2>1 DEF IsFor, SearchAt
  <2>3. CASE InGit("client", Key(t))
    <3>1. Move(t, "upload", Wanted(t)) /\ Here(t, Wanted(t))
      BY <1>4, <2>1, <2>3, TreeTask DEF LocalTree, Here
    <3> QED
      BY <2>1, <2>2, <3>1, SendTree
  <2>4. CASE ~InGit("client", Key(t)) /\ Key(t) \in cas["client"]
    <3>1. Move(t, "import", Key(t))
      BY <1>4, <2>4 DEF LocalTree
    <3>2. TaskAt(t, "import", Key(t)) /\ SearchAt(t, "import", Key(t))
      BY <2>1, TreeTask DEF TaskAt, IsAbout, IsFor, HasAtHand, SearchAt
    <3> QED
      BY <2>1, <3>1, <3>2, TreeTask, PlainMove DEF Labels, Waits
  <2>5. CASE ~InGit("client", Key(t)) /\ Key(t) \notin cas["client"]
    <3>1. Fails(t)
      BY <1>4, <2>5 DEF LocalTree
    <3>2. near[t] # "upstream"
      BY <1>1, <2>1, <2>2 DEF Began
    <3> QED
      BY <2>1, <2>2, <2>5, <3>1, <3>2, AnyTask, Nowhere
  <2> QED
    BY <2>3, <2>4, <2>5
<1> QED
  BY <1>2, <1>3, <1>4, TreeKept DEF TreeIdStep

(* A tree that is here is in the repository it is taken from.              *)
LEMMA PresentFromSource ==
  ASSUME Inv, NEW t \in Threads, object[t] = Wanted(t), Here(t, Wanted(t)),
         SetPresent(t, object[t], Source(t)), StoresSame
  PROVE  Inv'
<1>1. Source(t) \in {"client", "checkout"}
  BY DEF Source, Repo
<1>2. InGit(Source(t), Wanted(t))
  BY DEF Source, Here
<1>3. StoresOK' /\ ClientGrows /\ ServeGrows
  BY SameKept DEF SetPresent, Finish, historyVars
<1>4. Wanted(t) \in git'[Source(t)][0]
  BY <1>2 DEF InGit, StoresSame, storeVars
<1> QED
  BY <1>1, <1>3, <1>4, PresentKept

LEMMA PathKept ==
  ASSUME Inv, NEW t \in Threads, PathStep(t)
  PROVE  Inv'
<1>1. /\ StoresOK /\ CastOK /\ IsAbout(t, pc[t], object[t]) /\ IsFor(t, pc[t]) /\ HasAtHand(t, pc[t])
      /\ AskedAt(t, pc[t], object[t], handler[t])
  BY TaskFacts
<1>2. "client" \in Hosts
  BY DEF Hosts
<1>3. ASSUME PathInCheckout(t) PROVE Inv'
  <2>1. pc[t] = "start" /\ Kind(t) = "file" /\ Repo(t) = "checkout" /\ Move(t, "resolve", TreeOf[Key(t)]) /\ StoresSame
    BY <1>3 DEF PathInCheckout, Starts
  <2>2. TreeOf[Key(t)] = Plain(t) /\ InGit(Repo(t), Plain(t))
    BY <1>1, <2>1, PathTask DEF CastOK, Repo
  <2>3. TaskAt(t, "resolve", Plain(t)) /\ SearchAt(t, "resolve", Plain(t))
    BY <2>1, <2>2 DEF TaskAt, IsAbout, IsFor, HasAtHand, SearchAt
  <2> QED
    BY <2>1, <2>2, <2>3, AnyTask, PlainMove DEF Labels, Waits
<1>4. ASSUME PathToImport(t) PROVE Inv'
  <2>1. pc[t] = "start" /\ Kind(t) = "file" /\ Repo(t) = "client" /\ Move(t, "import", TreeOf[Key(t)]) /\ StoresSame
    BY <1>4 DEF PathToImport, Starts
  <2>2. TreeOf[Key(t)] = Plain(t)
    BY <2>1, PathTask
  <2>3. TaskAt(t, "import", Plain(t)) /\ SearchAt(t, "import", Plain(t))
    BY <2>1, <2>2 DEF TaskAt, IsAbout, IsFor, HasAtHand, SearchAt
  <2> QED
    BY <2>1, <2>2, <2>3, AnyTask, PlainMove DEF Labels, Waits
<1>5. ASSUME PathTreeAsIs(t) PROVE Inv'
  <2>1. pc[t] = "resolve" /\ Kind(t) = "file" /\ ~Special(t) /\ Move(t, "settle", object[t]) /\ StoresSame
    BY <1>5 DEF PathTreeAsIs, AtFor
  <2>2. object[t] = Wanted(t) /\ Here(t, Wanted(t))
    BY <1>1, <2>1, PathTask DEF IsAbout, HasAtHand, Here
  <2>3. TaskAt(t, "settle", Wanted(t)) /\ SearchAt(t, "settle", Wanted(t))
    BY <2>1, <2>2 DEF TaskAt, IsAbout, IsFor, HasAtHand, SearchAt
  <2> QED
    BY <2>1, <2>2, <2>3, AnyTask, PlainMove DEF Labels, Waits
<1>6. ASSUME PathTreeResolved(t) PROVE Inv'
  <2>1. pc[t] = "resolve" /\ Kind(t) = "file" /\ Special(t) /\ StoresSame
        /\ IdFile("client", 0, "special-tree-map", object[t])
        /\ Move(t, "settle", IdOf("client", 0, "special-tree-map", object[t]))
    BY <1>6 DEF PathTreeResolved, AtFor, PathResolvedId
  <2>2. object[t] = Plain(t)
    BY <1>1, <2>1 DEF IsAbout
  <2>3. IdOf("client", 0, "special-tree-map", object[t]) = Wanted(t) /\ Here(t, Wanted(t))
    BY <1>2, <2>1, <2>2, PathTask, KnownTree DEF Here
  <2>4. TaskAt(t, "settle", Wanted(t)) /\ SearchAt(t, "settle", Wanted(t))
    BY <2>1, <2>3 DEF TaskAt, IsAbout, IsFor, HasAtHand, SearchAt
  <2> QED
    BY <2>1, <2>3, <2>4, AnyTask, PlainMove DEF Labels, Waits
<1>7. ASSUME ResolvePathTree(t) PROVE Inv'
  <2>1. pc[t] = "resolve" /\ Kind(t) = "file" /\ Special(t) /\ OnlyGit
        /\ ToGit("client", Resolved[object[t]]) /\ Move(t, "keep", Resolved[object[t]])
    BY <1>7 DEF ResolvePathTree, AtFor
  <2>2. Resolved[object[t]] = Wanted(t)
    BY <1>1, <2>1, PathTask DEF IsAbout
  <2>3. IsAbout(t, "keep", Wanted(t)) /\ IsFor(t, "keep")
    BY <2>1 DEF IsAbout, IsFor
  <2> QED
    BY <2>1, <2>2, <2>3, AnyTask, ImportMove DEF Labels, Waits
<1>8. ASSUME KeepResolvedPath(t) PROVE Inv'
  <2>1. pc[t] = "keep" /\ Kind(t) = "file" /\ OnlyIds /\ Learn(t, "settle", object[t], hit[t])
        /\ WriteTreeIDFile("client", "special-tree-map", TreeOf[Key(t)], object[t])
    BY <1>8 DEF KeepResolvedPath, AtFor, Move
  <2>2. object[t] = Wanted(t) /\ InGit("client", Wanted(t)) /\ Special(t)
    BY <1>1, <2>1 DEF IsAbout, IsFor, HasAtHand
  <2>3. Wanted(t) = Resolved[Plain(t)] /\ TreeOf[Key(t)] = Plain(t)
    BY <2>1, <2>2, PathTask
  <2>4. Spent
    BY <2>1, NoTroubleFacts DEF OnlyIds, NoTrouble, Learn, historyVars
  <2>5. StoresOK' /\ ClientGrows /\ ServeGrows
    BY <1>1, <1>2, <2>1, <2>2, <2>3, <2>4, PathTask, IdsGrow DEF OnlyIds
  <2>6. TaskAt(t, "settle", Wanted(t)) /\ SearchAt(t, "settle", Wanted(t))
    BY <2>1, <2>2 DEF TaskAt, IsAbout, IsFor, HasAtHand, SearchAt, Here
  <2> QED
    BY <2>1, <2>2, <2>5, <2>6, AnyTask, MoveKept DEF Labels, Waits
<1>9. ASSUME CheckServe(t) PROVE Inv'
  <2>1. pc[t] = "settle" /\ Kind(t) = "file" /\ StoresSame
    BY <1>1, <1>9 DEF CheckServe, IsFor
  <2>2. object[t] = Wanted(t) /\ Here(t, Wanted(t))
    BY <1>1, <2>1 DEF IsAbout, HasAtHand
  <2>3. CASE WithServe
    <3>1. Ask(t, "check", Wanted(t), Wanted(t), "checked")
      BY <1>9, <2>2, <2>3 DEF CheckServe
    <3>2. TaskAt(t, "checked", Wanted(t)) /\ SearchAt(t, "checked", Wanted(t))
      BY <2>1, <2>2 DEF TaskAt, IsAbout, IsFor, HasAtHand, SearchAt
    <3>3. AskedAt(t, "checked", Wanted(t), Call(t, "check", Wanted(t)))
      BY <2>1 DEF AskedAt, Call
    <3>4. AskingAt(t, "checked", Wanted(t), Call(t, "check", Wanted(t))) /\ Fits("check", Wanted(t))
      BY AnyTask DEF AskingAt, Fits
    <3> QED
      BY <2>1, <3>1, <3>2, <3>3, <3>4, AnyTask, PlainAsk DEF Waits
  <2>4. CASE ~WithServe /\ Absent(t)
    BY <1>9, <2>1, <2>2, <2>4, PlainAbsent DEF CheckServe, SetPathRoot
  <2>5. CASE ~WithServe /\ ~Absent(t)
    BY <1>9, <2>1, <2>2, <2>5, PresentFromSource DEF CheckServe, SetPathRoot
  <2> QED
    BY <2>3, <2>4, <2>5
<1>10. ASSUME PathChecked(t) PROVE Inv'
  <2>1. pc[t] = "checked" /\ Kind(t) = "file" /\ Answered(t) /\ StoresSame
    BY <1>10 DEF PathChecked, Answer
  <2>2. object[t] = Wanted(t) /\ Here(t, Wanted(t))
    BY <1>1, <2>1 DEF AskedAt, HasAtHand
  <2>3. CASE Says(t, "OK") /\ Absent(t)
    BY <1>10, <2>1, <2>2, <2>3, ToldAbsent DEF PathChecked, SetPathRoot, Says, Waits
  <2>4. CASE Says(t, "OK") /\ ~Absent(t)
    BY <1>10, <2>1, <2>2, <2>4, PresentFromSource DEF PathChecked, SetPathRoot, Says
  <2>5. CASE Says(t, "ERROR")
    BY <1>10, <2>1, <2>5, ErrorKept DEF PathChecked, Says, Waits
  <2>6. CASE Says(t, "NOT_FOUND")
    BY <1>10, <2>1, <2>2, <2>6, SendTree DEF PathChecked, Says
  <2> QED
    BY <2>1, <2>3, <2>4, <2>5, <2>6 DEF Answered, Answers, Says
<1> QED
  BY <1>3, <1>4, <1>5, <1>6, <1>7, <1>8, <1>9, <1>10 DEF PathStep

-----------------------------------------------------------------------------
(* The steps that all kinds of roots have.                                 *)
LEMMA SharedKept ==
  ASSUME Inv, NEW t \in Threads,
         CriticalGitOpFails(t) \/ ImportToGit(t) \/ KeepCommitAndSetTree(t) \/ UploadTree(t) \/ Uploaded(t)
  PROVE  Inv'
<1>1. /\ StoresOK /\ CastOK /\ IsAbout(t, pc[t], object[t]) /\ IsFor(t, pc[t]) /\ HasAtHand(t, pc[t])
      /\ AskedAt(t, pc[t], object[t], handler[t]) /\ RepliedAt(pc[t], handler[t])
  BY TaskFacts
<1>2. ASSUME CriticalGitOpFails(t) PROVE Inv'
  <2>1. Trouble /\ Fails(t) /\ OnlyTrouble
    BY <1>2 DEF CriticalGitOpFails
  <2>2. Spent /\ ~Calm'
    BY <2>1, TroubleFacts DEF OnlyTrouble, Fails, Finish, historyVars
  <2>3. StoresOK' /\ ClientGrows /\ ServeGrows
    BY <1>1, <2>1, <2>2, NothingStored DEF OnlyTrouble
  <2> QED
    BY <2>1, <2>2, <2>3, FailureKept
<1>3. ASSUME ImportToGit(t) PROVE Inv'
  <2>1. pc[t] = "import" /\ ToGit("client", object[t]) /\ Move(t, "imported", object[t]) /\ OnlyGit
    BY <1>3 DEF ImportToGit
  <2>2. object[t] = Plain(t)
    BY <1>1, <2>1 DEF IsAbout
  <2>3. IsAbout(t, "imported", Plain(t)) /\ IsFor(t, "imported")
    BY <1>1, <2>1 DEF IsAbout, IsFor
  <2> QED
    BY <2>1, <2>2, <2>3, AnyTask, ImportMove DEF Labels, Waits
<1>4. ASSUME KeepCommitAndSetTree(t) PROVE Inv'
  <2>1. pc[t] = "imported" /\ Move(t, AfterImport(t), object[t]) /\ StoresSame
    BY <1>4 DEF KeepCommitAndSetTree
  <2>2. object[t] = Plain(t) /\ InGit("client", Plain(t)) /\ (Kind(t) = "file" => Repo(t) = "client")
    BY <1>1, <2>1 DEF IsAbout, IsFor, HasAtHand
  <2>3. CASE Kind(t) = "git tree" /\ Absent(t)
    <3>1. AfterImport(t) = "upload" /\ Plain(t) = Wanted(t)
      BY <2>3, TreeTask DEF AfterImport
    <3> QED
      BY <2>1, <2>2, <2>3, <3>1, SendTree DEF Here
  <2>4. CASE Kind(t) = "git tree" /\ ~Absent(t)
    <3>1. AfterImport(t) = "stored"
      BY <2>4 DEF AfterImport
    <3>2. TaskAt(t, "stored", Plain(t)) /\ SearchAt(t, "stored", Plain(t))
      BY <2>2, <2>4 DEF TaskAt, IsAbout, IsFor, HasAtHand, SearchAt
    <3> QED
      BY <2>1, <2>2, <3>1, <3>2, AnyTask, PlainMove DEF Labels, Waits
  <2>5. CASE Kind(t) = "file"
    <3>1. AfterImport(t) = "resolve"
      BY <2>5 DEF AfterImport
    <3>2. TaskAt(t, "resolve", Plain(t)) /\ SearchAt(t, "resolve", Plain(t))
      BY <2>2, <2>5 DEF TaskAt, IsAbout, IsFor, HasAtHand, SearchAt
    <3> QED
      BY <2>1, <2>2, <3>1, <3>2, AnyTask, PlainMove DEF Labels, Waits
  <2>6. CASE Kind(t) \notin {"git tree", "file"}
    <3>1. AfterImport(t) = "write_id" /\ Kind(t) \in {"git", "archive", "distdir", "foreign file"}
      BY <2>6, AnyTask DEF AfterImport, Kinds
    <3>2. TaskAt(t, "write_id", Plain(t)) /\ SearchAt(t, "write_id", Plain(t))
      BY <2>2, <3>1 DEF TaskAt, IsAbout, IsFor, HasAtHand, SearchAt
    <3> QED
      BY <2>1, <2>2, <3>1, <3>2, AnyTask, PlainMove DEF Labels, Waits
  <2> QED
    BY <2>3, <2>4, <2>5, <2>6, AnyTask
<1>5. ASSUME UploadTree(t) PROVE Inv'
  <2>1. pc[t] = "upload" /\ OnlyRemote
    BY <1>5 DEF UploadTree
  <2>2. object[t] = Wanted(t) /\ (Absent(t) \/ Kind(t) = "file") /\ Here(t, Wanted(t))
    BY <1>1, <2>1 DEF IsAbout, IsFor, HasAtHand
  <2>3. InGit(Source(t), object[t])
    BY <2>2 DEF Source, Here
  <2>4. CASE NoTrouble /\ ToRemote(object[t]) /\ Ask(t, "get", object[t], object[t], "uploaded")
    <3>1. Spent
      BY <2>1, <2>4, NoTroubleFacts DEF OnlyRemote, Ask, historyVars
    <3>2. StoresOK' /\ ClientGrows /\ ServeGrows
      BY <1>1, <2>1, <2>2, <2>4, <3>1, AnyTask, WholeObjects, RemoteGrows DEF ToRemote, OnlyRemote
    <3>3. TaskAt(t, "uploaded", Wanted(t)) /\ SearchAt(t, "uploaded", Wanted(t))
      BY <2>2 DEF TaskAt, IsAbout, IsFor, HasAtHand, SearchAt
    <3>4. AskedAt(t, "uploaded", Wanted(t), Call(t, "get", Wanted(t)))
      BY DEF AskedAt, Call
    <3>5. AskingAt(t, "uploaded", Wanted(t), Call(t, "get", Wanted(t))) /\ Fits("get", Wanted(t))
      BY AnyTask DEF AskingAt, Fits
    <3>6. Wanted(t) \in remote'
      BY <2>2, <2>4 DEF ToRemote, WithBelow
    <3> QED
      BY <2>1, <2>2, <2>4, <3>2, <3>3, <3>4, <3>5, <3>6, AnyTask, AskKept DEF Waits
  <2>5. CASE Trouble /\ Fails(t) /\ UNCHANGED remote
    <3>1. Spent /\ ~Calm'
      BY <2>1, <2>5, TroubleFacts DEF OnlyRemote, Fails, Finish, historyVars
    <3>2. StoresOK' /\ ClientGrows /\ ServeGrows
      BY <1>1, <2>1, <2>5, <3>1, NothingStored DEF OnlyRemote
    <3> QED
      BY <2>5, <3>1, <3>2, FailureKept
  <2> QED
    BY <1>5, <2>3, <2>4, <2>5 DEF UploadTree
<1>6. ASSUME Uploaded(t) PROVE Inv'
  <2>1. pc[t] = "uploaded" /\ Answered(t) /\ StoresSame
    BY <1>6 DEF Uploaded, Answer
  <2>2. object[t] = Wanted(t) /\ handler[t].rpc = "get" /\ (~Absent(t) => Here(t, Wanted(t)))
    BY <1>1, <2>1 DEF AskedAt, HasAtHand
  <2>3. CASE ~Absent(t)
    BY <1>6, <2>1, <2>2, <2>3, PresentFromSource DEF Uploaded
  <2>4. CASE Absent(t) /\ Says(t, "OK")
    BY <1>6, <2>1, <2>2, <2>4, ToldAbsent DEF Uploaded, Waits
  <2>5. CASE Absent(t) /\ Says(t, "ERROR")
    BY <1>6, <2>1, <2>5, ErrorKept DEF Uploaded, Says, Waits
  <2>6. ~Says(t, "NOT_FOUND")
    BY <1>1, <2>1, <2>2 DEF RepliedAt, Says, Waits
  <2> QED
    BY <2>1, <2>3, <2>4, <2>5, <2>6 DEF Answered, Answers, Says
<1> QED
  BY <1>2, <1>3, <1>4, <1>5, <1>6

LEMMA TaskStepKept ==
  ASSUME Inv, NEW t \in Threads, TaskStep(t)
  PROVE  Inv'
BY CommitKept, ArchiveKept, ContentKept, DistdirKept, ForeignFileKept, PathKept, TreeIdKept, SharedKept DEF TaskStep

-----------------------------------------------------------------------------
(* The steps of the serve endpoint.                                        *)
MapsGo == /\ resolving' \in [Linked -> {"unknown", "pending", "awaited", "ready"}]
          /\ astray' \in BOOLEAN /\ (astray => astray')
Found(t, stage) ==
  Calm' /\ pc[t] = "served" /\ Kind(t) = "archive" /\ near[t] = "serve" =>
    /\ stage = "find" => ServeFinds(Key(t))
    /\ stage = "retrieve" => Key(t) \in remote

LEMMA ServeFacts ==
  ASSUME Inv, NEW t \in Threads
  PROVE  /\ ServeAt(handler[t])
         /\ handler[t] \in [rpc : Rpcs, key : Objects \cup Distdirs \cup {"none"}, sync : BOOLEAN, special : BOOLEAN,
                            stage : Working \cup Answers \cup {"none"}, tree : Objects \cup {"none"}]
         /\ DOMAIN handler = Threads
         /\ pc[t] \in Waits => pc[t] \notin {"idle", "done"}
<1>1. ServeAt(handler[t]) /\ SourceTreeTypeOK
  BY DEF Inv, ThreadOK, ServeOK, Types
<1>2. handler[t] \in [rpc : Rpcs, key : Objects \cup Distdirs \cup {"none"}, sync : BOOLEAN, special : BOOLEAN,
                      stage : Working \cup Answers \cup {"none"}, tree : Objects \cup {"none"}]
      /\ DOMAIN handler = Threads
  BY <1>1 DEF SourceTreeTypeOK
<1> QED
  BY <1>1, <1>2 DEF Waits

LEMMA SameMaps ==
  ASSUME Inv, UNCHANGED mapVars
  PROVE  MapsGo
BY DEF Inv, Types, SourceTreeTypeOK, MapsGo, mapVars

LEMMA ElsewhereFacts ==
  ASSUME Elsewhere, astray => astray'
  PROVE  /\ HistoryKept
         /\ \A t : pc'[t] = pc[t] /\ object'[t] = object[t] /\ root'[t] = root[t]
         /\ UNCHANGED <<pc, object, hit, root, runs, near, begun, kept, cast>>
BY DEF Elsewhere, taskVars, historyVars, HistoryKept

(* The call of a task got further.                                         *)
LEMMA CallKept ==
  ASSUME Inv, NEW t \in Threads, StoresGrow, HistoryKept,
         pc'[t] = pc[t], object'[t] = object[t], root'[t] = root[t], NEW h, handler'[t] = h,
         h.rpc = handler[t].rpc, h.key = handler[t].key, h.sync = handler[t].sync, h.special = handler[t].special,
         ServeOK(t)', Replied(t)', NotFound(t)', Found(t, h.stage)
  PROVE  ThreadOK(t)'
<1>1. StoresOK /\ TypeRun /\ ThreadOK(t)
  BY DEF Inv, Types
<1>2. TaskOK(t)' /\ RootOK(t)' /\ Searching(t)' /\ Began(t)'
  BY <1>1, TaskKept, RootKept, SearchKept, BeganKept DEF ThreadOK, TaskOK, RootOK, Searching
<1>3. Asked(t)'
  <2>1. AskedAt(t, pc[t], object[t], h)
    BY <1>1 DEF ThreadOK, Asked, AskedAt
  <2> QED
    BY <2>1, AskedKept
<1>4. Asking(t)'
  <2>1. CASE ~Calm'
    BY <2>1 DEF Asking, AskingAt
  <2>2. CASE Calm'
    <3>1. AskingAt(t, pc[t], object[t], h)
      BY <1>1, <2>2 DEF ThreadOK, Asking, AskingAt, Found
    <3> QED
      BY <1>1, <3>1, AskingKept
  <2> QED
    BY <2>1, <2>2
<1> QED
  BY <1>2, <1>3, <1>4 DEF ThreadOK

LEMMA ServeStepKept ==
  ASSUME Inv, NEW t \in Threads, Elsewhere, NEW s \in Working \cup Answers, NEW x \in Objects \cup {"none"},
         GoesTo(t, s, x), MapsGo, StoresOK', ClientGrows, ServeGrows,
         ServeOK(t)', Replied(t)', NotFound(t)', Found(t, s)
  PROVE  Inv'
<1>1. StoresOK /\ StoresGrow /\ TypeRun /\ TypeTasks /\ SourceTreeTypeOK
  BY DEF Inv, Types, StoresGrow
<1>2. HistoryKept /\ pc'[t] = pc[t] /\ object'[t] = object[t] /\ root'[t] = root[t]
      /\ UNCHANGED <<pc, object, hit, root, runs, near, begun, kept, cast>>
  BY ElsewhereFacts DEF MapsGo
<1>3. handler' = [handler EXCEPT ![t].stage = s, ![t].tree = x]
  BY DEF GoesTo
<1>4. /\ handler'[t].rpc = handler[t].rpc /\ handler'[t].key = handler[t].key /\ handler'[t].sync = handler[t].sync
      /\ handler'[t].special = handler[t].special /\ handler'[t].stage = s
      /\ \A o \in Threads \ {t} : handler'[o] = handler[o]
  BY <1>3, ServeFacts
<1>5. Types'
  <2>1. TypeTasks' /\ TypeRun'
    BY <1>1, <1>2 DEF TypeTasks, TypeRun
  <2>2. SourceTreeTypeOK'
    BY <1>1, <1>3 DEF SourceTreeTypeOK, MapsGo
  <2> QED
    BY <2>1, <2>2 DEF Types
<1>6. ThreadOK(t)'
  BY <1>1, <1>2, <1>4, CallKept
<1> QED
  BY <1>2, <1>4, <1>5, <1>6, OneTask

(* The endpoint works on,                                                  *)
LEMMA WorkKept ==
  ASSUME Inv, NEW t \in Threads, Elsewhere, NEW s \in Working, NEW x \in Objects \cup {"none"},
         GoesTo(t, s, x), MapsGo, StoresOK', ClientGrows, ServeGrows, ServeOK(t)', Found(t, s)
  PROVE  Inv'
<1>1. StoresOK /\ StoresGrow /\ TypeRun /\ RepliedAt(pc[t], handler[t])
  BY TaskFacts DEF StoresGrow
<1>2. HistoryKept /\ pc'[t] = pc[t]
  BY ElsewhereFacts DEF MapsGo
<1>3. s \notin Answers
  BY DEF Working, Answers
<1>4. handler'[t].rpc = handler[t].rpc /\ handler'[t].key = handler[t].key /\ handler'[t].stage = s
  BY ServeFacts DEF GoesTo
<1>5. RepliedAt(pc[t], handler'[t])
  BY <1>1, <1>3, <1>4 DEF RepliedAt, Answers
<1>6. Replied(t)'
  BY <1>1, <1>2, <1>5, RepliedKept
<1>7. NotFound(t)'
  BY <1>3, <1>4 DEF NotFound, NotFoundAt, Answers
<1> QED
  BY <1>6, <1>7, ServeStepKept

(* it answers with what was asked for,                                     *)
LEMMA OkKept ==
  ASSUME Inv, NEW t \in Threads, Elsewhere, NEW x \in Objects \cup {"none"},
         Goes(t, "OK", x), StoresOK', ClientGrows, ServeGrows,
         handler[t].rpc \in {"commit", "distdir", "archive"} => x = Promised(handler[t]),
         handler[t].rpc \notin {"content", "tree"} =>
           Promised(handler[t]) \in git'["serve"][0] \/ Promised(handler[t]) \in cast.known,
         handler[t].rpc \in {"content", "tree"} \/ (handler[t].rpc = "commit" /\ handler[t].sync) =>
           Promised(handler[t]) \in remote'
  PROVE  Inv'
<1>1. StoresOK /\ StoresGrow /\ TypeRun /\ RepliedAt(pc[t], handler[t])
  BY TaskFacts DEF StoresGrow
<1>2. GoesTo(t, "OK", x) /\ MapsGo
  BY SameMaps DEF Goes
<1>3. HistoryKept /\ pc'[t] = pc[t] /\ cast' = cast
  BY <1>2, ElsewhereFacts DEF MapsGo
<1>4. /\ handler'[t].rpc = handler[t].rpc /\ handler'[t].key = handler[t].key /\ handler'[t].sync = handler[t].sync
      /\ handler'[t].special = handler[t].special /\ handler'[t].stage = "OK" /\ handler'[t].tree = x
  BY <1>2, ServeFacts DEF GoesTo
<1>5. Promised(handler[t])' = Promised(handler[t])
  BY <1>4 DEF Promised
<1>6. Calm' => Calm /\ remote \subseteq remote'
  BY <1>1, <1>3, GrowFacts
<1>7. Replied(t)'
  BY <1>1, <1>3, <1>4, <1>5, <1>6 DEF Replied, RepliedAt, Has, InGit
<1>8. NotFound(t)'
  BY <1>4 DEF NotFound, NotFoundAt
<1>9. ServeOK(t)'
  BY <1>4 DEF ServeOK, ServeAt, Working
<1> QED
  BY <1>2, <1>7, <1>8, <1>9, ServeStepKept DEF Found, Answers

(* it fails,                                                               *)
LEMMA ErrorThread ==
  ASSUME Inv, NEW t \in Threads, StoresGrow, HistoryKept,
         pc'[t] = pc[t], object'[t] = object[t], root'[t] = root[t],
         handler'[t] = [handler[t] EXCEPT !.stage = "ERROR"], pc[t] \in Waits => ~Calm' \/ astray'
  PROVE  ThreadOK(t)'
<1>1. StoresOK /\ TypeRun /\ RepliedAt(pc[t], handler[t])
  BY TaskFacts
<1>2. /\ handler'[t].rpc = handler[t].rpc /\ handler'[t].key = handler[t].key /\ handler'[t].sync = handler[t].sync
      /\ handler'[t].special = handler[t].special /\ handler'[t].stage = "ERROR"
  BY ServeFacts
<1>3. Calm' => Calm /\ remote \subseteq remote'
  BY <1>1, GrowFacts
<1>4. Replied(t)'
  BY <1>1, <1>2, <1>3 DEF Replied, RepliedAt
<1>5. NotFound(t)' /\ ServeOK(t)'
  BY <1>2 DEF NotFound, NotFoundAt, ServeOK, ServeAt, Working
<1> QED
  BY <1>2, <1>4, <1>5, CallKept DEF Found

LEMMA ErrorEnds ==
  ASSUME Inv, NEW t \in Threads, Elsewhere, GoesTo(t, "ERROR", handler[t].tree), MapsGo,
         StoresOK', ClientGrows, ServeGrows, pc[t] \in Waits => ~Calm' \/ astray'
  PROVE  Inv'
<1>1. StoresOK /\ StoresGrow /\ TypeRun /\ RepliedAt(pc[t], handler[t])
  BY TaskFacts DEF StoresGrow
<1>2. /\ handler'[t].rpc = handler[t].rpc /\ handler'[t].key = handler[t].key /\ handler'[t].stage = "ERROR"
      /\ handler[t].tree \in Objects \cup {"none"}
  BY ServeFacts DEF GoesTo
<1>3. HistoryKept /\ pc'[t] = pc[t]
  BY ElsewhereFacts DEF MapsGo
<1>4. Calm' => Calm /\ remote \subseteq remote'
  BY <1>1, <1>3, GrowFacts
<1>5. Replied(t)'
  BY <1>1, <1>2, <1>3, <1>4 DEF Replied, RepliedAt
<1>6. NotFound(t)' /\ ServeOK(t)'
  BY <1>2 DEF NotFound, NotFoundAt, ServeOK, ServeAt, Working
<1> QED
  BY <1>2, <1>5, <1>6, ServeStepKept DEF Found, Answers

(* or it has not found what was asked for.                                 *)
LEMMA NotFoundEnds ==
  ASSUME Inv, NEW t \in Threads, Elsewhere, Ends(t, "NOT_FOUND"), StoresOK', ClientGrows, ServeGrows,
         handler[t].rpc # "get",
         Calm' /\ pc[t] \in Waits => NotFoundAt(t, pc[t], object[t], [handler[t] EXCEPT !.stage = "NOT_FOUND"])
  PROVE  Inv'
<1>1. StoresOK /\ StoresGrow /\ TypeRun /\ RepliedAt(pc[t], handler[t])
  BY TaskFacts DEF StoresGrow
<1>2. GoesTo(t, "NOT_FOUND", handler[t].tree) /\ MapsGo
  BY SameMaps DEF Ends, Goes
<1>3. HistoryKept /\ pc'[t] = pc[t] /\ object'[t] = object[t]
  BY <1>2, ElsewhereFacts DEF MapsGo
<1>4. handler'[t] = [handler[t] EXCEPT !.stage = "NOT_FOUND"]
  BY <1>2, ServeFacts DEF GoesTo
<1>5. handler'[t].rpc = handler[t].rpc /\ handler'[t].stage = "NOT_FOUND" /\ handler[t].tree \in Objects \cup {"none"}
  BY <1>4, ServeFacts
<1>6. Replied(t)'
  BY <1>5 DEF Replied, RepliedAt
<1>7. NotFound(t)'
  <2>1. CASE ~Calm'
    BY <2>1 DEF NotFound, NotFoundAt
  <2>2. CASE pc[t] \notin Waits
    BY <1>3, <2>2 DEF NotFound, NotFoundAt, Waits
  <2>3. CASE Calm' /\ pc[t] \in Waits
    BY <1>1, <1>3, <1>4, <2>3, NotFoundKept
  <2> QED
    BY <2>1, <2>2, <2>3
<1>8. ServeOK(t)'
  BY <1>5 DEF ServeOK, ServeAt, Working
<1> QED
  BY <1>2, <1>5, <1>6, <1>7, <1>8, ServeStepKept DEF Found, Answers

(* The endpoint goes down: all calls fail.                                 *)
LEMMA RestartKept ==
  ASSUME Inv, Elsewhere, Restart, StoresOK', ClientGrows, ServeGrows, astray' \in BOOLEAN, astray => astray',
         ~Calm' \/ astray'
  PROVE  Inv'
<1>1. StoresOK /\ StoresGrow /\ TypeRun /\ TypeTasks /\ SourceTreeTypeOK
  BY DEF Inv, Types, StoresGrow
<1>2. HistoryKept /\ (\A t : pc'[t] = pc[t] /\ object'[t] = object[t] /\ root'[t] = root[t])
      /\ UNCHANGED <<pc, object, hit, root, runs, near, begun, kept, cast>>
  BY ElsewhereFacts
<1>3. Types'
  <2>1. TypeTasks' /\ TypeRun'
    BY <1>1, <1>2 DEF TypeTasks, TypeRun
  <2>2. SourceTreeTypeOK'
    BY <1>1 DEF SourceTreeTypeOK, Restart, NothingResolved, Answers
  <2> QED
    BY <2>1, <2>2 DEF Types
<1>4. ASSUME NEW t \in Threads PROVE ThreadOK(t)'
  <2>1. CASE Serving(t)
    <3>1. handler'[t] = [handler[t] EXCEPT !.stage = "ERROR"]
      BY <2>1 DEF Restart
    <3> QED
      BY <1>1, <1>2, <3>1, ErrorThread
  <2>2. CASE ~Serving(t)
    <3>1. handler'[t] = handler[t]
      BY <2>2 DEF Restart
    <3>2. ThreadOK(t)
      BY DEF Inv
    <3> QED
      BY <1>1, <1>2, <2>2, <3>1, <3>2, ThreadKept
  <2> QED
    BY <2>1, <2>2
<1> QED
  BY <1>3, <1>4 DEF Inv

(* What a call of the endpoint is about.                                   *)
LEMMA CallFacts ==
  ASSUME Inv, NEW t \in Threads, Serving(t)
  PROVE  /\ handler[t].rpc \in {"commit", "archive", "distdir"} => handler[t].key \in Described
                /\ TreeOf[handler[t].key] \in Objects /\ TreeOf[handler[t].key] \in Stored
                /\ <<"tree-map", handler[t].key, TreeOf[handler[t].key]>> \in IdFiles
         /\ handler[t].rpc = "commit" => handler[t].key \in Commits
         /\ handler[t].rpc = "archive" =>
              LET tree == TreeOf[handler[t].key]
              IN /\ handler[t].key \in Archives /\ handler[t].key \in Stored /\ tree \in Linked
                 /\ Resolved[tree] \in Objects /\ <<"special-tree-map", tree, Resolved[tree]>> \in IdFiles
         /\ handler[t].rpc = "distdir" =>
              handler[t].key \in Distdirs /\ Below[TreeOf[handler[t].key]] \in SUBSET Stored
         /\ handler[t].rpc \in {"content", "tree", "check", "get"} =>
              handler[t].key \in Stored /\ handler[t].key \in Objects
         /\ handler[t].tree \in Objects \cup {"none"}
         /\ handler[t].sync \in BOOLEAN /\ handler[t].special \in BOOLEAN
         /\ handler[t].rpc \in Rpcs
<1>1. ServeAt(handler[t]) /\ handler[t].stage \in Working
  BY ServeFacts DEF Serving
<1>2. handler[t].tree \in Objects \cup {"none"} /\ handler[t].sync \in BOOLEAN /\ handler[t].special \in BOOLEAN
      /\ handler[t].rpc \in Rpcs
  BY ServeFacts
<1>3. /\ handler[t].rpc = "commit" => handler[t].key \in Commits
      /\ handler[t].rpc = "archive" => handler[t].key \in Archives
      /\ handler[t].rpc = "distdir" => handler[t].key \in Distdirs
      /\ handler[t].rpc \in {"content", "tree", "check", "get"} => handler[t].key \in Stored
  BY <1>1 DEF ServeAt
<1>4. handler[t].rpc \in {"commit", "archive", "distdir"} => handler[t].key \in Described
  BY <1>3 DEF Described
<1>5. \A x \in Described : /\ TreeOf[x] \in Objects /\ TreeOf[x] \in Stored /\ <<"tree-map", x, TreeOf[x]>> \in IdFiles
                           /\ Below[TreeOf[x]] \in SUBSET Stored
  BY ObjectFacts
<1>6. \A x \in Archives : LET tree == TreeOf[x]
        IN x \in Stored /\ tree \in Linked /\ Resolved[tree] \in Objects
           /\ <<"special-tree-map", tree, Resolved[tree]>> \in IdFiles
  BY ObjectFacts
<1> QED
  BY <1>2, <1>3, <1>4, <1>5, <1>6, ObjectFacts

(* A step of the endpoint that touches no store.                           *)
LEMMA ServeSame ==
  ASSUME Inv, Elsewhere, UNCHANGED storeVars
  PROVE  StoresOK' /\ ClientGrows /\ ServeGrows /\ (Calm' <=> Calm)
BY SameKept DEF StoresSame, Elsewhere, historyVars

LEMMA ServeSpent ==
  ASSUME Inv, Elsewhere, UNCHANGED collections
  PROVE  /\ NoTrouble => Spent /\ (Calm' <=> Calm)
         /\ Trouble => Spent /\ ~Calm'
BY NoTroubleFacts, TroubleFacts DEF Elsewhere, historyVars

(* The places of the endpoint that touch no store.                         *)
LEMMA AnswerIsError ==
  ASSUME Inv, NEW t \in Threads, Elsewhere, Ends(t, "ERROR"), StoresOK', ClientGrows, ServeGrows, ~Calm'
  PROVE  Inv'
BY SameMaps, ErrorEnds DEF Ends, Goes

LEMMA MisledKept ==
  ASSUME Inv, NEW t \in Threads, Elsewhere, Misled(t), StoresOK', ClientGrows, ServeGrows,
         resolving' \in [Linked -> {"unknown", "pending", "awaited", "ready"}]
  PROVE  Inv'
BY ErrorEnds DEF Misled, MapsGo

(* The endpoint works on after a plain step.                               *)
Went(t, stage, tree) ==
  /\ handler'[t].rpc = handler[t].rpc /\ handler'[t].key = handler[t].key /\ handler'[t].sync = handler[t].sync
  /\ handler'[t].special = handler[t].special /\ handler'[t].stage = stage /\ handler'[t].tree = tree
LEMMA WorksOn ==
  ASSUME Inv, NEW t \in Threads, Elsewhere, NEW s \in Working, NEW x \in Objects \cup {"none"},
         Goes(t, s, x), StoresOK', ClientGrows, ServeGrows,
         Found(t, s), Went(t, s, x) => ServeOK(t)'
  PROVE  Inv'
<1>1. GoesTo(t, s, x) /\ MapsGo
  BY SameMaps DEF Goes
<1>2. Went(t, s, x)
  BY <1>1, ServeFacts DEF GoesTo, Went
<1> QED
  BY <1>1, <1>2, WorkKept

LEMMA ServeCommitKept ==
  ASSUME Inv, NEW t \in Threads, ServeCommitTree(t), Elsewhere
  PROVE  Inv'
<1> DEFINE commit == handler[t].key
<1>1. /\ handler[t].stage = "begin" /\ handler[t].rpc = "commit" /\ UNCHANGED storeVars
      /\ IF Has(commit) THEN Goes(t, IF handler[t].sync THEN "sync" ELSE "OK", TreeOf[commit])
         ELSE Ends(t, "NOT_FOUND")
  BY DEF ServeCommitTree, Begins
<1>2. StoresOK' /\ ClientGrows /\ ServeGrows /\ (Calm' <=> Calm)
  BY <1>1, ServeSame
<1>3. commit \in Commits /\ TreeOf[commit] \in Objects /\ Promised(handler[t]) = TreeOf[commit]
  BY <1>1, CallFacts DEF Serving, Working, Promised
<1>4. UNCHANGED <<git, cast>>
  BY <1>1 DEF storeVars, Elsewhere
<1>5. CASE Has(commit)
  <2>1. Has(TreeOf[commit])
    <3>1. CommitsComplete /\ CastOK
      BY TaskFacts
    <3>2. 0 \in Gens0 /\ "serve" \in Repositories
      BY ContentAssumption DEF Gens0, Repositories, Hosts
    <3> QED
      BY <1>3, <1>5, <3>1, <3>2 DEF Has, InGit, CommitsComplete, CastOK
  <2>2. TreeOf[commit] \in git'["serve"][0] \/ TreeOf[commit] \in cast.known
    BY <1>4, <2>1 DEF Has, InGit
  <2>3. CASE handler[t].sync
    <3>1. Goes(t, "sync", TreeOf[commit])
      BY <1>1, <1>5, <2>3
    <3>2. Went(t, "sync", TreeOf[commit]) => ServeOK(t)'
      BY <1>1, <1>3, <1>4, <2>2 DEF Went, ServeOK, ServeAt, Has, InGit
    <3> QED
      BY <1>1, <1>2, <1>3, <3>1, <3>2, WorksOn DEF Working, Found
  <2>4. CASE ~handler[t].sync
    <3>1. Goes(t, "OK", TreeOf[commit])
      BY <1>1, <1>5, <2>4
    <3> QED
      BY <1>1, <1>2, <1>3, <2>2, <2>4, <3>1, OkKept
  <2> QED
    BY <2>3, <2>4
<1>6. CASE ~Has(commit)
  <2>1. Ends(t, "NOT_FOUND")
    BY <1>1, <1>6
  <2>2. ASSUME Calm, pc[t] \in Waits
        PROVE  NotFoundAt(t, pc[t], object[t], [handler[t] EXCEPT !.stage = "NOT_FOUND"])
    <3>1. AskedAt(t, pc[t], object[t], handler[t]) /\ Began(t)
      BY TaskFacts
    <3>2. pc[t] = "served" => Kind(t) = "git" /\ Key(t) = commit
      BY <1>1, <3>1 DEF AskedAt
    <3>3. pc[t] = "served" => near[t] # "serve"
      BY <1>6, <2>2, <3>1, <3>2 DEF Began, KnownToServe
    <3>4. pc[t] \notin {"tree_checked", "dir_checked", "dir_asked", "content_served", "checked"}
          /\ (pc[t] = "asked" => Kind(t) # "foreign file")
      BY <1>1, <3>1 DEF AskedAt
    <3> QED
      BY <3>3, <3>4 DEF NotFoundAt
  <2> QED
    BY <1>1, <1>2, <2>1, <2>2, NotFoundEnds
<1> QED
  BY <1>5, <1>6

LEMMA SyncKept ==
  ASSUME Inv, NEW t \in Threads, Sync(t), Elsewhere
  PROVE  Inv'
<1>1. handler[t].stage = "sync" /\ UNCHANGED <<git, ids, cas, distdir, collections>>
  BY DEF Sync, At
<1>2. /\ handler[t].rpc \in {"commit", "distdir", "content", "tree"}
      /\ handler[t].tree = Promised(handler[t])
      /\ Has(handler[t].tree) \/ handler[t].rpc \in {"content", "tree"}
  BY <1>1, ServeFacts DEF ServeAt, Working, Promised
<1>3. handler[t].tree \in Stored
  BY <1>1, <1>2, CallFacts DEF Promised, Serving, Working
<1>4. StoresOK /\ handler[t].tree \in Objects /\ WithBelow(handler[t].tree) \in SUBSET Stored /\ cast' = cast
  BY <1>3, TaskFacts, ObjectFacts DEF Elsewhere
<1>5. CASE ToRemote(handler[t].tree) /\ Ends(t, "OK") /\ NoTrouble
  <2>1. StoresOK' /\ ClientGrows /\ ServeGrows
    BY <1>1, <1>4, <1>5, ServeSpent, RemoteGrows DEF ToRemote
  <2>2. handler[t].tree \in remote'
    BY <1>5 DEF ToRemote, WithBelow
  <2> QED
    BY <1>1, <1>2, <1>4, <1>5, <2>1, <2>2, OkKept DEF Ends, Has, InGit
<1>6. CASE Trouble /\ Ends(t, "ERROR") /\ UNCHANGED remote
  <2>1. StoresOK' /\ ClientGrows /\ ServeGrows /\ ~Calm'
    BY <1>1, <1>4, <1>6, ServeSpent, NothingStored
  <2> QED
    BY <1>6, <2>1, AnswerIsError
<1> QED
  BY <1>5, <1>6 DEF Sync

(* Archives at the endpoint.                                               *)
LEMMA ServeArchiveKept ==
  ASSUME Inv, NEW t \in Threads, Elsewhere,
         \/ ServeArchiveTree(t) \/ FindArchive(t) \/ RetrieveArchive(t) \/ ArchiveImportToGit(t) \/ WriteArchiveId(t)
  PROVE  Inv'
<1> DEFINE archive == handler[t].key
           tree == TreeOf[archive]
<1>1. /\ StoresOK /\ AskedAt(t, pc[t], object[t], handler[t]) /\ AskingAt(t, pc[t], object[t], handler[t])
      /\ Began(t) /\ cast' = cast /\ "serve" \in Hosts /\ "serve" \in Repositories
  BY TaskFacts DEF Hosts, Repositories, Elsewhere
<1>2. pc[t] = "served" /\ Kind(t) = "archive" => archive = Key(t) /\ pc[t] \notin {"idle", "done"}
  BY <1>1 DEF AskedAt
<1>3. ASSUME ServeArchiveTree(t) PROVE Inv'
  <2>1. handler[t].stage = "begin" /\ handler[t].rpc = "archive" /\ UNCHANGED storeVars
    BY <1>3 DEF ServeArchiveTree, Begins
  <2>2. StoresOK' /\ ClientGrows /\ ServeGrows /\ (Calm' <=> Calm)
    BY <2>1, ServeSame
  <2>3. archive \in Archives /\ tree \in Objects /\ handler[t].tree \in Objects \cup {"none"}
    BY <2>1, CallFacts DEF Serving, Working
  <2>4. CASE ~IdFile("serve", 0, "tree-map", archive)
    <3>1. Goes(t, "find", handler[t].tree)
      BY <1>3, <2>4 DEF ServeArchiveTree, Ends
    <3>2. Found(t, "find")
      BY <1>1, <1>2, <2>2, <2>4 DEF Found, Began, KnownToServe
    <3>3. Went(t, "find", handler[t].tree) => ServeOK(t)'
      BY <2>1, <2>3 DEF Went, ServeOK, ServeAt
    <3> QED
      BY <2>2, <2>3, <3>1, <3>2, <3>3, WorksOn DEF Working
  <2>5. CASE IdFile("serve", 0, "tree-map", archive)
    <3>1. IdOf("serve", 0, "tree-map", archive) = tree /\ InGit("serve", tree)
      BY <1>1, <2>5, KnownTree
    <3>2. Goes(t, "resolve", tree)
      BY <1>3, <2>5, <3>1 DEF ServeArchiveTree, Has
    <3>3. Went(t, "resolve", tree) => ServeOK(t)'
      BY <2>1, <2>3, <3>1 DEF Went, ServeOK, ServeAt, Has, InGit, storeVars
    <3> QED
      BY <2>2, <2>3, <3>2, <3>3, WorksOn DEF Working, Found
  <2> QED
    BY <2>4, <2>5
<1>4. ASSUME FindArchive(t) PROVE Inv'
  <2>1. handler[t].stage = "find" /\ UNCHANGED <<git, ids, remote, trouble, distdir, collections>>
    BY <1>4 DEF FindArchive, At
  <2>2. handler[t].rpc = "archive"
    BY <2>1, ServeFacts DEF ServeAt, Working
  <2>3. archive \in Archives /\ archive \in Stored /\ handler[t].tree \in Objects \cup {"none"}
    BY <2>1, <2>2, CallFacts DEF Serving, Working
  <2>4. Spent /\ (Calm' <=> Calm)
    BY <2>1, ServeSpent DEF NoTrouble
  <2>5. ToCas("serve", archive) => StoresOK' /\ ClientGrows /\ ServeGrows
    <3>1. WithBelow(archive) \in SUBSET Stored
      BY <2>3, WholeObjects
    <3>2. CASE ToCas("serve", archive)
      BY <1>1, <2>1, <2>4, <3>1, <3>2, CasGrows DEF ToCas
    <3> QED
      BY <3>2
  <2>6. CASE ToCas("serve", archive) /\ Ends(t, "import")
    <3>1. Went(t, "import", handler[t].tree) => ServeOK(t)'
      BY <2>2, <2>3 DEF Went, ServeOK, ServeAt
    <3> QED
      BY <2>3, <2>5, <2>6, <3>1, WorksOn DEF Working, Found, Ends
  <2>7. CASE archive \notin cas["serve"] /\ ~Has(archive) /\ UNCHANGED cas /\ Ends(t, "retrieve")
    <3>1. StoresOK' /\ ClientGrows /\ ServeGrows
      BY <1>1, <2>1, <2>4, <2>7, NothingStored
    <3>2. Found(t, "retrieve")
      BY <1>1, <1>2, <2>1, <2>4, <2>7 DEF Found, AskingAt, ServeFinds
    <3>3. Went(t, "retrieve", handler[t].tree) => ServeOK(t)'
      BY <2>2, <2>3 DEF Went, ServeOK, ServeAt
    <3> QED
      BY <2>3, <2>7, <3>1, <3>2, <3>3, WorksOn DEF Working, Ends
  <2>8. CASE ToCas("serve", archive) /\ Crash
    BY <2>5, <2>8, RestartKept DEF Crash
  <2>9. CASE ToCas("serve", archive) /\ Misled(t) /\ UNCHANGED resolving
    <3>1. SourceTreeTypeOK
      BY TaskFacts
    <3> QED
      BY <2>5, <2>9, <3>1, MisledKept DEF SourceTreeTypeOK
  <2> QED
    BY <1>4, <2>6, <2>7, <2>8, <2>9 DEF FindArchive
<1>5. ASSUME RetrieveArchive(t) PROVE Inv'
  <2>1. handler[t].stage = "retrieve" /\ UNCHANGED <<git, ids, remote, distdir, collections>>
    BY <1>5 DEF RetrieveArchive, At
  <2>2. handler[t].rpc = "archive"
    BY <2>1, ServeFacts DEF ServeAt, Working
  <2>3. archive \in Archives /\ archive \in Stored /\ handler[t].tree \in Objects \cup {"none"}
    BY <2>1, <2>2, CallFacts DEF Serving, Working
  <2>4. CASE ToCas("serve", archive) /\ Ends(t, "import") /\ NoTrouble
    <3>1. StoresOK' /\ ClientGrows /\ ServeGrows
      BY <1>1, <2>1, <2>3, <2>4, ServeSpent, WholeObjects, CasGrows DEF ToCas
    <3>2. Went(t, "import", handler[t].tree) => ServeOK(t)'
      BY <2>2, <2>3 DEF Went, ServeOK, ServeAt
    <3> QED
      BY <2>3, <2>4, <3>1, <3>2, WorksOn DEF Working, Found, Ends
  <2>5. CASE (IF archive \in remote THEN Trouble ELSE NoTrouble) /\ Ends(t, "NOT_FOUND") /\ UNCHANGED cas
    <3>1. Spent /\ (Calm' => Calm /\ archive \notin remote)
      BY <2>1, <2>5, ServeSpent
    <3>2. StoresOK' /\ ClientGrows /\ ServeGrows
      BY <1>1, <2>1, <2>5, <3>1, NothingStored
    <3>3. ASSUME Calm', pc[t] \in Waits
          PROVE  NotFoundAt(t, pc[t], object[t], [handler[t] EXCEPT !.stage = "NOT_FOUND"])
      <4>1. pc[t] = "served" => Kind(t) = "archive" /\ Key(t) = archive
        BY <1>1, <2>2 DEF AskedAt
      <4>2. pc[t] = "served" => near[t] # "serve"
        BY <1>1, <2>1, <3>1, <3>3, <4>1 DEF AskingAt
      <4>3. pc[t] \notin {"tree_checked", "dir_checked", "dir_asked", "content_served", "checked"}
            /\ (pc[t] = "asked" => Kind(t) # "foreign file")
        BY <1>1, <2>2 DEF AskedAt
      <4> QED
        BY <4>2, <4>3 DEF NotFoundAt
    <3> QED
      BY <2>2, <2>5, <3>2, <3>3, NotFoundEnds
  <2> QED
    BY <1>5, <2>4, <2>5 DEF RetrieveArchive
<1>6. ASSUME ArchiveImportToGit(t) PROVE Inv'
  <2>1. handler[t].stage = "import" /\ UNCHANGED <<ids, cas, remote, trouble, distdir, collections>>
        /\ ToGit("serve", tree) /\ Goes(t, "write", tree)
    BY <1>6 DEF ArchiveImportToGit, At
  <2>2. handler[t].rpc = "archive"
    BY <2>1, ServeFacts DEF ServeAt, Working
  <2>3. archive \in Archives /\ tree \in Objects
    BY <2>1, <2>2, CallFacts DEF Serving, Working
  <2>4. StoresOK' /\ ClientGrows /\ ServeGrows /\ tree \in git'["serve"][0]
    BY <1>1, <2>1, <2>3, ServeSpent, GitGrows, ObjectFacts DEF NoTrouble
  <2>5. Went(t, "write", tree) => ServeOK(t)'
    BY <2>2, <2>3, <2>4 DEF Went, ServeOK, ServeAt, InGit
  <2> QED
    BY <2>1, <2>3, <2>4, <2>5, WorksOn DEF Working, Found
<1>7. ASSUME WriteArchiveId(t) PROVE Inv'
  <2>1. handler[t].stage = "write" /\ UNCHANGED <<git, cas, remote, trouble, distdir, collections>>
        /\ WriteTreeIDFile("serve", "tree-map", archive, handler[t].tree) /\ Ends(t, "resolve")
    BY <1>7 DEF WriteArchiveId, At
  <2>2. handler[t].rpc = "archive" /\ handler[t].tree = tree /\ InGit("serve", tree)
    BY <2>1, ServeFacts DEF ServeAt, Working
  <2>3. archive \in Archives /\ tree \in Objects /\ <<"tree-map", archive, tree>> \in IdFiles
    BY <2>1, <2>2, CallFacts DEF Serving, Working
  <2>4. StoresOK' /\ ClientGrows /\ ServeGrows
    BY <1>1, <2>1, <2>2, <2>3, ServeSpent, IdsGrow DEF NoTrouble
  <2>5. Went(t, "resolve", tree) => ServeOK(t)'
    BY <2>1, <2>2, <2>3 DEF Went, ServeOK, ServeAt, Has, InGit
  <2> QED
    BY <2>1, <2>2, <2>3, <2>4, <2>5, WorksOn DEF Working, Found, Ends
<1> QED
  BY <1>3, <1>4, <1>5, <1>6, <1>7

LEMMA ServeResolvedKept ==
  ASSUME Inv, NEW t \in Threads, Elsewhere, ResolveContentTree(t) \/ ResolveTree(t) \/ WriteResolvedId(t)
  PROVE  Inv'
<1> DEFINE tree == TreeOf[handler[t].key]
<1>1. /\ StoresOK /\ SourceTreeTypeOK /\ cast' = cast /\ "serve" \in Hosts /\ "serve" \in Repositories
  BY TaskFacts DEF Hosts, Repositories, Elsewhere
<1>2. ASSUME handler[t].stage \in {"resolve", "resolving", "keep"}
      PROVE  /\ handler[t].rpc = "archive" /\ handler[t].key \in Archives
             /\ tree \in Linked /\ tree \in Objects /\ Resolved[tree] \in Objects
             /\ <<"special-tree-map", tree, Resolved[tree]>> \in IdFiles /\ handler[t].special \in BOOLEAN
             /\ Promised(handler[t]) = IF handler[t].special THEN Resolved[tree] ELSE tree
  <2>1. handler[t].rpc = "archive" /\ Serving(t)
    BY <1>2, ServeFacts DEF ServeAt, Working, Serving
  <2> QED
    BY <2>1, CallFacts DEF Promised
<1>3. ASSUME ResolveContentTree(t) PROVE Inv'
  <2>1. handler[t].stage = "resolve" /\ UNCHANGED storeVars
    BY <1>3 DEF ResolveContentTree, At
  <2>2. handler[t].tree = tree /\ Has(tree)
    BY <2>1, ServeFacts DEF ServeAt, Working
  <2>3. StoresOK' /\ ClientGrows /\ ServeGrows /\ git' = git
    BY <2>1, ServeSame DEF storeVars
  <2>4. CASE ~handler[t].special /\ Ends(t, "OK")
    BY <1>1, <1>2, <2>1, <2>2, <2>3, <2>4, OkKept DEF Ends, Has, InGit
  <2>5. CASE /\ handler[t].special /\ IdFile("serve", 0, "special-tree-map", tree)
             /\ Goes(t, "OK", IdOf("serve", 0, "special-tree-map", tree))
    <3>1. IdOf("serve", 0, "special-tree-map", tree) = Resolved[tree] /\ InGit("serve", Resolved[tree])
      BY <1>1, <2>5, KnownTree
    <3>2. Goes(t, "OK", Resolved[tree]) /\ Resolved[tree] \in git'["serve"][0]
      BY <2>3, <2>5, <3>1 DEF InGit
    <3> QED
      BY <1>2, <2>1, <2>3, <2>5, <3>2, OkKept
  <2>6. CASE /\ handler[t].special /\ GoesTo(t, "resolving", tree)
             /\ resolving' = [resolving EXCEPT ![tree] = "pending"] /\ UNCHANGED astray
    <3>1. MapsGo
      BY <1>1, <2>6 DEF MapsGo, SourceTreeTypeOK
    <3>2. Went(t, "resolving", tree)
      BY <2>6, ServeFacts DEF Went, GoesTo
    <3>3. ServeOK(t)'
      BY <1>2, <2>1, <2>6, <3>2 DEF Went, ServeOK, ServeAt
    <3> QED
      BY <1>2, <2>1, <2>3, <2>6, <3>1, <3>3, WorkKept DEF Working, Found
  <2>7. CASE handler[t].special /\ Goes(t, "keep", Resolved[tree])
    <3>1. Went(t, "keep", Resolved[tree]) => ServeOK(t)'
      BY <1>2, <2>1, <2>7 DEF Went, ServeOK, ServeAt
    <3> QED
      BY <1>2, <2>1, <2>3, <2>7, <3>1, WorksOn DEF Working, Found
  <2>8. CASE Misled(t) /\ resolving' = [resolving EXCEPT ![tree] = "awaited"]
    BY <1>1, <2>3, <2>8, MisledKept DEF SourceTreeTypeOK
  <2> QED
    BY <1>3, <2>2, <2>4, <2>5, <2>6, <2>7, <2>8 DEF ResolveContentTree
<1>4. ASSUME ResolveTree(t) PROVE Inv'
  <2>1. handler[t].stage = "resolving" /\ UNCHANGED <<ids, cas, remote, trouble, distdir, collections>>
    BY <1>4 DEF ResolveTree, At
  <2>2. handler[t].tree = tree /\ handler[t].special
    BY <2>1, ServeFacts DEF ServeAt, Working
  <2>3. ToGit("serve", Resolved[tree])
    BY <1>4, <2>2 DEF ResolveTree
  <2>4. StoresOK' /\ ClientGrows /\ ServeGrows
    BY <1>1, <1>2, <2>1, <2>3, ServeSpent, GitGrows DEF NoTrouble
  <2>5. CASE /\ GoesTo(t, "keep", Resolved[tree]) /\ UNCHANGED astray
             /\ resolving' = [resolving EXCEPT ![tree] = "ready"]
    <3>1. MapsGo
      BY <1>1, <2>5 DEF MapsGo, SourceTreeTypeOK
    <3>2. Went(t, "keep", Resolved[tree])
      BY <2>5, ServeFacts DEF Went, GoesTo
    <3>3. ServeOK(t)'
      BY <1>2, <2>1, <2>2, <3>2 DEF Went, ServeOK, ServeAt
    <3> QED
      BY <1>2, <2>1, <2>4, <2>5, <3>1, <3>3, WorkKept DEF Working, Found
  <2>6. CASE Crash
    BY <2>4, <2>6, RestartKept DEF Crash
  <2> QED
    BY <1>4, <2>2, <2>5, <2>6 DEF ResolveTree
<1>5. ASSUME WriteResolvedId(t) PROVE Inv'
  <2>1. handler[t].stage = "keep" /\ UNCHANGED <<git, cas, remote, trouble, distdir, collections>>
    BY <1>5 DEF WriteResolvedId, At
  <2>2. handler[t].tree = Resolved[tree] /\ handler[t].special
    BY <2>1, ServeFacts DEF ServeAt, Working
  <2>3. CASE /\ InGit("serve", handler[t].tree) /\ Ends(t, "OK")
             /\ WriteTreeIDFile("serve", "special-tree-map", tree, handler[t].tree)
    <3>1. StoresOK' /\ ClientGrows /\ ServeGrows
      BY <1>1, <1>2, <2>1, <2>2, <2>3, ServeSpent, IdsGrow DEF NoTrouble
    <3>2. Resolved[tree] \in git'["serve"][0] /\ Goes(t, "OK", Resolved[tree])
      BY <2>1, <2>2, <2>3 DEF InGit, Ends
    <3> QED
      BY <1>2, <2>1, <2>2, <3>1, <3>2, OkKept
  <2>4. CASE Misled(t) /\ UNCHANGED <<resolving, ids>>
    <3>1. StoresOK' /\ ClientGrows /\ ServeGrows
      BY <1>1, <2>1, <2>4, ServeSpent, NothingStored DEF NoTrouble
    <3> QED
      BY <1>1, <2>4, <3>1, MisledKept DEF SourceTreeTypeOK
  <2> QED
    BY <1>5, <2>3, <2>4 DEF WriteResolvedId
<1> QED
  BY <1>3, <1>4, <1>5

(* Distdirs at the endpoint.                                               *)
LEMMA ServeDistdirKept ==
  ASSUME Inv, NEW t \in Threads, Elsewhere, ServeDistdirTree(t) \/ StoreDistdirTree(t) \/ DistdirImportToGit(t)
  PROVE  Inv'
<1> DEFINE dir == TreeOf[handler[t].key]
<1>1. /\ StoresOK /\ AskedAt(t, pc[t], object[t], handler[t]) /\ AskingAt(t, pc[t], object[t], handler[t])
      /\ IsFor(t, pc[t]) /\ cast' = cast /\ "serve" \in Hosts /\ "serve" \in Repositories
  BY TaskFacts DEF Hosts, Repositories, Elsewhere
<1>2. ASSUME handler[t].stage \in Working, handler[t].rpc = "distdir"
      PROVE  /\ handler[t].key \in Distdirs /\ dir \in Objects /\ dir \in Stored /\ Below[dir] \in SUBSET Stored
             /\ WithBelow(dir) \in SUBSET Stored /\ Promised(handler[t]) = dir
             /\ handler[t].tree \in Objects \cup {"none"}
  BY <1>2, CallFacts, ObjectFacts DEF Serving, Promised
<1>3. ASSUME ServeDistdirTree(t) PROVE Inv'
  <2>1. handler[t].stage = "begin" /\ handler[t].rpc = "distdir" /\ UNCHANGED <<git, ids, remote, distdir, collections>>
    BY <1>3 DEF ServeDistdirTree, Begins
  <2>2. handler[t].key \in Distdirs /\ dir \in Objects /\ Below[dir] \in SUBSET Stored
    BY <1>2, <2>1 DEF Working
  <2> DEFINE local == {o \in Below[dir] : o \in cas["serve"] \/ Has(o)}
  <2>3. CASE /\ cas' = [cas EXCEPT !["serve"] = @ \cup Below[dir]]
             /\ Goes(t, "list", dir) /\ NoTrouble
    <3>1. StoresOK' /\ ClientGrows /\ ServeGrows
      BY <1>1, <2>1, <2>2, <2>3, ServeSpent, CasGrows
    <3>2. Went(t, "list", dir) => ServeOK(t)'
      BY <2>1, <2>2 DEF Went, ServeOK, ServeAt
    <3> QED
      BY <2>2, <2>3, <3>1, <3>2, WorksOn DEF Working, Found
  <2>4. CASE ~(Below[dir] \subseteq local \cup remote) /\ Ends(t, "NOT_FOUND") /\ UNCHANGED <<cas, trouble>>
    <3>1. StoresOK' /\ ClientGrows /\ ServeGrows /\ (Calm' <=> Calm)
      BY <2>1, <2>4, ServeSame DEF storeVars
    <3>2. ASSUME Calm', pc[t] \in Waits
          PROVE  NotFoundAt(t, pc[t], object[t], [handler[t] EXCEPT !.stage = "NOT_FOUND"])
      <4>1. pc[t] \in {"asked", "dir_asked"} => Key(t) = handler[t].key /\ Absent(t)
        BY <1>1 DEF AskedAt, IsFor
      <4>2. Kind(t) \in {"distdir", "foreign file"} /\ pc[t] \in {"asked", "dir_asked"} => ~AllFound(t)
        BY <2>4, <4>1 DEF AllFound, Contents, HasContents, ServeFinds
      <4>3. /\ pc[t] = "asked" /\ Kind(t) = "foreign file" => near[t] # "serve"
            /\ pc[t] = "dir_asked" /\ near[t] = "serve" => Dir(t) \in remote
        BY <1>1, <3>1, <3>2, <4>2 DEF AskingAt, AskedAt
      <4>4. pc[t] \notin {"served", "tree_checked", "dir_checked", "content_served", "checked"}
        BY <1>1, <2>1 DEF AskedAt
      <4> QED
        BY <4>3, <4>4 DEF NotFoundAt
    <3> QED
      BY <2>1, <2>4, <3>1, <3>2, NotFoundEnds
  <2>5. CASE Trouble /\ Ends(t, "ERROR") /\ UNCHANGED cas
    <3>1. StoresOK' /\ ClientGrows /\ ServeGrows /\ ~Calm'
      BY <1>1, <2>1, <2>5, ServeSpent, NothingStored
    <3> QED
      BY <2>5, <3>1, AnswerIsError
  <2> QED
    BY <1>3, <2>3, <2>4, <2>5 DEF ServeDistdirTree
<1>4. ASSUME StoreDistdirTree(t) PROVE Inv'
  <2>1. handler[t].stage = "list" /\ UNCHANGED <<git, ids, remote, trouble, distdir, collections>>
    BY <1>4 DEF StoreDistdirTree, At
  <2>2. handler[t].rpc = "distdir" /\ handler[t].tree = dir
    BY <2>1, ServeFacts DEF ServeAt, Working
  <2>3. handler[t].key \in Distdirs /\ dir \in Objects /\ WithBelow(dir) \in SUBSET Stored /\ Promised(handler[t]) = dir
    BY <1>2, <2>1, <2>2 DEF Working
  <2>4. StoresOK' /\ ClientGrows /\ ServeGrows
    <3>1. cas' = [cas EXCEPT !["serve"] = @ \cup WithBelow(dir)]
      BY <1>4, <2>2 DEF StoreDistdirTree, ToCas
    <3>2. Spent
      BY <2>1, ServeSpent DEF NoTrouble
    <3> QED
      BY <1>1, <2>1, <2>3, <3>1, <3>2, CasGrows
  <2>5. CASE ~Has(dir) /\ Goes(t, "link", dir)
    <3>1. Went(t, "link", dir) => ServeOK(t)'
      BY <2>2, <2>3 DEF Went, ServeOK, ServeAt
    <3> QED
      BY <2>3, <2>4, <2>5, <3>1, WorksOn DEF Working, Found
  <2>6. CASE Has(dir) /\ Goes(t, "sync", dir)
    <3>1. Went(t, "sync", dir) => ServeOK(t)'
      BY <1>1, <2>1, <2>2, <2>3, <2>6 DEF Went, ServeOK, ServeAt, Has, InGit
    <3> QED
      BY <2>3, <2>4, <2>6, <3>1, WorksOn DEF Working, Found
  <2>7. CASE Has(dir) /\ Goes(t, "OK", dir)
    <3>1. dir \in git'["serve"][0] \/ dir \in cast.known
      BY <2>1, <2>7 DEF Has, InGit
    <3> QED
      BY <2>2, <2>3, <2>4, <2>7, <3>1, OkKept
  <2> QED
    BY <1>4, <2>2, <2>5, <2>6, <2>7 DEF StoreDistdirTree, Ends
<1>5. ASSUME DistdirImportToGit(t) PROVE Inv'
  <2>1. handler[t].stage = "link" /\ UNCHANGED <<ids, cas, remote, trouble, distdir, collections>>
    BY <1>5 DEF DistdirImportToGit, At
  <2>2. handler[t].rpc = "distdir" /\ handler[t].tree = dir
    BY <2>1, ServeFacts DEF ServeAt, Working
  <2>3. handler[t].key \in Distdirs /\ dir \in Objects /\ Promised(handler[t]) = dir
    BY <1>2, <2>1, <2>2 DEF Working
  <2>4. StoresOK' /\ ClientGrows /\ ServeGrows /\ dir \in git'["serve"][0]
    <3>1. ToGit("serve", dir) /\ Spent
      BY <1>5, <2>1, <2>2, ServeSpent DEF DistdirImportToGit, NoTrouble
    <3> QED
      BY <1>1, <2>1, <2>3, <3>1, GitGrows, ObjectFacts
  <2>5. CASE Goes(t, "sync", dir)
    <3>1. Went(t, "sync", dir) => ServeOK(t)'
      BY <2>2, <2>3, <2>4 DEF Went, ServeOK, ServeAt, Has, InGit
    <3> QED
      BY <2>3, <2>4, <2>5, <3>1, WorksOn DEF Working, Found
  <2>6. CASE Goes(t, "OK", dir)
    BY <2>2, <2>3, <2>4, <2>6, OkKept
  <2> QED
    BY <1>5, <2>2, <2>5, <2>6 DEF DistdirImportToGit, Ends
<1> QED
  BY <1>3, <1>4, <1>5

(* Contents and trees for the remote CAS; and root trees.                  *)
LEMMA SuppliesKept ==
  ASSUME Inv, NEW t \in Threads, Elsewhere, ServeContent(t) \/ ServeTree(t)
  PROVE  Inv'
<1> DEFINE o == handler[t].key
<1>1. handler[t].stage = "begin" /\ handler[t].rpc \in {"content", "tree"} /\ Supplies(t) /\ UNCHANGED storeVars
  BY DEF ServeContent, ServeTree, Begins
<1>2. StoresOK' /\ ClientGrows /\ ServeGrows /\ (Calm' <=> Calm)
  BY <1>1, ServeSame
<1>3. o \in Stored /\ o \in Objects
  BY <1>1, CallFacts DEF Serving, Working
<1>4. CASE Goes(t, "sync", o)
  <2>1. Went(t, "sync", o) => ServeOK(t)'
    BY <1>1, <1>3 DEF Went, ServeOK, ServeAt
  <2> QED
    BY <1>2, <1>3, <1>4, <2>1, WorksOn DEF Working, Found
<1>5. CASE ~Has(o) /\ o \notin cas["serve"] /\ Ends(t, "NOT_FOUND")
  <2>1. ASSUME Calm', pc[t] \in Waits
        PROVE  NotFoundAt(t, pc[t], object[t], [handler[t] EXCEPT !.stage = "NOT_FOUND"])
    <3>1. AskedAt(t, pc[t], object[t], handler[t]) /\ AskingAt(t, pc[t], object[t], handler[t])
      BY TaskFacts
    <3>2. pc[t] = "content_served"
      BY <1>1, <2>1, <3>1 DEF AskedAt, Waits
    <3>3. object[t] = o
      BY <3>1, <3>2 DEF AskedAt
    <3>4. near[t] # "nowhere" => InReach(t, object[t])
      BY <1>2, <1>5, <2>1, <3>1, <3>2, <3>3 DEF AskingAt, Offered, ServeFinds, InReach
    <3> QED
      BY <3>2, <3>4 DEF NotFoundAt
  <2> QED
    BY <1>1, <1>2, <1>5, <2>1, NotFoundEnds
<1> QED
  BY <1>1, <1>4, <1>5 DEF Supplies

LEMMA CheckKept ==
  ASSUME Inv, NEW t \in Threads, Elsewhere, CheckRootTree(t)
  PROVE  Inv'
<1> DEFINE tree == handler[t].key
<1>1. /\ handler[t].stage = "begin" /\ handler[t].rpc = "check"
      /\ UNCHANGED <<ids, cas, remote, trouble, distdir, collections>>
  BY DEF CheckRootTree, Begins
<1>2. tree \in Stored /\ tree \in Objects /\ Promised(handler[t]) = tree /\ handler[t].tree \in Objects \cup {"none"}
  BY <1>1, CallFacts DEF Serving, Working, Promised
<1>3. /\ StoresOK /\ Spent /\ (Calm' <=> Calm) /\ cast' = cast
      /\ "serve" \in Repositories
  BY <1>1, TaskFacts, ServeSpent DEF NoTrouble, Elsewhere, Repositories, Hosts
<1>4. UNCHANGED git => StoresOK' /\ ClientGrows /\ ServeGrows
  BY <1>1, <1>3, NothingStored
<1>5. CASE Has(tree) /\ Ends(t, "OK") /\ UNCHANGED git
  BY <1>1, <1>2, <1>4, <1>5, OkKept DEF Ends, Has, InGit
<1>6. CASE ToGit("serve", tree) /\ Ends(t, "OK")
  <2>1. StoresOK' /\ ClientGrows /\ ServeGrows /\ tree \in git'["serve"][0]
    BY <1>1, <1>2, <1>3, <1>6, GitGrows, ObjectFacts
  <2> QED
    BY <1>1, <1>2, <1>6, <2>1, OkKept DEF Ends
<1>7. CASE ~Has(tree) /\ tree \notin cas["serve"] /\ Ends(t, "NOT_FOUND") /\ UNCHANGED git
  <2>1. ASSUME Calm', pc[t] \in Waits
        PROVE  NotFoundAt(t, pc[t], object[t], [handler[t] EXCEPT !.stage = "NOT_FOUND"])
    <3>1. AskedAt(t, pc[t], object[t], handler[t]) /\ Began(t) /\ pc[t] \notin {"idle", "done"} /\ Calm /\ CastOK
      BY <1>3, <2>1, TaskFacts DEF Waits
    <3>2. pc[t] \in {"checked", "tree_checked", "dir_checked"} /\ tree = Wanted(t)
      BY <1>1, <2>1, <3>1 DEF AskedAt, Waits
    <3>3. near[t] = "serve" => KnownToServe(t)
      BY <3>1 DEF Began
    <3>4. pc[t] = "tree_checked" /\ near[t] = "serve" => Key(t) \in remote
      <4>1. pc[t] = "tree_checked" => Kind(t) = "git tree" /\ Key(t) = tree
        BY <3>1, <3>2, RootFacts DEF AskedAt, Wanted
      <4> QED
        BY <1>7, <3>3, <4>1 DEF KnownToServe, ServeFinds
    <3>5. Kind(t) \in {"distdir", "foreign file"} => tree = TreeOf[Key(t)]
      BY <3>1, <3>2, RootFacts DEF Wanted
    <3>6. pc[t] = "dir_checked" /\ near[t] = "serve" => AllFound(t) \/ Dir(t) \in remote
      <4>1. pc[t] = "dir_checked" => Kind(t) = "distdir" /\ Dir(t) = tree
        BY <3>1, <3>5 DEF AskedAt, Dir
      <4> QED
        BY <1>7, <3>3, <4>1 DEF KnownToServe, ServeFinds
    <3>7. Kind(t) = "foreign file" /\ near[t] = "serve" => AllFound(t)
      BY <1>7, <3>3, <3>5 DEF KnownToServe, FileTree
    <3> QED
      BY <3>2, <3>4, <3>6, <3>7 DEF NotFoundAt
  <2> QED
    BY <1>1, <1>4, <1>7, <2>1, NotFoundEnds
<1> QED
  BY <1>5, <1>6, <1>7 DEF CheckRootTree

LEMMA GetKept ==
  ASSUME Inv, NEW t \in Threads, Elsewhere, GetRemoteTree(t) \/ ImportRemoteTree(t)
  PROVE  Inv'
<1> DEFINE tree == handler[t].key
<1>1. /\ StoresOK /\ cast' = cast /\ "serve" \in Repositories /\ "serve" \in Hosts
  BY TaskFacts DEF Elsewhere, Repositories, Hosts
<1>2. ASSUME handler[t].stage \in Working, handler[t].rpc = "get"
      PROVE  /\ tree \in Objects /\ WithBelow(tree) \in SUBSET Stored /\ Promised(handler[t]) = tree
             /\ handler[t].tree \in Objects \cup {"none"}
  BY <1>2, CallFacts, ObjectFacts DEF Serving, Promised
<1>3. ASSUME GetRemoteTree(t) PROVE Inv'
  <2>1. handler[t].stage = "begin" /\ handler[t].rpc = "get" /\ UNCHANGED <<git, ids, remote, distdir, collections>>
    BY <1>3 DEF GetRemoteTree, Begins
  <2>2. tree \in Objects /\ WithBelow(tree) \in SUBSET Stored /\ handler[t].tree \in Objects \cup {"none"}
    BY <1>2, <2>1 DEF Working
  <2>3. CASE ToCas("serve", tree) /\ Ends(t, "got") /\ NoTrouble
    <3>1. StoresOK' /\ ClientGrows /\ ServeGrows
      BY <1>1, <2>1, <2>2, <2>3, ServeSpent, CasGrows DEF ToCas
    <3>2. Went(t, "got", handler[t].tree) => ServeOK(t)'
      BY <2>1, CallFacts DEF Went, ServeOK, ServeAt, Serving, Working
    <3> QED
      BY <2>2, <2>3, <3>1, <3>2, WorksOn DEF Working, Found, Ends
  <2>4. CASE Trouble /\ Ends(t, "ERROR") /\ UNCHANGED cas
    <3>1. StoresOK' /\ ClientGrows /\ ServeGrows /\ ~Calm'
      BY <1>1, <2>1, <2>4, ServeSpent, NothingStored
    <3> QED
      BY <2>4, <3>1, AnswerIsError
  <2>5. CASE tree \notin remote /\ Ends(t, "ERROR") /\ UNCHANGED <<cas, trouble>>
    <3>1. StoresOK' /\ ClientGrows /\ ServeGrows /\ (Calm' <=> Calm)
      BY <2>1, <2>5, ServeSame DEF storeVars
    <3>2. pc[t] \in Waits => ~Calm'
      BY <2>1, <2>5, <3>1, TaskFacts DEF RepliedAt
    <3> QED
      BY <2>5, <3>1, <3>2, SameMaps, ErrorEnds DEF Ends, Goes
  <2> QED
    BY <1>3, <2>3, <2>4, <2>5 DEF GetRemoteTree
<1>4. ASSUME ImportRemoteTree(t) PROVE Inv'
  <2>1. handler[t].stage = "got" /\ UNCHANGED <<ids, cas, remote, trouble, distdir, collections>>
        /\ ToGit("serve", tree) /\ Goes(t, "OK", handler[t].tree)
    BY <1>4 DEF ImportRemoteTree, At, Ends
  <2>2. handler[t].rpc = "get"
    BY <2>1, ServeFacts DEF ServeAt, Working
  <2>3. tree \in Objects /\ Promised(handler[t]) = tree /\ handler[t].tree \in Objects \cup {"none"}
    BY <1>2, <2>1, <2>2 DEF Working
  <2>4. StoresOK' /\ ClientGrows /\ ServeGrows /\ tree \in git'["serve"][0]
    BY <1>1, <2>1, <2>3, ServeSpent, GitGrows, ObjectFacts DEF NoTrouble
  <2> QED
    BY <2>1, <2>2, <2>3, <2>4, OkKept
<1> QED
  BY <1>3, <1>4

(* The serve endpoint keeps the invariant,                                 *)
LEMMA ServesKept ==
  ASSUME Inv, NEW t \in Threads, Serve(t), Elsewhere
  PROVE  Inv'
BY ServeCommitKept, SyncKept, ServeArchiveKept, ServeResolvedKept, ServeDistdirKept, SuppliesKept, CheckKept, GetKept
   DEF Serve

(* also when it is killed.                                                 *)
LEMMA ServeKilledKept ==
  ASSUME Inv, ServeKilled, Elsewhere
  PROVE  Inv'
<1>1. Trouble /\ Restart /\ UNCHANGED <<git, ids, cas, remote, distdir, collections, astray>>
  BY DEF ServeKilled
<1>2. StoresOK' /\ ClientGrows /\ ServeGrows /\ ~Calm'
  BY <1>1, ServeSpent, NothingStored DEF Inv
<1>3. astray' \in BOOLEAN
  BY <1>1 DEF Inv, Types, SourceTreeTypeOK
<1> QED
  BY <1>1, <1>2, <1>3, RestartKept

-----------------------------------------------------------------------------
(* Runs begin and end, and what is kept ages.                              *)
(* A task that has not begun, or has ended with nothing.                   *)
LEMMA Resting ==
  ASSUME NEW t \in Threads, pc[t] = "idle", root[t].state = "unset", ServeOK(t)
  PROVE  ThreadOK(t)
<1>1. TaskOK(t) /\ RootOK(t) /\ Asked(t) /\ Replied(t)
  BY DEF TaskOK, TaskAt, IsAbout, IsFor, HasAtHand, RootOK, RootAt, Asked, AskedAt, Replied, RepliedAt, Waits
<1>2. NotFound(t) /\ Asking(t) /\ Searching(t) /\ Began(t)
  BY DEF NotFound, NotFoundAt, Asking, AskingAt, Searching, SearchAt, Began
<1> QED
  BY <1>1, <1>2 DEF ThreadOK

LEMMA RestingNext ==
  ASSUME NEW t \in Threads, pc'[t] \in {"idle", "start", "done"}, root'[t].state \in {"unset", "skipped"},
         pc'[t] # "done" => root'[t].state = "unset", ServeOK(t)', Began(t)'
  PROVE  ThreadOK(t)'
<1>1. TaskOK(t)' /\ RootOK(t)' /\ Asked(t)' /\ Replied(t)'
  BY DEF TaskOK, TaskAt, IsAbout, IsFor, HasAtHand, RootOK, RootAt, Asked, AskedAt, Replied, RepliedAt, Waits
<1>2. NotFound(t)' /\ Asking(t)' /\ Searching(t)'
  BY DEF NotFound, NotFoundAt, Asking, AskingAt, Searching, SearchAt
<1> QED
  BY <1>1, <1>2 DEF ThreadOK

LEMMA InitKept == Init => Inv
<1> SUFFICES ASSUME Init PROVE Inv
  OBVIOUS
<1>1. PICK c \in Casts :
        /\ cast = c.cast
        /\ git = c.git /\ ids = c.ids /\ cas = c.cas /\ remote = c.remote /\ distdir = c.distdir
        /\ trouble = c.trouble /\ collections = c.collections
  BY DEF Init, TasksInit
<1>2. /\ handler = [t \in Threads |-> NoCall]
      /\ pc = [t \in Threads |-> "idle"] /\ object = [t \in Threads |-> "none"]
      /\ hit = [t \in Threads |-> FALSE] /\ root = [t \in Threads |-> Unset]
      /\ runs = cast.runs /\ near = [t \in Threads |-> "nowhere"]
      /\ begun = <<trouble, collections>> /\ kept = TRUE
      /\ resolving = NothingResolved /\ astray = FALSE
  BY DEF Init, TasksInit
<1>3. StoresTypeOK /\ IdsAreBacked /\ CommitsComplete /\ CasClosed
  BY <1>1, SetupAssumption DEF StoresTypeOK, IdsAreBacked, CommitsComplete, CasClosed, Gens0
<1>4. CastOK
  <2>1. \A t \in Threads : Kind(t) = c.cast.root[t].kind /\ Key(t) = c.cast.root[t].key
                           /\ Special(t) = c.cast.root[t].special /\ Absent(t) = c.cast.root[t].absent
    BY <1>1 DEF Kind, Key, Special, Absent
  <2> QED
    BY <1>1, <2>1, SetupAssumption DEF CastOK, InGit
<1>5. Budgets
  BY <1>2, <1>3, ContentAssumption DEF Budgets, StoresTypeOK
<1>6. Types
  <2>1. TypeTasks
    BY <1>2 DEF TypeTasks, Labels, Unset, Outcome
  <2>2. TypeRun
    BY <1>1, <1>2, <1>3, <1>4 DEF TypeRun, StoresTypeOK, CastOK
  <2>3. SourceTreeTypeOK
    BY <1>2, NoCallTyped DEF SourceTreeTypeOK, NothingResolved
  <2> QED
    BY <2>1, <2>2, <2>3 DEF Types
<1>7. ASSUME NEW t \in Threads PROVE ThreadOK(t)
  <2>1. pc[t] = "idle" /\ root[t].state = "unset" /\ handler[t].stage = "none"
    BY <1>2 DEF Unset, Outcome, NoCall
  <2> QED
    BY <2>1, Resting DEF ServeOK, ServeAt, Working
<1> QED
  BY <1>3, <1>4, <1>5, <1>6, <1>7 DEF Inv, StoresOK

(* What is nearest when a run begins is there.                             *)
LEMMA NearestKnown ==
  ASSUME NEW t \in Threads, UNCHANGED <<storeVars, cast>>, NEW f, Fetching' = f, near'[t] = Nearest(t, f)
  PROVE  Began(t)' /\ near'[t] \in {"local", "serve", "upstream", "nowhere"}
<1>1. UNCHANGED <<git, ids, cas, remote, distdir, cast>>
  BY DEF storeVars
<1>2. /\ Kind(t)' = Kind(t) /\ Key(t)' = Key(t) /\ Special(t)' = Special(t) /\ Absent(t)' = Absent(t)
      /\ WithServe' = WithServe /\ Upstream' = Upstream
  BY <1>1 DEF Kind, Key, Special, Absent, WithServe, Upstream
<1>3. /\ Repo(t)' = Repo(t) /\ HasContents(t)' = HasContents(t) /\ Contents(t)' = Contents(t)
      /\ Dir(t)' = Dir(t) /\ FileTree(t)' = FileTree(t)
  BY <1>1, <1>2 DEF Repo, HasContents, Contents, Dir, FileTree
<1>4. \A x : /\ (x \in git'["client"][0]) = InGit("client", x) /\ (x \in git'["serve"][0]) = InGit("serve", x)
            /\ OldWith(x)' = OldWith(x)
  BY <1>1 DEF InGit, OldWith
<1>5. AllLocal(t) = AllLocal(t)'
  BY <1>1, <1>3 DEF AllLocal, Locally, BlobInGit, InGit, OldWith
<1>6. AllFound(t) = AllFound(t)'
  BY <1>1, <1>2, <1>3 DEF AllFound, ServeFinds, Has, Locally, BlobInGit, InGit, OldWith
<1>7. KnownLocally(t, f) => KnownLocally(t, Fetching)'
  <2>1. /\ InGit(Repo(t), Key(t)) => InGit(Repo(t), Key(t))'
        /\ InGit("client", Key(t)) => InGit("client", Key(t))'
        /\ Locally(Key(t)) => Locally(Key(t))'
        /\ OldWith(Key(t))' = OldWith(Key(t))
    BY <1>1, <1>2, <1>3 DEF InGit, Locally, BlobInGit, OldWith
  <2>2. KnowTree(t) => KnowTree(t)'
    BY <1>1, <1>2 DEF KnowTree, IdFile
  <2>3. OldId(t) => OldId(t)'
    BY <1>1, <1>2 DEF OldId, IdFile
  <2>4. DirId(t) => DirId(t)'
    BY <1>1, <1>2, <1>3 DEF DirId, IdFile
  <2>5. FileId(t) => FileId(t)'
    BY <1>1, <1>2, <1>3 DEF FileId, IdFile
  <2> QED
    BY <1>1, <1>2, <1>3, <1>5, <2>1, <2>2, <2>3, <2>4, <2>5 DEF KnownLocally
<1>8. KnownToServe(t) => KnownToServe(t)'
  <2>1. /\ ServeFinds(Key(t)) => ServeFinds(Key(t))'
        /\ ServeFinds(Dir(t)) => ServeFinds(Dir(t))'
        /\ Has(Key(t)) => Has(Key(t))'
        /\ Has(FileTree(t)) => Has(FileTree(t))'
    BY <1>1, <1>2, <1>3 DEF ServeFinds, Has, InGit
  <2>2. IdFile("serve", 0, "tree-map", Key(t)) => IdFile("serve", 0, "tree-map", Key(t))'
    BY <1>1, <1>2 DEF IdFile
  <2> QED
    BY <1>1, <1>2, <1>3, <1>6, <2>1, <2>2 DEF KnownToServe
<1>9. Reachable(t) => Reachable(t)'
  BY <1>1, <1>2, <1>3 DEF Reachable, ServeFinds, Has, Locally, BlobInGit, InGit, OldWith
<1> QED
  BY <1>2, <1>7, <1>8, <1>9 DEF Began, Nearest

(* Steps between runs leave the stores or age them.                        *)
LEMMA StoresStay ==
  ASSUME StoresOK, UNCHANGED <<git, ids, cas, remote, distdir, collections, cast>>, trouble' \in 0 .. trouble,
         begun' = <<trouble', collections'>>
  PROVE  StoresOK'
<1>1. trouble' \in 0 .. MaxTrouble /\ collections' \in 0 .. MaxCollections /\ trouble' \in Nat /\ collections' \in Nat
  BY ContentAssumption DEF StoresOK, StoresTypeOK
<1>2. CastOK' /\ Budgets'
  BY <1>1, CastKept DEF StoresOK, Budgets
<1>3. StoresTypeOK' /\ IdsAreBacked' /\ CommitsComplete' /\ CasClosed'
  BY <1>1 DEF StoresOK, StoresTypeOK, IdsAreBacked, CommitsComplete, CasClosed
<1> QED
  BY <1>2, <1>3 DEF StoresOK

LEMMA RunKept ==
  ASSUME Inv, MultiRepoSetup \/ MultiRepoFetch
  PROVE  Inv'
<1>1. PICK chosen \in SUBSET Threads, f \in BOOLEAN : Run(chosen, f) /\ f = FetchesFirst
  BY DEF MultiRepoSetup, MultiRepoFetch, FetchesFirst
<1>2. /\ Idle /\ (\A t \in Threads : ~Serving(t)) /\ runs > 0 /\ runs' = runs - 1
      /\ pc' = [t \in Threads |-> IF t \in chosen THEN "start" ELSE "done"]
      /\ root' = [t \in Threads |-> IF t \in chosen THEN Unset ELSE Outcome("skipped", "none", "none")]
      /\ near' = [t \in Threads |-> Nearest(t, f)]
      /\ begun' = <<trouble, collections>> /\ kept' = TRUE /\ astray' = FALSE
      /\ UNCHANGED <<storeVars, handler, cast, resolving, object, hit>>
  BY <1>1 DEF Run
<1>3. StoresOK /\ TypeTasks /\ TypeRun /\ SourceTreeTypeOK /\ cast.runs \in Nat
  BY DEF Inv, Types, StoresOK, CastOK
<1>4. Fetching' = f
  BY <1>1, <1>2, <1>3 DEF Fetching, FetchesFirst, TypeRun
<1>5. UNCHANGED <<git, ids, cas, remote, distdir, trouble, collections>>
  BY <1>2 DEF storeVars
<1>6. StoresOK'
  <2>1. trouble' \in 0 .. trouble
    BY <1>3, <1>5, ContentAssumption DEF StoresOK, StoresTypeOK
  <2> QED
    BY <1>2, <1>3, <1>5, <2>1, StoresStay
<1>7. ASSUME NEW t \in Threads PROVE Began(t)' /\ near'[t] \in {"local", "serve", "upstream", "nowhere"}
  BY <1>2, <1>4, NearestKnown
<1>8. Types'
  <2>1. TypeTasks'
    BY <1>2, <1>3 DEF TypeTasks, Labels, Unset, Outcome
  <2>2. TypeRun'
    BY <1>2, <1>3, <1>5, <1>7, ContentAssumption DEF TypeRun, StoresOK, StoresTypeOK
  <2>3. SourceTreeTypeOK'
    BY <1>2, <1>3 DEF SourceTreeTypeOK
  <2> QED
    BY <2>1, <2>2, <2>3 DEF Types
<1>9. ASSUME NEW t \in Threads PROVE ThreadOK(t)'
  <2>1. /\ pc'[t] \in {"start", "done"} /\ root'[t].state \in {"unset", "skipped"}
        /\ pc'[t] # "done" => root'[t].state = "unset"
    BY <1>2 DEF Unset, Outcome
  <2>2. ServeOK(t)'
    BY <1>2 DEF ServeOK, ServeAt, Serving
  <2> QED
    BY <1>7, <2>1, <2>2, RestingNext
<1> QED
  BY <1>6, <1>8, <1>9 DEF Inv

LEMMA ForgetKept ==
  ASSUME Inv, Forget, trouble' \in 0 .. trouble
  PROVE  Inv'
<1>1. /\ pc' = [t \in Threads |-> "idle"] /\ object' = [t \in Threads |-> "none"]
      /\ hit' = [t \in Threads |-> FALSE] /\ root' = [t \in Threads |-> Unset]
      /\ handler' = [t \in Threads |-> IF Serving(t) THEN handler[t] ELSE NoCall]
      /\ UNCHANGED <<git, ids, cas, remote, distdir, collections, cast, resolving, runs>>
      /\ near' = [t \in Threads |-> "nowhere"] /\ kept' = TRUE
      /\ begun' = <<trouble', collections'>> /\ astray' = FALSE
  BY DEF Forget
<1>2. StoresOK /\ TypeTasks /\ TypeRun /\ SourceTreeTypeOK
  BY DEF Inv, Types
<1>3. StoresOK'
  BY <1>1, <1>2, StoresStay
<1>4. Types'
  <2>1. TypeTasks'
    BY <1>1, <1>2 DEF TypeTasks, Labels, Unset, Outcome
  <2>2. TypeRun'
    BY <1>1, <1>2, <1>3 DEF TypeRun, StoresOK, StoresTypeOK
  <2>3. SourceTreeTypeOK'
    BY <1>1, <1>2, NoCallTyped DEF SourceTreeTypeOK
  <2> QED
    BY <2>1, <2>2, <2>3 DEF Types
<1>5. ASSUME NEW t \in Threads PROVE ThreadOK(t)'
  <2>1. pc'[t] = "idle" /\ root'[t].state = "unset"
    BY <1>1 DEF Unset, Outcome
  <2>2. ServeOK(t)'
    <3>1. CASE Serving(t)
      <4>1. handler'[t] = handler[t] /\ ServeAt(handler[t])
        BY <1>1, <3>1 DEF Inv, ThreadOK, ServeOK
      <4> QED
        BY <1>1, <4>1 DEF ServeOK, ServeAt, Has, InGit
    <3>2. CASE ~Serving(t)
      BY <1>1, <3>2 DEF ServeOK, ServeAt, NoCall, Working
    <3> QED
      BY <3>1, <3>2
  <2>3. Began(t)'
    BY <2>1 DEF Began
  <2> QED
    BY <2>1, <2>2, <2>3, RestingNext
<1> QED
  BY <1>3, <1>4, <1>5 DEF Inv

LEMMA RotateFacts ==
  ASSUME StoresOK, NEW h \in Hosts, Rotate(h), UNCHANGED <<cast, begun>>
  PROVE  /\ StoresOK' /\ collections' # collections /\ collections' <= collections /\ trouble' <= trouble
         /\ \A r \in Repositories : r # h => git'[r] = git[r]
         /\ \A r \in Hosts : r # h => ids'[r] = ids[r] /\ cas'[r] = cas[r]
<1>1. /\ collections > 0 /\ collections' = collections - 1
      /\ git' = [git EXCEPT ![h] = Aged(@)] /\ ids' = [ids EXCEPT ![h] = Aged(@)]
      /\ cas' \in {cas, [cas EXCEPT ![h] = {}]}
      /\ UNCHANGED <<remote, distdir, trouble>>
  BY DEF Rotate
<1>2. /\ StoresTypeOK /\ CastOK /\ IdsAreBacked /\ CommitsComplete /\ CasClosed /\ Budgets
      /\ MaxTrouble \in Nat /\ MaxCollections \in Nat /\ Generations \in Nat \ {0}
  BY ContentAssumption DEF StoresOK
<1>3. collections' \in 0 .. MaxCollections /\ collections' # collections /\ collections' <= collections
      /\ trouble' = trouble /\ trouble \in Nat
  BY <1>1, <1>2 DEF StoresTypeOK
<1>4. /\ git \in [Repositories -> [Gens0 -> SUBSET Objects]] /\ ids \in [Hosts -> [Gens0 -> SUBSET IdFiles]]
      /\ cas \in [Hosts -> SUBSET Stored] /\ h \in Repositories
  BY <1>2 DEF StoresTypeOK, Gens0, Repositories
<1>5. /\ git' = [git EXCEPT ![h] = Aged(git[h])] /\ ids' = [ids EXCEPT ![h] = Aged(ids[h])]
      /\ git'[h] = Aged(git[h]) /\ ids'[h] = Aged(ids[h])
      /\ \A r \in Repositories : r # h => git'[r] = git[r]
      /\ \A r \in Hosts : r # h => ids'[r] = ids[r]
  BY <1>1, <1>4
<1>6. \A g \in Gens0 : g # 0 => g - 1 \in Gens0
  BY <1>2 DEF Gens0
<1>7. /\ Aged(git[h]) \in [Gens0 -> SUBSET Objects] /\ Aged(ids[h]) \in [Gens0 -> SUBSET IdFiles]
  <2>1. git[h] \in [Gens0 -> SUBSET Objects] /\ ids[h] \in [Gens0 -> SUBSET IdFiles]
    BY <1>4
  <2> QED
    BY <1>6, <2>1 DEF Aged, Gens0
<1>8. \A g \in Gens0 : /\ git'[h][g] = IF g = 0 THEN {} ELSE git[h][g - 1]
                       /\ ids'[h][g] = IF g = 0 THEN {} ELSE ids[h][g - 1]
  <2>1. \A g \in Gens0 : /\ Aged(git[h])[g] = IF g = 0 THEN {} ELSE git[h][g - 1]
                         /\ Aged(ids[h])[g] = IF g = 0 THEN {} ELSE ids[h][g - 1]
    BY DEF Aged, Gens0
  <2> QED
    BY <1>5, <2>1
<1>9. git' \in [Repositories -> [Gens0 -> SUBSET Objects]] /\ ids' \in [Hosts -> [Gens0 -> SUBSET IdFiles]]
  BY <1>4, <1>5, <1>7
<1>10. cas' \in [Hosts -> SUBSET Stored] /\ (\A r \in Hosts : r # h => cas'[r] = cas[r])
       /\ cas'["client"] \in {cas["client"], {}}
  BY <1>1, <1>4 DEF Hosts
<1>11. StoresTypeOK'
  BY <1>1, <1>2, <1>3, <1>9, <1>10 DEF StoresTypeOK, Gens0
<1>12. CastOK'
  <2>1. git'["checkout"] = git["checkout"]
    BY <1>5 DEF Repositories, Hosts
  <2> QED
    BY <1>2, <2>1, CastKept
<1>13. IdsAreBacked'
  <2>1. \A r \in Hosts, g \in Gens0 : \A id \in ids[r][g] : id[3] \in git[r][g]
    BY <1>2 DEF IdsAreBacked, Gens0
  <2>2. \A g \in Gens0 : \A id \in ids'[h][g] : id[3] \in git'[h][g]
    BY <1>6, <1>8, <2>1
  <2>3. \A r \in Hosts, g \in Gens0 : \A id \in ids'[r][g] : id[3] \in git'[r][g]
    BY <1>5, <2>1, <2>2 DEF Repositories
  <2> QED
    BY <2>3 DEF IdsAreBacked, Gens0
<1>14. CommitsComplete'
  <2>1. \A r \in Repositories, g \in Gens0 : \A c \in Commits : c \in git[r][g] => TreeOf[c] \in git[r][g]
    BY <1>2 DEF CommitsComplete
  <2>2. \A g \in Gens0 : \A c \in Commits : c \in git'[h][g] => TreeOf[c] \in git'[h][g]
    BY <1>4, <1>6, <1>8, <2>1
  <2>3. \A r \in Repositories, g \in Gens0 : \A c \in Commits : c \in git'[r][g] => TreeOf[c] \in git'[r][g]
    BY <1>5, <2>1, <2>2
  <2> QED
    BY <2>3 DEF CommitsComplete
<1>15. CasClosed'
  BY <1>2, <1>10 DEF CasClosed
<1>16. Budgets'
  BY <1>2, <1>3, <1>11 DEF Budgets, StoresTypeOK
<1> QED
  BY <1>3, <1>5, <1>10, <1>11, <1>12, <1>13, <1>14, <1>15, <1>16 DEF StoresOK

LEMMA SameTypes ==
  ASSUME Inv, UNCHANGED <<taskVars, handler, mapVars, runs, near, begun, cast>>, kept' \in BOOLEAN
  PROVE  Types'
<1>1. TypeTasks'
  BY DEF Inv, Types, TypeTasks, taskVars
<1>2. TypeRun'
  BY DEF Inv, Types, TypeRun
<1>3. SourceTreeTypeOK'
  BY DEF Inv, Types, SourceTreeTypeOK, mapVars
<1> QED
  BY <1>1, <1>2, <1>3 DEF Types

LEMMA ClientCollectsKept ==
  ASSUME Inv, Idle, Rotate("client"), Elsewhere, UNCHANGED <<handler, mapVars>>
  PROVE  Inv'
<1>1. UNCHANGED <<taskVars, runs, near, begun, kept, cast>>
  BY DEF Elsewhere, historyVars
<1>2. StoresOK' /\ git'["serve"] = git["serve"]
  BY <1>1, RotateFacts DEF Inv, Hosts, Repositories
<1>3. Types'
  BY <1>1, SameTypes DEF Inv, Types, TypeRun
<1>4. ASSUME NEW t \in Threads PROVE ThreadOK(t)'
  <2>1. pc'[t] = "idle" /\ root'[t] = root[t] /\ root[t].state = "unset"
    BY <1>1 DEF Inv, ThreadOK, RootOK, Idle, taskVars
  <2>2. ServeOK(t)'
    BY <1>1, <1>2 DEF Inv, ThreadOK, ServeOK, ServeAt, Has, InGit
  <2> QED
    BY <2>1, <2>2, RestingNext DEF Began
<1> QED
  BY <1>2, <1>3, <1>4 DEF Inv

LEMMA ServeCollectsKept ==
  ASSUME Inv, ServeCollects, kept' = FALSE, UNCHANGED <<taskVars, runs, near, begun, cast>>
  PROVE  Inv'
<1>1. Rotate("serve") /\ UNCHANGED <<handler, mapVars>> /\ \A t \in Threads : ~Serving(t)
  BY DEF ServeCollects
<1>2. /\ StoresOK' /\ collections' # collections /\ collections' <= collections /\ trouble' <= trouble
      /\ git'["client"] = git["client"] /\ git'["checkout"] = git["checkout"]
      /\ ids'["client"] = ids["client"] /\ cas'["client"] = cas["client"]
  BY <1>1, RotateFacts DEF Inv, Hosts, Repositories
<1>3. Types'
  BY <1>1, SameTypes
<1>4. ClientGrows /\ StoresGrow
  BY <1>1, <1>2 DEF ClientGrows, StoresGrow, Rotate
<1>5. HistoryKept
  BY <1>1 DEF HistoryKept, mapVars
<1>6. ASSUME NEW t \in Threads PROVE ThreadOK(t)'
  <2>1. StoresOK /\ TypeRun /\ ThreadOK(t) /\ ~Serving(t)
    BY <1>1 DEF Inv, Types
  <2>2. pc'[t] = pc[t] /\ object'[t] = object[t] /\ root'[t] = root[t] /\ handler'[t] = handler[t]
    BY <1>1 DEF taskVars
  <2> QED
    BY <1>4, <1>5, <2>1, <2>2, ThreadKept
<1> QED
  BY <1>2, <1>3, <1>6 DEF Inv

LEMMA EvictKept ==
  ASSUME Inv, Evict, Elsewhere, UNCHANGED <<handler, mapVars>>
  PROVE  Inv'
<1>1. UNCHANGED <<taskVars, runs, near, begun, kept, cast>>
  BY DEF Elsewhere, historyVars
<1>2. /\ collections > 0 /\ collections' = collections - 1 /\ remote' \subseteq remote
      /\ UNCHANGED <<git, ids, cas, distdir, trouble>>
  BY DEF Evict
<1>3. StoresOK /\ StoresTypeOK /\ CastOK /\ Budgets /\ TypeRun /\ kept \in BOOLEAN /\ MaxCollections \in Nat
  BY ContentAssumption DEF Inv, StoresOK, Types, TypeRun
<1>4. collections' \in 0 .. MaxCollections /\ collections' # collections /\ collections' <= collections
  BY <1>2, <1>3 DEF StoresTypeOK
<1>5. trouble \in Nat /\ trouble' = trouble
  BY <1>2, <1>3, ContentAssumption DEF StoresTypeOK
<1>6. StoresOK'
  <2>1. StoresTypeOK'
    BY <1>2, <1>3, <1>4 DEF StoresTypeOK
  <2>2. CastOK'
    BY <1>1, <1>2, <1>3, CastKept
  <2>3. IdsAreBacked' /\ CommitsComplete' /\ CasClosed'
    BY <1>2, <1>3 DEF StoresOK, IdsAreBacked, CommitsComplete, CasClosed
  <2>4. Budgets'
    BY <1>1, <1>3, <1>4, <1>5 DEF Budgets, StoresTypeOK
  <2> QED
    BY <2>1, <2>2, <2>3, <2>4 DEF StoresOK
<1>7. Types'
  BY <1>1, <1>3, SameTypes
<1>8. StoresGrow /\ ServeGrows
  BY <1>2, <1>4, <1>5 DEF StoresGrow, ClientGrows, ServeGrows
<1>9. HistoryKept
  BY <1>1 DEF HistoryKept, mapVars
<1>10. ASSUME NEW t \in Threads PROVE ThreadOK(t)'
  <2>1. ThreadOK(t)
    BY DEF Inv
  <2>2. pc'[t] = pc[t] /\ object'[t] = object[t] /\ root'[t] = root[t] /\ handler'[t] = handler[t]
    BY <1>1 DEF taskVars
  <2> QED
    BY <1>3, <1>8, <1>9, <2>1, <2>2, ThreadKept
<1> QED
  BY <1>6, <1>7, <1>10 DEF Inv

LEMMA StutterKept ==
  ASSUME Inv, UNCHANGED vars
  PROVE  Inv'
<1>1. UNCHANGED <<storeVars, handler, taskVars, mapVars, runs, near, begun, kept, cast>>
  BY DEF vars, historyVars
<1>2. StoresOK' /\ ClientGrows /\ ServeGrows
  BY <1>1, SameKept DEF StoresSame
<1>3. StoresOK /\ TypeRun /\ kept' \in BOOLEAN /\ StoresGrow /\ HistoryKept
  BY <1>1, <1>2 DEF Inv, Types, TypeRun, StoresGrow, HistoryKept, mapVars
<1>4. Types'
  BY <1>1, <1>3, SameTypes
<1>5. ASSUME NEW t \in Threads PROVE ThreadOK(t)'
  <2>1. ThreadOK(t)
    BY DEF Inv
  <2>2. pc'[t] = pc[t] /\ object'[t] = object[t] /\ root'[t] = root[t] /\ handler'[t] = handler[t]
    BY <1>1 DEF taskVars
  <2> QED
    BY <1>2, <1>3, <2>1, <2>2, ThreadKept
<1> QED
  BY <1>2, <1>4, <1>5 DEF Inv

LEMMA NextKept ==
  ASSUME Inv, [Next]_vars
  PROVE  Inv'
<1>1. CASE MultiRepoSetup \/ MultiRepoFetch
  BY <1>1, RunKept
<1>2. CASE End \/ Killed
  <2>1. trouble' \in 0 .. trouble /\ Forget
    BY <1>2 DEF End, Killed, Trouble, NoTrouble, Inv, StoresOK, StoresTypeOK
  <2> QED
    BY <2>1, ForgetKept
<1>3. CASE \E t \in Threads : TaskStep(t)
  BY <1>3, TaskStepKept
<1>4. CASE \E t \in Threads : Serve(t) /\ Elsewhere
  BY <1>4, ServesKept
<1>5. CASE ServeKilled /\ Elsewhere
  BY <1>5, ServeKilledKept
<1>6. CASE Evict /\ Elsewhere /\ UNCHANGED <<handler, mapVars>>
  BY <1>6, EvictKept
<1>7. CASE Idle /\ Rotate("client") /\ Elsewhere /\ UNCHANGED <<handler, mapVars>>
  BY <1>7, ClientCollectsKept
<1>8. CASE ServeCollects /\ kept' = FALSE /\ UNCHANGED <<taskVars, runs, near, begun, cast>>
  BY <1>8, ServeCollectsKept
<1>9. CASE UNCHANGED vars
  BY <1>9, StutterKept
<1> QED
  BY <1>1, <1>2, <1>3, <1>4, <1>5, <1>6, <1>7, <1>8, <1>9 DEF Next

-----------------------------------------------------------------------------
(* The inductive invariant: what each task and each call is about, what it *)
(* has at hand there, and where what it looks for still is. All others     *)
(* follow from it.                                                         *)
THEOREM InvariantHolds == Spec => []Inv
<1>1. Init => Inv
  BY InitKept
<1>2. Inv /\ [Next]_vars => Inv'
  BY NextKept
<1> QED
  BY <1>1, <1>2, PTL DEF Spec

(* Stores, tasks, calls and what is remembered of the run are of the       *)
(* shapes the maps and the source-tree service give them.                  *)
THEOREM TypeCorrect == Spec => []TypeOK
<1>1. Inv => TypeOK
  BY DEF Inv, StoresOK, Types, TypeTasks, TypeRun, TypeOK, TasksTypeOK
<1> QED
  BY <1>1, InvariantHolds, PTL

(* Id files are written once their tree is in the Git cache, by the maps   *)
(* and by the endpoint, and age with it when generations are rotated: so   *)
(* they can be used without a look at the tree, after any kill.            *)
THEOREM IdsBacked == Spec => []IdsAreBacked
<1>1. Inv => IdsAreBacked
  BY DEF Inv, StoresOK
<1> QED
  BY <1>1, InvariantHolds, PTL

(* However a root was come by (a checkout, the Git cache, an older         *)
(* generation, an import from the CAS, the network), set-up names a        *)
(* repository that has it; and a fetched file is where it is said to be.   *)
THEOREM RootsAvailable == Spec => []PresentRootsAvailable
<1>1. Inv => PresentRootsAvailable
  BY DEF Inv, ThreadOK, RootOK, RootAt, PresentRootsAvailable
<1> QED
  BY <1>1, InvariantHolds, PTL

(* What the client was told by the endpoint, or uploaded to it, is what    *)
(* was asked for, and the endpoint can build against it until it is        *)
(* collected.                                                              *)
THEOREM RootsServed == Spec => []AbsentRootsServed
<1>1. Inv => AbsentRootsServed
  BY DEF Inv, ThreadOK, RootOK, RootAt, AbsentRootsServed
<1> QED
  BY <1>1, InvariantHolds, PTL

(* The maps look in all other places first, and find there what was known  *)
(* when the run began, whatever the other tasks of the run do meanwhile.   *)
THEOREM NetworkLast == Spec => []NetworkIsLast
<1>1. Inv => NetworkIsLast
  <2> SUFFICES ASSUME Inv, NEW t \in Threads, pc[t] = "fetch"
               PROVE  near[t] # "local" /\ (Calm /\ ~astray => near[t] # "serve")
    BY DEF NetworkIsLast
  <2>1. SearchAt(t, pc[t], object[t])
    BY TaskFacts
  <2> QED
    BY <2>1 DEF SearchAt
<1> QED
  BY <1>1, InvariantHolds, PTL

(* Every way a task fails has its cause outside of it: nobody has what it  *)
(* needs, a call, a file or a collection came in between, or the endpoint  *)
(* was misled. No task is the cause of another's failure.                  *)
THEOREM FailuresCaused == Spec => []FailureHasCause
<1>1. Inv => FailureHasCause
  BY DEF Inv, ThreadOK, RootOK, RootAt, FailureHasCause
<1> QED
  BY <1>1, InvariantHolds, PTL

=============================================================================
