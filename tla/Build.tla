-------------------------------- MODULE Build -------------------------------
(***************************************************************************)
(* Builds that use what earlier builds have left in the target cache: from *)
(* the analysis of a target (src/buildtool/main/main.cpp, analyse.cpp) and *)
(* the questions it asks the cache and a serve endpoint (export.cpp,       *)
(* absent_target_map.cpp, serve_api/), over building and staging           *)
(* (graph_traverser.cpp), to the new entries of the cache (build_utils.cpp,*)
(* target_cache.tpp).  The build may crash, and the remote CAS may forget. *)
(*                                                                         *)
(* The serve endpoint handles a request in one step, for none of its parts *)
(* is visible to the client; if it crashes, some entries may be written.   *)
(***************************************************************************)
EXTENDS Analysis

-----------------------------------------------------------------------------
(* What becomes of the artifacts of a target when they are built: the      *)
(* executor's part for each kind of artifact (executor.hpp), and the       *)
(* merging of trees (tree_operations_utils.cpp).                           *)
(*                                                                         *)
(* A command computes its outputs from its inputs; "false" is one that     *)
(* fails, though not without leaving something behind.  The interleavings  *)
(* of the traversal are in Traverser, the protocol in RemoteExecution.     *)
NoEntries == [n \in {} |-> <<>>]
EmptyTree == Directory(NoEntries)
IsTree(content) == content[1] = "tree"

\* UploadTree: the directory with the given contents, at their paths.
RECURSIVE NestedTree(_)
Within(name, contents) ==
  [p \in {Tail(q) : q \in {q \in DOMAIN contents : Head(q) = name}} |->
     contents[<<name>> \o p]]
NestedTree(contents) ==
  IF <<>> \in DOMAIN contents THEN contents[<<>>]
  ELSE Directory(Once(
         [n \in {Head(p) : p \in DOMAIN contents} |->
            NestedTree(Once(Within(n, contents)))]))
\* A tree at "." is the directory itself (CreateRootDigest).
RootTree(contents) ==
  IF Dot \in DOMAIN contents THEN contents[Dot] ELSE NestedTree(contents)

-----------------------------------------------------------------------------
(* Tree overlays *)

RECURSIVE ComputeTreeOverlay(_, _, _)
BothTrees(a, b) == IsTree(a) /\ IsTree(b)
Clash(a, b, disjoint) == a # b /\ disjoint /\ ~BothTrees(a, b)
\* The entries of the other tree win, save that two trees are merged.
OverlayOnce(base, other, disjoint) ==
  [n \in DOMAIN base \cup DOMAIN other |->
     CASE n \notin DOMAIN other          -> <<base[n]>>
       [] n \notin DOMAIN base           -> <<other[n]>>
       [] BothTrees(base[n], other[n])   ->
            ComputeTreeOverlay(base[n], other[n], disjoint)
       [] Clash(base[n], other[n], disjoint) -> Fail
       [] OTHER                          -> <<other[n]>>]
ComputeTreeOverlay(base, other, disjoint) ==
  CASE ~BothTrees(base, other) -> Fail
    [] base = other            -> <<base>>
    [] OTHER -> All(OverlayOnce(base[2], other[2], disjoint),
                    LAMBDA entries : <<Directory(entries)>>)
\* Part after part, onto the empty tree.
Overlay(parts, disjoint) ==
  FoldLeft(LAMBDA tree, part :
             Bind(tree, LAMBDA base : ComputeTreeOverlay(base, part, disjoint)),
           <<EmptyTree>>, parts)

-----------------------------------------------------------------------------
(* Actions *)

FailingCommand(cmd) == Head(cmd) = "false"
\* What a command writes to one of its output paths; "echo" looks at no input.
Written(desc, path, inputs) ==
  File(<<"out", desc.cmd, path,
         IF Head(desc.cmd) \in {"echo", "false"} THEN EmptyTree ELSE inputs>>)
Output(desc, path, inputs) ==
  IF path \in desc.dirs
  THEN Directory([n \in {"part"} |-> Written(desc, path, inputs)])
  ELSE Written(desc, path, inputs)

-----------------------------------------------------------------------------
(* The content of an artifact, if it can be had: local files are read from *)
(* the workspace, and "available" are the contents that are found, or can  *)
(* be uploaded.                                                            *)

RECURSIVE Produce(_, _, _)
ProduceStage(stage, ws, available, Then(_)) ==
  All([p \in DOMAIN stage |-> Produce(stage[p], ws, available)], Then)
ProduceOutput(desc, path, ws, available) ==
  ProduceStage(desc.inputs, ws, available, LAMBDA inputs :
    IF FailingCommand(desc.cmd) /\ ~desc.may_fail THEN Fail
    ELSE <<Output(desc, path, RootTree(inputs))>>)
Produce(a, ws, available) ==
  CASE a[1] = "local"   -> EntryAt(ws.repos[a[3]].root, a[2])
    [] a[1] = "known"   -> IF a[2] \in available THEN <<a[2]>> ELSE Fail
    [] a[1] = "action"  -> ProduceOutput(a[2], a[3], ws, available)
    [] a[1] = "tree"    ->
         ProduceStage(a[2], ws, available, LAMBDA c : <<RootTree(c)>>)
    [] a[1] = "overlay" ->
         ProduceStage(a[2], ws, available, LAMBDA c : Overlay(c, a[3]))

\* All artifacts that have to be there for one of them to be.
RECURSIVE Needed(_)
Needed(a) ==
  {a} \cup UNION {Needed(x) :
                  x \in CASE a[1] = "action"              -> RangeOf(a[2].inputs)
                         [] a[1] \in {"tree", "overlay"} -> RangeOf(a[2])
                         [] OTHER                        -> {}}
\* A tree and all that is in it.
RECURSIVE Closure(_)
Closure(content) ==
  {content} \cup IF IsTree(content)
                 THEN UNION {Closure(c) : c \in RangeOf(content[2])} ELSE {}

-----------------------------------------------------------------------------
CONSTANTS Versions,           \* the workspaces, as the sources change
          Workspace(_),
          Requests,           \* what is built: configured targets
          Configs,            \* all configurations that occur
          Served,             \* the repositories whose roots serve finds
          MaxBuilds, MaxTrouble

VARIABLES version, cas, cache, remote, serve, build, builds, trouble
vars == <<version, cas, cache, remote, serve, build, builds, trouble>>

ws == Workspace(version)
NoCache == [k \in {} |-> TargetCacheEntry(<<>>, {})]
Idle == [phase |-> "idle"]
Init ==
  /\ version \in Versions /\ \A v \in Versions : version <= v
  /\ cas = {} /\ cache = NoCache /\ remote = {}
  /\ serve = [cas |-> {}, cache |-> NoCache]
  /\ build = Idle /\ builds = 0 /\ trouble = 0

-----------------------------------------------------------------------------
(* What is to be built, and what is there for it                           *)

\* ReadOutputArtifacts: an artifact hides the runfile at its path.
OutputArtifacts(result) == Onto(result.artifacts, result.runfiles)
\* CollectNonKnownArtifacts, as any artifact that is known is known anyway.
CacheArtifacts(registered) ==
  UNION {ContainedArtifacts(e.result) : e \in registered}
ToBuild(analysed) ==
  RangeOf(OutputArtifacts(analysed.result)) \cup
    {a \in CacheArtifacts(analysed.registered) : ~IsKnown(a)}
NeededFor(artifacts) == UNION {Needed(a) : a \in artifacts}
KnownIn(artifacts) == {a[2] : a \in {a \in artifacts : IsKnown(a)}}

GitContents(w) ==
  UNION {Closure(w.repos[r].root) :
           r \in {r \in DOMAIN w.repos : w.repos[r].known /\ ~w.repos[r].absent}}
EntryContents(entry) ==
  UNION {Closure(a[2]) : a \in ContainedArtifacts(entry.result)}
\* What an answer brought has been found in a cache; blobs of the other known
\* artifacts are a part of the analysis result, and uploaded.
Uploaded(answers, w, artifacts) ==
  UNION {Closure(c) : c \in KnownIn(artifacts)} \
    (GitContents(w) \cup UNION {EntryContents(answers[k].entry) :
                                  k \in {k \in DOMAIN answers :
                                           answers[k].is = "hit"}})

Contents(artifacts, w, available) ==
  [a \in artifacts |-> Produce(a, w, available)]
Made(contents) ==
  UNION {Closure(contents[a][1]) : a \in {a \in DOMAIN contents :
                                            contents[a] # Fail}}

\* The result with the contents in place of the artifacts, as it is cached.
RECURSIVE Extensional(_, _), KnownProviders(_, _)
KnownValue(v, contents) ==
  CASE v[1] = "value"    -> ValueNode(Extensional(v[2], contents))
    [] v[1] = "abstract" ->
         AbstractNode(v[2], v[3], KnownProviders(v[4], contents))
    [] OTHER -> IF IsKnown(v) THEN v ELSE Known(contents[v][1])
KnownStage(stage, contents) ==
  Once([p \in DOMAIN stage |->
          IF IsKnown(stage[p]) THEN stage[p] ELSE Known(contents[stage[p]][1])])
KnownProviders(provides, contents) ==
  Once([p \in DOMAIN provides |->
          [i \in DOMAIN provides[p] |-> KnownValue(provides[p][i], contents)]])
Extensional(result, contents) ==
  TargetResult(KnownStage(result.artifacts, contents),
               KnownStage(result.runfiles, contents),
               KnownProviders(result.provides, contents))
EntriesFor(registered, contents) ==
  [k \in {e.key : e \in registered} |->
     LET e == CHOOSE e \in registered : e.key = k
     IN TargetCacheEntry(Extensional(e.result, contents), e.implied)]

\* BuildAndStage: what the artifacts turn into, if all can be had.
OutputContents(stage, contents) == [p \in DOMAIN stage |-> contents[stage[p]]]
Incomplete(made) ==
  [ok |-> FALSE, made |-> made, entries |-> NoCache, outputs |-> EmptyStage]
Executed(analysed, contents, uploaded) ==
  IF \E a \in DOMAIN contents : contents[a] = Fail
  THEN Incomplete(Made(contents) \cup uploaded)
  ELSE [ok |-> TRUE, made |-> Made(contents) \cup uploaded,
        entries |-> EntriesFor(analysed.registered, contents),
        outputs |-> OutputContents(OutputArtifacts(analysed.result), contents)]
WithUploads(analysed, w, uploaded, found) ==
  Executed(analysed,
    Once(Contents(NeededFor(ToBuild(analysed)), w, found \cup uploaded)), uploaded)
BuildFrom(analysed, answers, w, found) ==
  WithUploads(analysed, w,
    Uploaded(answers, w, NeededFor(CacheArtifacts(analysed.registered) \cup
                                     RangeOf(OutputArtifacts(analysed.result)))),
    found \cup GitContents(w))
BuildAndStage(analysed, answers, w, local) ==
  BuildFrom(analysed, answers, w, remote \cup local)

\* An entry is written when those it implies are there, and its artifacts can
\* be brought to the CAS beside the cache.
Retrievable(entry, w, local) ==
  EntryContents(entry) \subseteq remote \cup local \cup GitContents(w)
\* Mutant of ImpliedThere: entries are written in any order.
ImpliedIgnored(k, entry, there) == TRUE
ImpliedThere(k, entry, there) == entry.implied \ {k} \subseteq there

-----------------------------------------------------------------------------
(* A build *)

Start(key) ==
  /\ build.phase \in {"idle", "done"} /\ builds < MaxBuilds
  /\ build' = [phase |-> "analyse", key |-> key, answers |-> EmptyStage]
  /\ builds' = builds + 1
  /\ UNCHANGED <<version, cas, cache, remote, serve, trouble>>

Answer(answer, k) ==
  build' = [phase |-> "analyse", key |-> build.key,
            answers |-> (k :> answer) @@ build.answers]
Question(k) ==
  IF k \in DOMAIN cache THEN Answer(Hit(cache[k]), k)
  ELSE IF Served = {} THEN Answer(Miss, k)
  ELSE build' = [phase |-> "ask", key |-> build.key, answers |-> build.answers,
                 asked |-> k]
Over(outcome) == [phase |-> "done", key |-> build.key, outcome |-> outcome]
Proceed(analysed) ==
  CASE analysed.is = "waits"  -> Question(analysed.key)
    [] analysed.is = "failed" -> build' = Over(Fail)
    [] OTHER -> build' = [phase |-> "run", key |-> build.key,
                          answers |-> build.answers, analysed |-> analysed]
Context(answers) ==
  [answers |-> answers, complete |-> FALSE, serve |-> Served # {}]
AnalyseTarget ==
  /\ build.phase = "analyse"
  /\ Proceed(Analyse(ws, build.key, Context(build.answers)))
  /\ UNCHANGED <<version, cas, cache, remote, serve, builds, trouble>>

Afterwards(result) ==
  /\ build' = IF result.ok
              THEN [phase |-> "write", key |-> build.key,
                    pending |-> result.entries, outcome |-> <<result.outputs>>]
              ELSE Over(Fail)
  /\ remote' = remote \cup result.made
Run ==
  /\ build.phase = "run"
  /\ Afterwards(BuildAndStage(build.analysed, build.answers, ws, cas))
  /\ UNCHANGED <<version, cas, cache, serve, builds, trouble>>

\* WriteTargetCacheEntries
Pending == IF build.phase = "write" THEN DOMAIN build.pending ELSE {}
Dealt(k) ==
  build' = [build EXCEPT !.pending = [j \in DOMAIN @ \ {k} |-> @[j]]]
Store(k) ==
  /\ ImpliedThere(k, build.pending[k], DOMAIN cache)
  /\ Retrievable(build.pending[k], ws, cas)
  /\ cas' = cas \cup EntryContents(build.pending[k])
  /\ cache' = (k :> build.pending[k]) @@ cache
  /\ Dealt(k)
  /\ UNCHANGED <<version, remote, serve, builds, trouble>>
\* A failure is only reported; what depends on the entry is not written either.
NotStored(k) ==
  /\ \/ ~ImpliedThere(k, build.pending[k], DOMAIN cache \cup DOMAIN build.pending)
     \/ ~Retrievable(build.pending[k], ws, cas)
  /\ Dealt(k)
  /\ UNCHANGED <<version, cas, cache, remote, serve, builds, trouble>>
Finish ==
  /\ build.phase = "write" /\ DOMAIN build.pending = {}
  /\ build' = Over(build.outcome)
  /\ UNCHANGED <<version, cas, cache, remote, serve, builds, trouble>>

-----------------------------------------------------------------------------
(* The serve endpoint *)

Asked == build.asked
ServedRepos == Reachable(ws, {RepoOf(Asked[2])})
\* Its roots are those named by the repository key.
ServedWorkspace ==
  [ws EXCEPT !.repos =
     [r \in ServedRepos |-> [ws.repos[r] EXCEPT !.absent = FALSE]]]
ServeContext ==
  [answers |-> [k \in DOMAIN serve.cache |-> Hit(serve.cache[k])],
   complete |-> TRUE, serve |-> FALSE]

\* A new entry is answered with once all are written and uploaded; with fewer
\* the endpoint has crashed.
Writable(entries, keys) ==
  \A k \in keys :
    /\ ImpliedThere(k, entries[k], keys \cup DOMAIN serve.cache)
    /\ Retrievable(entries[k], ServedWorkspace, serve.cas)
Respond(entries, keys) ==
  IF keys = DOMAIN entries
  THEN Answer(Hit(entries[Asked]), Asked) /\ UNCHANGED trouble
  ELSE /\ trouble < MaxTrouble /\ trouble' = trouble + 1
       /\ Answer(Miss, Asked)
KeepEntries(entries, keys) ==
  serve' = [cas |-> serve.cas \cup UNION {EntryContents(entries[k]) : k \in keys},
            cache |-> [k \in keys |-> entries[k]] @@ serve.cache]
WriteAndRespond(entries) ==
  \E keys \in SUBSET DOMAIN entries :
    /\ Writable(entries, keys) /\ KeepEntries(entries, keys)
    /\ Respond(entries, keys)
ServedBuild(result) ==
  /\ remote' = remote \cup result.made \cup
       IF result.ok THEN EntryContents(result.entries[Asked]) ELSE {}
  /\ IF result.ok THEN WriteAndRespond(result.entries)
     ELSE Answer(Error, Asked) /\ UNCHANGED <<serve, trouble>>
ServedAnalysis(analysed) ==
  IF analysed.is = "failed"
  THEN Answer(Error, Asked) /\ UNCHANGED <<remote, serve, trouble>>
  ELSE ServedBuild(BuildAndStage(analysed, ServeContext.answers,
                                 ServedWorkspace, serve.cas))
ServeTarget ==
  /\ build.phase = "ask"
  /\ CASE Asked \in DOMAIN serve.cache ->
            /\ Answer(Hit(serve.cache[Asked]), Asked)
            /\ remote' = remote \cup EntryContents(serve.cache[Asked])
            /\ UNCHANGED <<serve, trouble>>
       [] ~(ServedRepos \subseteq Served) ->     \* DetermineRoots
            Answer(Miss, Asked) /\ UNCHANGED <<remote, serve, trouble>>
       [] OTHER ->
            ServedAnalysis(Analyse(ServedWorkspace,
                                   ConfiguredTarget(Asked[2], Asked[3]),
                                   ServeContext))
  /\ UNCHANGED <<version, cas, cache, builds>>
\* Not reachable, out of the blobs it needs, or failing internally.
ServeFails ==
  /\ build.phase = "ask" /\ trouble < MaxTrouble
  /\ \E answer \in {Miss, Error} : Answer(answer, Asked)
  /\ trouble' = trouble + 1
  /\ UNCHANGED <<version, cas, cache, remote, serve, builds>>

-----------------------------------------------------------------------------
(* The world around                                                        *)

Edit ==
  /\ build.phase \in {"idle", "done"} /\ version + 1 \in Versions
  /\ version' = version + 1 /\ build' = Idle
  /\ UNCHANGED <<cas, cache, remote, serve, builds, trouble>>
Crash ==
  /\ build.phase \in {"analyse", "ask", "run", "write"} /\ trouble < MaxTrouble
  /\ build' = Idle /\ trouble' = trouble + 1
  /\ UNCHANGED <<version, cas, cache, remote, serve, builds>>
\* A tree goes with what is in it.
Evict ==
  /\ trouble < MaxTrouble /\ trouble' = trouble + 1
  /\ \E c \in remote : remote' = {t \in remote : c \notin Closure(t)}
  /\ UNCHANGED <<version, cas, cache, serve, build, builds>>

Next ==
  \/ \E key \in Requests : Start(key)
  \/ AnalyseTarget \/ Run \/ Finish
  \/ \E k \in Pending : Store(k)
  \/ \E k \in Pending : NotStored(k)
  \/ ServeTarget \/ ServeFails
  \/ Edit \/ Crash \/ Evict
Spec == Init /\ [][Next]_vars

-----------------------------------------------------------------------------
(* What a build has to come to: that of the same workspace with all of it  *)
(* at hand, no cache and nobody to ask.                                    *)

Whole(v) ==
  [Workspace(v) EXCEPT !.repos =
     [r \in DOMAIN @ |-> [@[r] EXCEPT !.absent = FALSE]]]
FreshContext == [answers |-> EmptyStage, complete |-> TRUE, serve |-> FALSE]
Keys == {ConfiguredTarget(r.target, c) : r \in Requests, c \in Configs}
FreshAnalysis ==
  [v \in Versions |->
     [key \in Keys |-> Analyse(Whole(v), key, FreshContext)]]
FreshOutcome(v, analysed) ==
  IF analysed.is = "failed"
  THEN Incomplete({})
  ELSE BuildFrom(analysed, EmptyStage, Whole(v), {})
FreshBuild ==
  [v \in Versions |->
     [key \in Keys |-> FreshOutcome(v, FreshAnalysis[v][key])]]
FreshEntries ==
  UNION {{<<k, b.entries[k]>> : k \in DOMAIN b.entries} :
           b \in {b \in UNION {RangeOf(FreshBuild[v]) : v \in Versions} : b.ok}}

-----------------------------------------------------------------------------
(* Properties *)

Shape == [idle |-> {"phase"}, analyse |-> {"phase", "key", "answers"},
          ask  |-> {"phase", "key", "answers", "asked"},
          run  |-> {"phase", "key", "answers", "analysed"},
          write |-> {"phase", "key", "pending", "outcome"},
          done |-> {"phase", "key", "outcome"}]
TypeOK ==
  /\ version \in Versions /\ builds \in 0..MaxBuilds /\ trouble \in 0..MaxTrouble
  /\ DOMAIN build = Shape[build.phase]
  /\ cas = UNION {Closure(c) : c \in cas}
  /\ remote = UNION {Closure(c) : c \in remote}
  /\ serve.cas = UNION {Closure(c) : c \in serve.cas}

\* Whatever crashes, gets lost or fails, the artifacts of every entry of the
\* target cache are in the CAS beside it, and the export targets it implies
\* have entries as well.
Backed(entries, contents) ==
  \A k \in DOMAIN entries : /\ EntryContents(entries[k]) \subseteq contents
                            /\ entries[k].implied \subseteq DOMAIN entries
EntriesBacked == Backed(cache, cas) /\ Backed(serve.cache, serve.cas)

\* An entry is what analysing and building its export target anew, in the
\* sources and the configuration that its key is for, would yield.
Sound(entries, fresh) ==
  \A k \in DOMAIN entries : {e[2] : e \in {e \in fresh : e[1] = k}} = {entries[k]}
BothSound(fresh) == Sound(cache, fresh) /\ Sound(serve.cache, fresh)
EntriesSound == BothSound(FreshEntries)

\* A build has the outputs of one without any cache, and unless there is
\* trouble it fails only if that one does.
SameOutcome(outcome, fresh) ==
  IF outcome # Fail THEN fresh.ok /\ outcome[1] = fresh.outputs
  ELSE trouble = 0 => ~fresh.ok
OutcomeAsFresh ==
  build.phase = "done" =>
    SameOutcome(build.outcome, FreshBuild[version][build.key])

\* Two configurations that agree on the variables a target reports give the
\* same result: the first of them stands for both in the ResultTargetMap.
SameResults(analyses, key, read) ==
  \A c \in Configs :
    Prune(c, read) = Prune(key.config, read) =>
      /\ analyses[[key EXCEPT !.config = c]].is = "ok"
      /\ analyses[[key EXCEPT !.config = c]].result = analyses[key].result
VarsSuffice ==
  build.phase = "run" =>
    SameResults(FreshAnalysis[version], build.key, build.analysed.vars)

\* What may fail, or is not to be cached, stays out of the target cache.
TaintKept ==
  build.phase = "run" =>
    \A a \in NeededFor(CacheArtifacts(build.analysed.registered)) :
      a[1] = "action" => ~a[2].may_fail /\ ~a[2].no_cache
=============================================================================
