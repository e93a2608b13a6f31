------------------------------- MODULE BuiltIns ------------------------------
(***************************************************************************)
(* The built-in rules, save for export                                     *)
(* (src/buildtool/build_engine/target_map/built_in_rules.cpp): which       *)
(* targets a definition depends on, and what it yields once these are      *)
(* analysed.  A definition is a record of its fields; "type" and "vars",   *)
(* the variables it may read, are always there, other fields as given.     *)
(***************************************************************************)
EXTENDS Rules

ConfiguredTarget(target, config) == [target |-> target, config |-> config]

BlobTypes == {"file_gen", "symlink"}
OverlayTypes == {"tree_overlay", "disjoint_tree_overlay"}
BuiltInTypes == BlobTypes \cup OverlayTypes \cup {"tree", "install", "generic",
                                                 "configure"}

Lit(value) == <<"lit", value>>
NoText == <<"text", "">>
\* The values of optional fields that are left out.
Defaults(type) ==
  [deps |-> Lit(<<>>), tainted |-> Lit({}), dirs |-> Lit(<<>>),
   name |-> Lit(IF type \in BlobTypes THEN <<"out.txt">> ELSE <<>>),
   data |-> Lit(IF type = "symlink" THEN <<>> ELSE NoText),
   outs |-> Lit({}), out_dirs |-> Lit({}), cmds |-> Lit(<<>>),
   cwd |-> Lit(<<>>), config |-> Lit(NoConfig)]
WithFields(desc, fields, env, Then(_)) ==
  EvalAll([f \in fields |-> (desc @@ Defaults(desc.type))[f]], env, Then)

ParamConfig(desc, key) == Prune(key.config, desc.vars)

-----------------------------------------------------------------------------
(* What a target depends on.  Names are evaluated without any dependency.  *)

FieldsNaming(type) ==
  CASE type = "configure" -> {"target", "config", "tainted"}
    [] type = "install"   -> {"deps", "dirs"}
    [] type \in BlobTypes -> {"deps"}
    [] type = "generic"   -> {"deps"}
    [] OTHER              -> {"deps", "name"}
WithNames(desc, key, Then(_)) ==
  WithFields(desc, FieldsNaming(desc.type), ConfigEnv(ParamConfig(desc, key)),
             Then)
\* The "files" of an install target, evaluated one by one.
WithFiles(desc, key, Then(_)) ==
  EvalAll(IF "files" \in DOMAIN desc THEN desc.files ELSE EmptyStage,
          ConfigEnv(ParamConfig(desc, key)), Then)

InConfig(names, config) ==
  [i \in DOMAIN names |-> ConfiguredTarget(names[i], config)]
InstalledTargets(named, files) ==
  named.deps \o [i \in 1..Cardinality(DOMAIN files) |->
                   files[SetToSeq(DOMAIN files)[i]]]
             \o [i \in DOMAIN named.dirs |-> named.dirs[i][1]]
DependencyKeys(desc, key) ==
  WithNames(desc, key, LAMBDA named :
    IF desc.type = "configure"
    THEN <<InConfig(<<named.target>>, Update(key.config, named.config))>>
    ELSE IF desc.type = "install"
    THEN WithFiles(desc, key, LAMBDA files :
           <<InConfig(InstalledTargets(named, files), key.config)>>)
    ELSE <<InConfig(named.deps, key.config)>>)

\* The dependencies as the functions of a field's expression find them.
EmptyTransition == NoConfig
ByTransition(names, values) ==
  [d \in {<<names[i], EmptyTransition>> : i \in DOMAIN names} |->
     values[CHOOSE i \in DOMAIN names : names[i] = d[1]]]

-----------------------------------------------------------------------------
(* What a target consists of, as an option.                                *)

AtBoth(stage) == <<TargetResult(stage, stage, NoProviders)>>
OnlyAt(path, artifact) == [p \in {path} |-> artifact]

\* One stage after the other; none if two of them differ on a path.
RECURSIVE Staged(_)
Staged(stages) ==
  IF stages = <<>> THEN <<EmptyStage>>
  ELSE Bind(Staged(Front(stages)), LAMBDA stage :
         IF FindConflictingDuplicate(stage, Last(stages)) THEN Fail
         ELSE <<Onto(Last(stages), stage)>>)

\* BlobGenRuleWithDeps
BlobGen(desc, key, named, values) ==
  WithFields(desc, {"name", "data"},
    FieldEnv(ParamConfig(desc, key), ByTransition(named.deps, values)),
    LAMBDA f :
      IF desc.type = "file_gen"
      THEN AtBoth(OnlyAt(f.name, Known(File(f.data))))
      ELSE IF PathIsNonUpwards(f.data)
      THEN AtBoth(OnlyAt(f.name, Known(Link(f.data))))
      ELSE Fail)

\* TreeRuleWithDeps: the artifacts of each dependency over its runfiles, ...
StageOf(target) == Onto(target.result.artifacts, target.result.runfiles)
StagesOf(values) == [i \in DOMAIN values |-> StageOf(values[i])]
TreeAt(named, values) ==
  Bind(Staged(StagesOf(values)), LAMBDA stage :
    IF TreeConflict(stage) THEN Fail
    ELSE AtBoth(OnlyAt(named.name, TreeOf(Normalised(stage)))))
\* ... or one tree for the artifacts of each, to be merged when built.
OverlayAt(named, values, disjoint) ==
  AtBoth(OnlyAt(named.name,
    OverlayOf([i \in DOMAIN values |->
                 TreeOf(Normalised(values[i].result.artifacts))], disjoint)))

\* InstallRuleWithDeps
SoleEntry(target) ==
  LET stage == IF target.result.artifacts = EmptyStage
               THEN target.result.runfiles ELSE target.result.artifacts
  IN IF Cardinality(DOMAIN stage) = 1
     THEN <<stage[CHOOSE p \in DOMAIN stage : TRUE]>> ELSE Fail
FilesStage(stage, files, Target(_)) ==
  IF DOMAIN files \cap DOMAIN stage # {} THEN Fail
  ELSE All([p \in DOMAIN files |-> SoleEntry(Target(files[p]))],
           LAMBDA entries : <<Onto(entries, stage)>>)
Below(dir, stage) ==
  [p \in {InDirectory(dir, q) : q \in DOMAIN stage} |->
     stage[CHOOSE q \in DOMAIN stage : InDirectory(dir, q) = p]]
SubdirStage(dir, target) ==
  Onto(Below(dir, target.result.artifacts), Below(dir, target.result.runfiles))
Installed(named, files, Target(_)) ==
  Bind(Staged([i \in DOMAIN named.deps |->
                 Target(named.deps[i]).result.runfiles]), LAMBDA runfiles :
    Bind(FilesStage(runfiles, files, Target), LAMBDA stage :
      Bind(Staged(<<stage>> \o
                  [i \in DOMAIN named.dirs |->
                     SubdirStage(named.dirs[i][2], Target(named.dirs[i][1]))]),
           LAMBDA all : IF TreeConflict(all) THEN Fail ELSE AtBoth(all))))
Install(desc, key, named, values) ==
  WithFiles(desc, key, LAMBDA files :
    LET names == InstalledTargets(named, files)
    IN Installed(named, files, LAMBDA t :
         values[CHOOSE i \in DOMAIN names : names[i] = t]))

\* GenericRuleWithDeps: later dependencies win, artifacts over all runfiles.
InputsOf(values) ==
  FoldLeft(LAMBDA stage, part : Onto(part, stage), EmptyStage,
    [i \in DOMAIN values |-> values[i].result.runfiles] \o
    [i \in DOMAIN values |-> values[i].result.artifacts])
GenericAction(f, outs, dirs, inputs) ==
  CreateAction(outs, dirs, f.cmds, f.cwd, FALSE, FALSE, AddDirFor(f.cwd, inputs))
SoleResult(stage) ==
  IF TreeConflict(stage) THEN Fail
  ELSE <<TargetResult(stage, EmptyStage, NoProviders)>>
GenericOutputs(f, outs, dirs, inputs) ==
  IF \/ outs \cup dirs = {} \/ outs \cap dirs # {}
     \/ ~PathIsNonUpwards(f.cwd) \/ TreeConflict(inputs)
  THEN Fail
  ELSE SoleResult(OutputsOf(GenericAction(f, outs, dirs, inputs), outs \cup dirs))
Generic(desc, key, named, values) ==
  WithFields(desc, {"outs", "out_dirs", "cmds", "cwd"},
    FieldEnv(ParamConfig(desc, key), ByTransition(named.deps, values)),
    LAMBDA f : GenericOutputs(f, {ToNormalPath(p) : p \in f.outs},
                              {ToNormalPath(p) : p \in f.out_dirs},
                              InputsOf(values)))

BuiltInResult(desc, key, named, values) ==
  CASE desc.type \in BlobTypes    -> BlobGen(desc, key, named, values)
    [] desc.type = "tree"         -> TreeAt(named, values)
    [] desc.type \in OverlayTypes ->
         OverlayAt(named, values, desc.type = "disjoint_tree_overlay")
    [] desc.type = "install"      -> Install(desc, key, named, values)
    [] desc.type = "generic"      -> Generic(desc, key, named, values)
    [] desc.type = "configure"    -> <<values[1].result>>

-----------------------------------------------------------------------------
(* The analysed target                                                     *)

\* A configure target decides on the variables it sets.
VarsRead(desc, named, values) ==
  desc.vars \cup IF desc.type = "configure"
                 THEN VarsOf(values) \ DOMAIN named.config
                 ELSE VarsOf(values)
OrFailed(option) == IF option = Fail THEN Failed ELSE option[1]
BuiltIn(desc, key, values) ==
  OrFailed(WithNames(desc, key, LAMBDA named :
    WithFields(desc, {"tainted"}, ConfigEnv(ParamConfig(desc, key)), LAMBDA f :
      IF ~TaintIncludes(f.tainted, values) THEN Fail
      ELSE Bind(BuiltInResult(desc, key, named, values), LAMBDA result :
             <<Analysed(result, VarsRead(desc, named, values), f.tainted,
                        ImpliedBy(values), RegisteredBy(values))>>))))
=============================================================================
