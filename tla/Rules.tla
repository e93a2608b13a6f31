-------------------------------- MODULE Rules --------------------------------
(***************************************************************************)
(* What an analysed target is, and how the expressions in the fields of a  *)
(* target and in the body of a rule are evaluated                          *)
(* (src/buildtool/build_engine/target_map/target_map.cpp, utils.cpp).      *)
(*                                                                         *)
(* The module Evaluator is about the language itself.  Here an expression  *)
(* is one of the few forms that matter to analysis: literals, the          *)
(* configuration, and the functions that rules are given.  Every value is  *)
(* optional, <<v>> or Fail; expressions of a wrong type are one more way   *)
(* to fail.  A list of strings in which the order is immaterial is a set.  *)
(***************************************************************************)
EXTENDS SequencesExt

(***************************************************************************)
(* Artifacts and stages: what a target consists of before anything is      *)
(* built (src/buildtool/common/artifact_description.hpp, tree.hpp,         *)
(* tree_overlay.hpp, action_description.hpp) and the operations of target  *)
(* analysis on them (build_engine/target_map/utils.cpp).                   *)
(*                                                                         *)
(* Identifiers are hashes of what they identify; the model puts the        *)
(* identified description in their place, so an artifact contains the      *)
(* action or tree that produces it.  A path is the sequence of its         *)
(* components, and a stage a function from paths to artifacts.  Contents   *)
(* are tagged values; a tree is a function from paths to contents.         *)
(***************************************************************************)
(* Artifact descriptions *)

Local(path, repo)        == <<"local", path, repo>>
\* The repository a known artifact is from is only where its content is looked
\* for, not a part of its identity.
Known(content)           == <<"known", content>>
ActionOutput(desc, path) == <<"action", desc, path>>
TreeOf(stage)            == <<"tree", stage>>
OverlayOf(parts, disjoint) == <<"overlay", parts, disjoint>>
IsKnown(a) == a[1] = "known"

File(data) == <<"file", data>>
Link(data) == <<"link", data>>
Directory(entries) == <<"tree", entries>>

-----------------------------------------------------------------------------
(* Stages *)

EmptyStage == [p \in {} |-> <<>>]
\* Expression::map_t{below, above}: what is staged later wins.
Onto(above, below) == above @@ below
Dot == <<".">>
ToNormalPath(path) ==
  LET parts == SelectSeq(path, LAMBDA c : c # ".")
  IN IF parts = <<>> THEN Dot ELSE parts
PathIsNonUpwards(path) ==
  \/ path = <<>>
  \/ Head(path) # "/" /\ Head(ToNormalPath(path)) # ".."
InDirectory(dir, path) == ToNormalPath(dir \o path)

\* Two different artifacts at one path.
FindConflictingDuplicate(s, t) == \E p \in DOMAIN s \cap DOMAIN t : s[p] # t[p]

\* The first of the keys with the same normal path, in their order as strings.
NormalStage(stage, Before(_, _)) ==
  [p \in {ToNormalPath(q) : q \in DOMAIN stage} |->
     stage[CHOOSE q \in DOMAIN stage :
             /\ ToNormalPath(q) = p
             /\ \A r \in DOMAIN stage \ {q} :
                  ToNormalPath(r) = p => Before(q, r)]]
\* "./a" is before "a", the only spellings that occur.
DotFirst(p, q) == p # <<>> /\ Head(p) = "."
Normalised(stage) == NormalStage(stage, DotFirst)
\* artifacts_tree: the stage with normal paths, or <<>> if entries collide.
ArtifactsTree(stage) ==
  IF \E p, q \in DOMAIN stage : /\ ToNormalPath(p) = ToNormalPath(q)
                                /\ stage[p] # stage[q]
  THEN <<>>
  ELSE <<Normalised(stage)>>

\* tree_conflict looks at the paths as they are written.
TreeConflict(stage) ==
  \E p \in DOMAIN stage :
    \/ p = Dot /\ Cardinality(DOMAIN stage) > 1
    \/ p # <<>> /\ Head(p) \in {"/", ".."}
    \/ \E q \in DOMAIN stage \ {p} : q # <<>> /\ IsPrefix(q, p)

\* add_dir_for: an empty tree at the working directory, where one fits.
AddDirFor(cwd, stage) ==
  IF \/ cwd \in {<<>>, Dot}
     \/ \E p \in DOMAIN stage : \/ p \in {<<>>, Dot}
                                \/ IsPrefix(p, cwd) \/ IsPrefix(cwd, p)
  THEN stage
  ELSE Onto([p \in {cwd} |-> TreeOf(EmptyStage)], stage)

-----------------------------------------------------------------------------
(* Actions *)

\* Labels, environments, timeouts and execution properties are left out.
CreateAction(outs, dirs, cmd, cwd, may_fail, no_cache, inputs) ==
  [outs |-> outs, dirs |-> dirs, cmd |-> cmd, cwd |-> cwd,
   may_fail |-> may_fail, no_cache |-> no_cache, inputs |-> inputs]
\* The artifacts an action produces, at the paths the rule writes.
OutputsOf(desc, paths) == [p \in paths |-> ActionOutput(desc, ToNormalPath(p))]

-----------------------------------------------------------------------------
Fail == <<>>
Bind(option, Then(_)) == IF option = Fail THEN Fail ELSE Then(option[1])
\* Then of the values of a function or sequence of options, if all have one.
\* "f @@ EmptyStage" is f; it makes TLC evaluate the entries only once.
Once(f) == f @@ EmptyStage
AllOf(options, Then(_)) ==
  IF \E i \in DOMAIN options : options[i] = Fail THEN Fail
  ELSE Then(Once([i \in DOMAIN options |-> options[i][1]]))
All(options, Then(_)) == AllOf(Once(options), Then)

-----------------------------------------------------------------------------
(* Configurations: functions from variables to values, or Null *)

Null == "null"
NoConfig == [x \in {} |-> Null]
VariableFixed(config, x) == x \in DOMAIN config
ValueOf(config, x) == IF VariableFixed(config, x) THEN config[x] ELSE Null
Prune(config, vars) == [x \in vars |-> ValueOf(config, x)]
Update(config, transition) == transition @@ config

-----------------------------------------------------------------------------
(* Results of targets, and target nodes *)

TargetResult(artifacts, runfiles, provides) ==
  [artifacts |-> artifacts, runfiles |-> runfiles, provides |-> provides]
NoProviders == [p \in {} |-> <<>>]
ValueNode(result) == <<"value", result>>
AbstractNode(type, strings, targets) == <<"abstract", type, strings, targets>>

\* A provider is a sequence of artifacts, nodes and names of targets.
RECURSIVE IsCacheable(_)
IsCacheable(provides) ==
  \A p \in DOMAIN provides : \A i \in DOMAIN provides[p] :
    LET v == provides[p][i]
    IN CASE v[1] = "name"     -> FALSE
         [] v[1] = "value"    -> IsCacheable(v[2].provides)
         [] v[1] = "abstract" -> IsCacheable(v[4])
         [] OTHER             -> TRUE

RangeOf(stage) == {stage[p] : p \in DOMAIN stage}
\* All artifacts a result contains, those in nodes of its providers included.
RECURSIVE ContainedArtifacts(_), ProvidedArtifacts(_)
ContainedArtifacts(result) ==
  RangeOf(result.artifacts) \cup RangeOf(result.runfiles)
    \cup ProvidedArtifacts(result.provides)
ProvidedArtifacts(provides) ==
  UNION {CASE v[1] = "name"     -> {}
           [] v[1] = "value"    -> ContainedArtifacts(v[2])
           [] v[1] = "abstract" -> ProvidedArtifacts(v[4])
           [] OTHER             -> {v} :
         v \in UNION {RangeOf(provides[p]) : p \in DOMAIN provides}}

-----------------------------------------------------------------------------
(* The outcome of analysing a target.  "registered" are the export targets *)
(* to be cached, of the target and of all it depends on: the part of the   *)
(* ResultTargetMap that outlives analysis.  Its other part, the actions    *)
(* and trees, is in the artifacts already.                                 *)

Analysed(result, vars, tainted, implied, registered) ==
  [is |-> "ok", result |-> result, vars |-> vars, tainted |-> tainted,
   implied |-> implied, registered |-> registered]
Failed  == [is |-> "failed"]
Waits(key) == [is |-> "waits", key |-> key]

\* A target asks for its dependencies and goes on only when all are there.
WhenReady(values, Then(_)) ==
  IF \E i \in DOMAIN values : values[i].is = "failed" THEN Failed
  ELSE IF \E i \in DOMAIN values : values[i].is = "waits"
  THEN values[CHOOSE i \in DOMAIN values : values[i].is = "waits"]
  ELSE Then(values)
WithValues(values, Then(_)) == WhenReady(Once(values), Then)

UnionOf(values, Field(_)) == UNION {Field(values[i]) : i \in DOMAIN values}
VarsOf(values) == UnionOf(values, LAMBDA a : a.vars)
ImpliedBy(values) == UnionOf(values, LAMBDA a : a.implied)
RegisteredBy(values) == UnionOf(values, LAMBDA a : a.registered)
\* A target has to be tainted with whatever its dependencies are.
TaintIncludes(tainted, values) ==
  \A i \in DOMAIN values : values[i].tainted \subseteq tainted

-----------------------------------------------------------------------------
(* Expressions.  An environment has the configuration, the parameters that *)
(* FIELD reads, the taint of the rule, and the dependencies: a function    *)
(* from a target name and a transition to the analysed target.             *)

Env(config, params, tainted, deps) ==
  [config |-> config, params |-> params, tainted |-> tainted, deps |-> deps]
NoDeps == [d \in {} |-> Failed]
FieldEnv(config, deps) == Env(config, [f \in {} |-> <<>>], {}, deps)
ConfigEnv(config) == FieldEnv(config, NoDeps)

ObtainTarget(env, dep, transition) ==
  IF <<dep, transition>> \in DOMAIN env.deps
  THEN <<env.deps[<<dep, transition>>]>> ELSE Fail    \* undeclared

RECURSIVE Eval(_, _)
EvalAll(exprs, env, Then(_)) ==
  All([i \in DOMAIN exprs |-> Eval(exprs[i], env)], Then)

FieldExpr(name, env) ==
  IF name \in DOMAIN env.params THEN <<env.params[name]>> ELSE Fail
DepArtifacts(dep, transition, env) ==
  Bind(ObtainTarget(env, dep, transition), LAMBDA t : <<t.result.artifacts>>)
DepRunfiles(dep, transition, env) ==
  Bind(ObtainTarget(env, dep, transition), LAMBDA t : <<t.result.runfiles>>)
DepProvides(dep, transition, provider, env) ==
  Bind(ObtainTarget(env, dep, transition),
       LAMBDA t : <<IF provider \in DOMAIN t.result.provides
                    THEN t.result.provides[provider] ELSE <<>>>>)
\* [f(d) for d in FIELD(name)], as rules are commonly written.
ForeachDep(name, env, Of(_)) ==
  Bind(FieldExpr(name, env),
       LAMBDA deps : All([i \in DOMAIN deps |-> Of(deps[i])], LAMBDA l : <<l>>))
MapUnion(stages) == <<FoldLeft(LAMBDA s, t : Onto(t, s), EmptyStage, stages)>>

\* ACTION(inputs, outs, out_dirs, cmd, cwd, may_fail, no_cache); the last two
\* are literal and must be declared as taint of the rule.
ActionExpr(e, env) ==
  LET outs == {ToNormalPath(p) : p \in e[3]}
      dirs == {ToNormalPath(p) : p \in e[4]}
  IN EvalAll(<<e[2], e[5], e[6]>>, env, LAMBDA arg :
       Bind(ArtifactsTree(arg[1]), LAMBDA inputs :
         IF \/ TreeConflict(inputs)
            \/ outs \cup dirs = {} \/ outs \cap dirs # {}
            \/ arg[2] = <<>> \/ ~PathIsNonUpwards(arg[3])
            \/ ~(e[7] \subseteq env.tainted) \/ ~(e[8] \subseteq env.tainted)
         THEN Fail
         ELSE LET action == CreateAction(outs, dirs, arg[2], arg[3],
                              e[7] # {}, e[8] # {}, AddDirFor(arg[3], inputs))
              IN <<OutputsOf(action, e[3] \cup e[4])>>))
BlobExpr(e, env) ==
  Bind(Eval(e[2], env), LAMBDA data : <<Known(File(data))>>)
SymlinkExpr(e, env) ==
  Bind(Eval(e[2], env), LAMBDA data :
    IF PathIsNonUpwards(data) THEN <<Known(Link(data))>> ELSE Fail)
ExprToTree(stage) ==
  IF TreeConflict(stage) THEN Fail ELSE <<TreeOf(Normalised(stage))>>
TreeExpr(e, env) == Bind(Eval(e[2], env), ExprToTree)
\* TREE_OVERLAY and DISJOINT_TREE_OVERLAY
TreeOverlayExpr(e, env) ==
  EvalAll(e[2], env, LAMBDA stages :
    All([i \in DOMAIN stages |-> ExprToTree(stages[i])],
        LAMBDA parts : <<OverlayOf(parts, e[3])>>))
ValueNodeExpr(e, env) ==
  Bind(Eval(e[2], env), LAMBDA result : <<ValueNode(result)>>)
AbstractNodeExpr(e, env) ==
  IF DOMAIN e[3] \cap DOMAIN e[4] # {} THEN Fail
  ELSE EvalAll(e[4], env,
         LAMBDA nodes : <<AbstractNode(e[2], e[3], nodes)>>)
ResultExpr(e, env) ==
  EvalAll(<<e[2], e[3], e[4]>>, env, LAMBDA arg :
    All(<<ArtifactsTree(arg[1]), ArtifactsTree(arg[2])>>, LAMBDA stages :
      IF TreeConflict(stages[1]) \/ TreeConflict(stages[2]) THEN Fail
      ELSE <<TargetResult(stages[1], stages[2], arg[3])>>))

Eval(e, env) ==
  CASE e[1] = "lit"   -> <<e[2]>>
    [] e[1] = "var"   -> <<ValueOf(env.config, e[2])>>
    [] e[1] = "if"    -> IF ValueOf(env.config, e[2]) = e[3]
                         THEN Eval(e[4], env) ELSE Eval(e[5], env)
    [] e[1] = "outs"  ->
         Bind(DepArtifacts(e[2], e[3], env), LAMBDA s : <<DOMAIN s>>)
    [] e[1] = "runfiles" ->
         Bind(DepRunfiles(e[2], e[3], env), LAMBDA s : <<DOMAIN s>>)
    [] e[1] = "list"  -> EvalAll(e[2], env, LAMBDA l : <<l>>)
    [] e[1] = "stage" -> Bind(Eval(e[3], env), LAMBDA a : <<[p \in {e[2]} |-> a]>>)
    [] e[1] = "map_union" -> EvalAll(e[2], env, MapUnion)
    [] e[1] = "provider" ->
         Bind(Eval(e[3], env), LAMBDA l : <<[p \in {e[2]} |-> l]>>)
    [] e[1] = "FIELD" -> FieldExpr(e[2], env)
    [] e[1] = "DEP_ARTIFACTS" ->
         Bind(ForeachDep(e[2], env, LAMBDA d : DepArtifacts(d, e[3], env)),
              MapUnion)
    [] e[1] = "DEP_RUNFILES" ->
         Bind(ForeachDep(e[2], env, LAMBDA d : DepRunfiles(d, e[3], env)),
              MapUnion)
    [] e[1] = "DEP_PROVIDES" ->
         Bind(ForeachDep(e[2], env, LAMBDA d : DepProvides(d, e[3], e[4], env)),
              LAMBDA l : <<FlattenSeq(l)>>)
    [] e[1] = "ACTION"  -> ActionExpr(e, env)
    [] e[1] = "BLOB"    -> BlobExpr(e, env)
    [] e[1] = "SYMLINK" -> SymlinkExpr(e, env)
    [] e[1] = "TREE"    -> TreeExpr(e, env)
    [] e[1] = "TREE_OVERLAY"  -> TreeOverlayExpr(e, env)
    [] e[1] = "VALUE_NODE"    -> ValueNodeExpr(e, env)
    [] e[1] = "ABSTRACT_NODE" -> AbstractNodeExpr(e, env)
    [] e[1] = "RESULT"        -> ResultExpr(e, env)
    [] OTHER -> Fail

\* getTainted
GetTainted(expr, config) == Eval(expr, ConfigEnv(config))
=============================================================================
