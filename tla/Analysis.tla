------------------------------- MODULE Analysis ------------------------------
(***************************************************************************)
(* Target analysis: what a target, in a configuration, stands for          *)
(* (src/buildtool/build_engine/target_map/target_map.cpp, export.cpp,      *)
(* absent_target_map.cpp, base_maps/source_map.cpp).                       *)
(*                                                                         *)
(* A workspace has the rules and, for each repository, its targets, the    *)
(* directory with its sources, the repositories it refers to, whether its  *)
(* roots are content-fixed ("known") or absent, and an identifier of their *)
(* content, as the hash of the roots is.  What the target cache or a serve *)
(* endpoint answers to the question for an export target is input, in      *)
(* ctx.answers: analysis waits at a question with no answer yet, unless    *)
(* ctx.complete says that there is nothing more to ask.                    *)
(***************************************************************************)
EXTENDS BuiltIns

(***************************************************************************)
(* Targets defined by a user rule, and the anonymous targets such a rule   *)
(* makes of the nodes its dependencies provide                             *)
(* (src/buildtool/build_engine/target_map/target_map.cpp).                 *)
(*                                                                         *)
(* A rule is a record of its declarations: string_fields, config_fields,   *)
(* target_fields, config_vars and tainted are sets, implicit is a function *)
(* from fields to names of targets, anonymous from fields to records of    *)
(* target, provider and rule_map, transitions from fields to expressions   *)
(* (for those with one), and expression is the body.                       *)
(***************************************************************************)
AnonymousName(rule_map, node) == <<"anon", rule_map, node>>
IsNode(v) == v[1] \in {"value", "abstract"}

-----------------------------------------------------------------------------
(* The fields of a target, given by its definition or by an abstract node. *)

FieldsOf(rule) == rule.config_fields \cup rule.string_fields
                                     \cup rule.target_fields
FromFieldReader(rule, desc) ==
  [vars |-> desc.vars,
   tainted |-> IF "tainted" \in DOMAIN desc THEN desc.tainted ELSE Lit({}),
   exprs |-> [f \in FieldsOf(rule) |->
                IF f \in DOMAIN desc THEN desc[f] ELSE Lit(<<>>)]]
FromTargetNode(rule, rule_map, node) ==
  LET strings == node[3]
      targets == node[4]
  IN IF \/ DOMAIN targets \cap (rule.config_fields \cup rule.string_fields) # {}
        \/ DOMAIN strings \cap rule.target_fields # {}
     THEN Fail
     ELSE <<[vars |-> {}, tainted |-> Lit({}),
             exprs |-> [f \in FieldsOf(rule) |->
               Lit(IF f \in DOMAIN strings THEN strings[f]
                   ELSE IF f \in DOMAIN targets
                   THEN [i \in DOMAIN targets[f] |->
                           AnonymousName(rule_map, targets[f][i])]
                   ELSE <<>>)]]>>

-----------------------------------------------------------------------------
(* Dependencies.  A plan has the values of the fields that name targets or *)
(* configure transitions, and the list of transitions of each such field.  *)

ParamConfigOf(data, key) == Prune(key.config, data.vars)
Transition(rule, field) ==
  IF field \in DOMAIN rule.transitions THEN rule.transitions[field]
  ELSE Lit(<<EmptyTransition>>)
TransitionFields(rule) ==
  rule.target_fields \cup DOMAIN rule.implicit \cup DOMAIN rule.anonymous
Plan(rule, data, key) ==
  EvalAll([f \in rule.config_fields |-> data.exprs[f]],
    ConfigEnv(ParamConfigOf(data, key)), LAMBDA params :
    EvalAll([f \in TransitionFields(rule) |-> Transition(rule, f)],
      Env(Prune(key.config, rule.config_vars), params, {}, NoDeps),
      LAMBDA transitions :
      EvalAll([f \in rule.target_fields |-> data.exprs[f]],
        ConfigEnv(ParamConfigOf(data, key)), LAMBDA names :
        <<[params |-> params @@ names @@ rule.implicit,
           transitions |-> transitions]>>)))

\* Each transition is combined with each target of the field.
Request(field, transition, target) ==
  [field |-> field, transition |-> transition, target |-> target]
RequestsOf(field, transitions, names) ==
  FlattenSeq([i \in DOMAIN transitions |->
    [j \in DOMAIN names |-> Request(field, transitions[i], names[j])]])
RequestsOfFields(fields, transitions, params) ==
  FlattenSeq([i \in DOMAIN fields |->
    RequestsOf(fields[i], transitions[fields[i]], params[fields[i]])])
DeclaredRequests(rule, plan) ==
  RequestsOfFields(SetToSeq(rule.target_fields \cup DOMAIN rule.implicit),
                   plan.transitions, plan.params)
KeysOf(requests, key) ==
  [i \in DOMAIN requests |->
     ConfiguredTarget(requests[i].target,
                      Update(key.config, requests[i].transition))]

-----------------------------------------------------------------------------
(* Anonymous targets: the nodes in a provider of the targets of a field.   *)

NodesOf(value, provider) ==
  IF /\ provider \in DOMAIN value.result.provides
     /\ \A i \in DOMAIN value.result.provides[provider] :
          IsNode(value.result.provides[provider][i])
  THEN <<value.result.provides[provider]>> ELSE Fail
AnonymousNames(def, requests, values) ==
  LET positions == SetToSortSeq({i \in DOMAIN requests :
                                   requests[i].field = def.target}, <)
  IN All([i \in DOMAIN positions |-> NodesOf(values[positions[i]], def.provider)],
       LAMBDA lists : <<[i \in DOMAIN FlattenSeq(lists) |->
                           AnonymousName(def.rule_map, FlattenSeq(lists)[i])]>>)
WithAnonymous(rule, plan, requests, values, Then(_)) ==
  All([f \in DOMAIN rule.anonymous |->
         AnonymousNames(rule.anonymous[f], requests, values)], LAMBDA names :
    Then([plan EXCEPT !.params = @ @@ names]))
AnonymousRequests(rule, plan) ==
  RequestsOfFields(SetToSeq(DOMAIN rule.anonymous), plan.transitions,
                   plan.params)

-----------------------------------------------------------------------------
(* withDependencies                                                        *)

DepsByTransition(requests, values) ==
  [d \in {<<requests[i].target, requests[i].transition>> :
            i \in DOMAIN requests} |->
     values[CHOOSE i \in DOMAIN requests :
              <<requests[i].target, requests[i].transition>> = d]]
\* Mutant of EffectiveVars: without those of the rule.
TargetVars(rule, data, requests, values) ==
  data.vars \cup UNION {values[i].vars \ DOMAIN requests[i].transition :
                         i \in DOMAIN requests}
\* What a transition fixes is not read from the configuration.
EffectiveVars(rule, data, requests, values) ==
  data.vars \cup rule.config_vars
    \cup UNION {values[i].vars \ DOMAIN requests[i].transition :
                  i \in DOMAIN requests}
\* The body of the rule sees the rule's variables, the fields the target's.
RuleResult(rule, data, key, plan, deps) ==
  EvalAll([f \in rule.string_fields |-> data.exprs[f]],
    FieldEnv(ParamConfigOf(data, key), deps), LAMBDA strings :
    Eval(rule.expression,
         Env(Prune(key.config, rule.config_vars), plan.params @@ strings,
             rule.tainted, deps)))
WithDependencies(rule, data, key, plan, requests, values) ==
  Bind(GetTainted(data.tainted, ParamConfigOf(data, key)), LAMBDA tainted :
    IF ~TaintIncludes(tainted \cup rule.tainted, values) THEN Fail
    ELSE Bind(RuleResult(rule, data, key, plan,
                         DepsByTransition(requests, values)), LAMBDA result :
      IF DOMAIN result # {"artifacts", "runfiles", "provides"} THEN Fail
      ELSE <<Analysed(result, EffectiveVars(rule, data, requests, values),
                      tainted \cup rule.tainted, ImpliedBy(values),
                      RegisteredBy(values))>>))

-----------------------------------------------------------------------------
NamedTarget(repo, t)          == <<"name", repo, t>>
FileRef(repo, module, name)   == <<"file", repo, module, name>>
TreeRef(repo, module, name)   == <<"treeref", repo, module, name>>
GlobRef(repo, module, matches) == <<"glob", repo, module, matches>>
RepoOf(target) == target[2]

-----------------------------------------------------------------------------
(* Sources *)

RECURSIVE EntryAt(_, _)
EntryAt(content, path) ==
  CASE path = <<>>          -> <<content>>
    [] content[1] # "tree"  -> Fail
    [] OTHER ->
         IF Head(path) \in DOMAIN content[2]
         THEN EntryAt(content[2][Head(path)], Tail(path)) ELSE Fail
IsBlob(content) == content[1] \in {"file", "link"}

SourceStage(name, artifact) ==
  Analysed(TargetResult(OnlyAt(name, artifact), OnlyAt(name, artifact),
                        NoProviders), {}, {}, {}, {})
ToArtifactDescription(ws, repo, path, content) ==
  IF content[1] = "link" /\ ~PathIsNonUpwards(content[2]) THEN Fail
  ELSE IF ws.repos[repo].known THEN <<Known(content)>>
  ELSE <<Local(path, repo)>>
SourceTarget(ws, repo, module, name) ==
  LET path == ToNormalPath(module \o name)
  IN IF ~PathIsNonUpwards(name) THEN Failed
     ELSE OrFailed(Bind(EntryAt(ws.repos[repo].root, path), LAMBDA content :
            IF ~IsBlob(content) THEN Fail
            ELSE Bind(ToArtifactDescription(ws, repo, path, content),
                      LAMBDA artifact : <<SourceStage(name, artifact)>>)))

\* The files and symbolic links of a directory that match a pattern.
Matches(ws, repo, module, pattern) ==
  LET directory == EntryAt(ws.repos[repo].root, module)
  IN IF directory = Fail THEN {}
     ELSE {x \in DOMAIN directory[1][2] :
             x \in pattern /\ IsBlob(directory[1][2][x])}
GlobResult(values) ==
  LET stage == FoldLeft(LAMBDA s, v : Onto(v.result.artifacts, s), EmptyStage,
                        values)
  IN Analysed(TargetResult(stage, stage, NoProviders), {}, {}, {}, {})
GlobTarget(ws, repo, module, pattern) ==
  LET names == SetToSeq(Matches(ws, repo, module, pattern))
  IN WithValues([i \in DOMAIN names |->
                   SourceTarget(ws, repo, module, <<names[i]>>)], GlobResult)

\* A tree is known, or one of its entries, which are targets themselves.
EntryTargets(repo, dir, entries) ==
  LET names == SetToSeq(DOMAIN entries)
  IN [i \in DOMAIN names |->
        ConfiguredTarget(IF IsBlob(entries[names[i]])
                         THEN FileRef(repo, dir, <<names[i]>>)
                         ELSE TreeRef(repo, dir, <<names[i]>>), NoConfig)]
SoleRunfile(value) == CHOOSE p \in DOMAIN value.result.runfiles : TRUE
TreeResult(name, values) ==
  SourceStage(name, TreeOf([p \in {SoleRunfile(values[i]) : i \in DOMAIN values}
    |-> values[CHOOSE i \in DOMAIN values : SoleRunfile(values[i]) = p]
          .result.runfiles[p]]))

-----------------------------------------------------------------------------
(* Export targets *)

RECURSIVE Reachable(_, _)
Reachable(ws, repos) ==
  LET next == repos \cup UNION {ws.repos[r].bindings : r \in repos}
  IN IF next = repos THEN repos ELSE Reachable(ws, next)
\* Mutant of RepositoryKey: only of the repository itself.
RepositoryKeyShallow(ws, repo) ==
  IF \A r \in Reachable(ws, {repo}) : ws.repos[r].known
  THEN <<[r \in {repo} |-> ws.repos[r].id]>> ELSE Fail

\* None, unless everything the repository refers to is content-fixed as well.
RepositoryKey(ws, repo) ==
  LET all == Reachable(ws, {repo})
  IN IF \A r \in all : ws.repos[r].known
     THEN <<[r \in all |-> ws.repos[r].id]>> ELSE Fail
ComputeKey(repo_key, key) == <<repo_key, key.target, key.config>>

\* A cache entry: a result all of whose artifacts are known, and the keys of
\* the export targets it was made from, its own among them.
TargetCacheEntry(result, implied) == [result |-> result, implied |-> implied]
Hit(entry) == [is |-> "hit", entry |-> entry]
Miss  == [is |-> "miss"]     \* not known, or not to be told
Error == [is |-> "error"]    \* the analysis has to fail
AnswerOf(ctx, cache_key) ==
  CASE cache_key \in DOMAIN ctx.answers -> <<ctx.answers[cache_key]>>
    [] ctx.complete                     -> <<Miss>>
    [] OTHER                            -> Fail
\* Mutant of FromEntry: without the runfiles.
FromEntryBare(entry, flexible) ==
  Analysed([entry.result EXCEPT !.runfiles = EmptyStage], flexible, {},
           entry.implied, {})

FromEntry(entry, flexible) ==
  Analysed(entry.result, flexible, {}, entry.implied, {})
\* Mutant of FinalizeExport: whatever it is tainted with.
FinalizeAnyExport(value, flexible, cache_key) ==
  IF ~IsCacheable(value.result.provides) THEN Failed
  ELSE LET implied == value.implied \cup Range(cache_key)
       IN Analysed(value.result, flexible, {}, implied,
            value.registered \cup
              {[key |-> k, result |-> value.result, implied |-> implied] :
                 k \in Range(cache_key)})

FinalizeExport(value, flexible, cache_key) ==
  IF value.tainted # {} \/ ~IsCacheable(value.result.provides) THEN Failed
  ELSE LET implied == IF cache_key = Fail THEN {}
                      ELSE value.implied \cup {cache_key[1]}
       IN Analysed(value.result, flexible, {}, implied,
            value.registered \cup
              {[key |-> k, result |-> value.result, implied |-> implied] :
                 k \in Range(cache_key)})

-----------------------------------------------------------------------------
(* CreateTargetMap                                                         *)

RECURSIVE Analyse(_, _, _)
AnalyseAll(ws, keys, ctx) == [i \in DOMAIN keys |-> Analyse(ws, keys[i], ctx)]
WithTargets(ws, option, ctx, Then(_)) ==
  OrFailed(Bind(option, LAMBDA keys :
    <<WithValues(AnalyseAll(ws, keys, ctx), Then)>>))

BuiltInTarget(ws, key, desc, ctx) ==
  WithTargets(ws, DependencyKeys(desc, key), ctx,
              LAMBDA values : BuiltIn(desc, key, values))

\* withRuleDefinition: first the named dependencies, then the anonymous ones.
RuleTarget(ws, key, rule, data, ctx) ==
  OrFailed(Bind(Plan(rule, data, key), LAMBDA plan :
    LET declared == DeclaredRequests(rule, plan)
    IN <<WithTargets(ws, <<KeysOf(declared, key)>>, ctx, LAMBDA values :
      OrFailed(WithAnonymous(rule, plan, declared, values, LAMBDA full :
        LET anonymous == AnonymousRequests(rule, full)
        IN <<WithTargets(ws, <<KeysOf(anonymous, key)>>, ctx, LAMBDA nodes :
          OrFailed(WithDependencies(rule, data, key, full,
                     declared \o anonymous, values \o nodes)))>>)))>>))

\* withTargetNode
NodeTarget(ws, key, rule_map, node, ctx) ==
  IF node[1] = "value" THEN Analysed(node[2], {}, {}, {}, {})
  ELSE IF node[2] \notin DOMAIN rule_map THEN Failed
  ELSE LET rule == ws.rules[rule_map[node[2]]]
       IN OrFailed(Bind(FromTargetNode(rule, rule_map, node),
            LAMBDA data : <<RuleTarget(ws, key, rule, data, ctx)>>))

TreeTarget(ws, repo, module, name, ctx) ==
  OrFailed(Bind(EntryAt(ws.repos[repo].root, module \o name), LAMBDA content :
    IF IsBlob(content) THEN Fail
    ELSE IF ws.repos[repo].known
    THEN <<SourceStage(name, Known(content))>>
    ELSE <<WithTargets(ws, <<EntryTargets(repo, module \o name, content[2])>>,
             ctx, LAMBDA values : TreeResult(name, values))>>))

\* With no answer, the exported target in the flexible and fixed variables.
Exported(ws, key, desc, cache_key, ctx) ==
  IF DOMAIN desc.fixed_config \cap DOMAIN key.config # {} THEN Failed
  ELSE WithTargets(ws,
         <<InConfig(<<desc.target>>, Update(key.config, desc.fixed_config))>>,
         ctx, LAMBDA values :
           FinalizeExport(values[1], desc.flexible, cache_key))
ByAnswer(answer, cache_key, desc, Otherwise) ==
  CASE answer = Fail         -> Waits(cache_key)
    [] answer[1].is = "hit"  -> FromEntry(answer[1].entry, desc.flexible)
    [] answer[1].is = "miss" -> Otherwise
    [] OTHER                 -> Failed
CacheKey(ws, key) ==
  Bind(RepositoryKey(ws, RepoOf(key.target)),
       LAMBDA repo_key : <<ComputeKey(repo_key, key)>>)
ExportTarget(ws, key, desc, ctx) ==
  LET cache_key == CacheKey(ws, key)
      absent == ws.repos[RepoOf(key.target)].absent
      exported == IF absent THEN Failed
                  ELSE Exported(ws, key, desc, cache_key, ctx)
  IN IF key.config # Prune(key.config, desc.flexible)
     THEN Analyse(ws, [key EXCEPT !.config = Prune(@, desc.flexible)], ctx)
     ELSE IF cache_key = Fail THEN exported
     ELSE ByAnswer(AnswerOf(ctx, cache_key[1]), cache_key[1], desc, exported)

\* Without definition a name is that of a source; nothing but the answers of
\* the serve endpoint is there for a repository that is absent.
DefinedTarget(ws, key, repo, t, ctx) ==
  IF t \notin DOMAIN ws.repos[repo].targets
  THEN IF ws.repos[repo].absent THEN Failed
       ELSE SourceTarget(ws, repo, <<>>, <<t>>)
  ELSE LET desc == ws.repos[repo].targets[t]
       IN IF desc.type = "export" /\ (ws.repos[repo].absent => ctx.serve)
          THEN ExportTarget(ws, key, desc, ctx)
          ELSE IF ws.repos[repo].absent THEN Failed
          ELSE IF desc.type \in BuiltInTypes
          THEN BuiltInTarget(ws, key, desc, ctx)
          ELSE IF desc.type \notin DOMAIN ws.rules THEN Failed
          ELSE RuleTarget(ws, key, ws.rules[desc.type],
                 FromFieldReader(ws.rules[desc.type], desc), ctx)

Analyse(ws, key, ctx) ==
  LET target == key.target
  IN CASE target[1] = "anon"    -> NodeTarget(ws, key, target[2], target[3], ctx)
       [] target[1] = "treeref" -> TreeTarget(ws, target[2], target[3], target[4],
                                              ctx)
       [] target[1] = "file"    -> SourceTarget(ws, target[2], target[3],
                                                target[4])
       [] target[1] = "glob"    -> GlobTarget(ws, target[2], target[3], target[4])
       [] OTHER                 -> DefinedTarget(ws, key, target[2], target[3],
                                                 ctx)
=============================================================================
