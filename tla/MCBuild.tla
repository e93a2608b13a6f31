------------------------------- MODULE MCBuild ------------------------------
(***************************************************************************)
(* A workspace of five repositories for TLC.  "main" lies in the file      *)
(* system; "lib" and "base" are content-fixed, and lib refers to base;     *)
(* "tools" has what every library target is built with; "far" is absent,   *)
(* only the serve endpoint has its roots.                                  *)
(***************************************************************************)
EXTENDS Build

Name(repo, t)     == NamedTarget(repo, t)
Names(repo, ts)   == [i \in DOMAIN ts |-> Name(repo, ts[i])]
Key(repo, t, config) == ConfiguredTarget(Name(repo, t), config)
Text(x)           == <<"text", x>>
Arch(a)           == [x \in {"ARCH"} |-> a]
Mode(m)           == [x \in {"MODE"} |-> m]

-----------------------------------------------------------------------------
(* Rules *)

Artifacts(field, transition) == <<"DEP_ARTIFACTS", field, transition>>
Plain == [string_fields |-> {}, config_fields |-> {}, target_fields |-> {},
          config_vars |-> {}, tainted |-> {}, anonymous |-> EmptyStage,
          implicit |-> EmptyStage, transitions |-> EmptyStage,
          expression |-> Lit(<<>>)]
Wrapped(x) == <<"TREE", <<"stage", <<x>>, <<"BLOB", Lit(Text(x))>>>>>>
\* A node with a result of its own.
Kid ==
  <<"VALUE_NODE",
    <<"RESULT", <<"stage", <<"kid">>, Wrapped("kid")>>, Lit(EmptyStage),
      Lit(NoProviders)>>>>
\* Compiles for an architecture, with a compiler built for the host; tells by
\* an abstract node what else can be made of it.
Library ==
  [Plain EXCEPT
     !.string_fields = {"cmd"}, !.config_fields = {"mode"},
     !.target_fields = {"srcs", "deps"}, !.config_vars = {"ARCH"},
     !.implicit = [f \in {"cc"} |-> <<Name("tools", "cc")>>],
     !.transitions = [f \in {"cc"} |-> Lit(<<Arch("host")>>)],
     !.expression =
       <<"RESULT",
         <<"ACTION", <<"map_union", <<Artifacts("srcs", NoConfig),
                         Artifacts("deps", NoConfig),
                         Artifacts("cc", Arch("host"))>>>>,
           {<<"lib.a">>}, {},
           <<"list", <<<<"FIELD", "cmd">>, <<"var", "ARCH">>,
                       <<"FIELD", "mode">>>>>>,
           Lit(<<"work">>), {}, {}>>,
         <<"map_union",
           <<<<"DEP_RUNFILES", "deps", NoConfig>>,
             <<"stage", <<"note">>, <<"BLOB", Lit(Text("note"))>>>>>>>>,
         <<"map_union",
           <<<<"provider", "parts", <<"list", <<Wrapped("part")>>>>>>,
             <<"provider", "nodes",
               <<"list", <<<<"ABSTRACT_NODE", "leaf",
                             [f \in {"content"} |-> Text("leaf")],
                             [f \in {"kids"} |-> <<"list", <<Kid>>>>]>>,
                           Kid>>>>>>>>>>>>]
\* A directory with what it is made of, and a link to that.
Leaf ==
  [Plain EXCEPT
     !.string_fields = {"content"}, !.target_fields = {"kids"},
     !.expression =
       <<"RESULT",
         <<"stage", <<"leaf">>,
           <<"TREE_OVERLAY",
             <<Artifacts("kids", NoConfig),
               <<"stage", <<"in">>, <<"BLOB", <<"FIELD", "content">>>>>>,
               <<"stage", <<"link">>, <<"SYMLINK", Lit(<<"in">>)>>>>>>, FALSE>>>>,
         Lit(EmptyStage), Lit(NoProviders)>>]
\* Collects what the nodes of its dependencies turn into.
Collect ==
  [Plain EXCEPT
     !.target_fields = {"deps"},
     !.anonymous =
       [f \in {"found"} |->
          [target |-> "deps", provider |-> "nodes",
           rule_map |-> [n \in {"leaf"} |-> "leaf"]]],
     !.expression =
       <<"RESULT", Artifacts("found", NoConfig), Lit(EmptyStage),
         <<"provider", "all", <<"DEP_PROVIDES", "deps", NoConfig, "nodes">>>>>>]
\* Runs the artifacts it tests, and may fail.
Test ==
  [Plain EXCEPT
     !.target_fields = {"deps"}, !.tainted = {"test"},
     !.expression =
       <<"RESULT",
         <<"ACTION", Artifacts("deps", NoConfig), {<<"log">>}, {},
           Lit(<<"false">>), Lit(<<>>), {"test"}, {"test"}>>,
         Lit(EmptyStage), Lit(NoProviders)>>]

-----------------------------------------------------------------------------
(* Targets *)

Target(type) == [type |-> type, vars |-> {}]
Export(t, flexible, fixed) ==
  [type |-> "export", target |-> t, flexible |-> flexible,
   fixed_config |-> fixed]
LibraryTarget(srcs, deps, mode) ==
  [Target("library") EXCEPT !.vars = {"MODE"}] @@
  [srcs |-> Lit(srcs), deps |-> Lit(deps), mode |-> mode,
   cmd |-> Lit("cc")]

MainTargets ==
  [app |-> LibraryTarget(<<GlobRef("main", <<>>, {"a.c", "b.c"})>>,
             <<Name("lib", "lib")>>, Lit("debug")),
   gen |-> Target("file_gen") @@
             [name |-> Lit(<<".", "gen">>), data |-> Lit(Text("1"))],
   gen2 |-> Target("file_gen") @@
             [name |-> Lit(<<"gen">>), data |-> Lit(Text("2"))],
   sym |-> Target("symlink") @@
             [name |-> Lit(<<"sym">>), data |-> Lit(<<"gen">>)],
   docs |-> Target("tree") @@
             [deps |-> Lit(<<TreeRef("main", <<>>, <<"doc">>),
                             Name("main", "gen")>>), name |-> Lit(<<"docs">>)],
   bundle |-> Target("install") @@
             [deps |-> Lit(Names("main", <<"app">>)),
              files |-> [p \in {<<"bin", "app">>} |-> Lit(Name("main", "app"))],
              dirs |-> Lit(<<<<Name("main", "docs"), <<"share">>>>>>)],
   over |-> Target("tree_overlay") @@
             [deps |-> Lit(Names("main", <<"gen", "docs", "gen2">>)),
              name |-> Lit(<<"over">>)],
   disjoint |-> Target("disjoint_tree_overlay") @@
             [deps |-> Lit(Names("main", <<"gen", "docs", "gen2">>)),
              name |-> Lit(<<"over">>)],
   all |-> Target("generic") @@
             [deps |-> Lit(Names("main", <<"over", "sym", "conf">>)),
              outs |-> <<"outs", Name("main", "conf"), NoConfig>>,
              out_dirs |-> <<"runfiles", Name("main", "conf"), NoConfig>>,
              cmds |-> Lit(<<"cat">>), cwd |-> Lit(<<"w">>)],
   conf |-> Target("configure") @@
             [target |-> Lit(Name("main", "app")), config |-> Lit(Arch("arm"))],
   nodes |-> Target("collect") @@ [deps |-> Lit(Names("main", <<"app">>))],
   solo |-> LibraryTarget(<<Name("main", "a.c")>>, <<>>, Lit("debug")),
   test |-> Target("test") @@
             [deps |-> Lit(Names("main", <<"solo">>))],
   both |-> Target("install") @@
             [dirs |-> Lit(<<<<Name("far", "far"), <<"far">>>>,
                             <<Name("lib", "lib"), <<"lib">>>>>>)]]
LibTargets ==
  [lib     |-> Export(Name("lib", "libimpl"), {"ARCH"}, Mode("release")),
   libimpl |-> LibraryTarget(<<Name("lib", "l.c")>>, <<Name("base", "hdr")>>,
                             <<"var", "MODE">>),
   test    |-> Target("test") @@
                 [deps |-> Lit(<<Name("base", "hdr")>>),
                  tainted |-> Lit({"test"})],
   bad     |-> Export(Name("lib", "test"), {}, NoConfig)]
BaseTargets ==
  [hdr     |-> Export(Name("base", "hdrimpl"), {}, NoConfig),
   hdrimpl |-> Target("generic") @@
                 [deps |-> Lit(<<FileRef("base", <<>>, <<"h.in">>)>>),
                  outs |-> Lit({<<"h">>}), cmds |-> Lit(<<"sed">>)]]
ToolsTargets ==
  [cc |-> [Target("file_gen") EXCEPT !.vars = {"ARCH"}] @@
            [name |-> <<"if", "ARCH", "host", Lit(<<"cc">>), Lit(<<"none">>)>>]]
FarTargets ==
  [far     |-> Export(Name("far", "farimpl"), {"ARCH"}, Mode("fast")),
   farimpl |-> LibraryTarget(<<Name("far", "f.c")>>, <<Name("base", "hdr")>>,
                             <<"var", "MODE">>),
   test    |-> Target("test") @@
                 [deps |-> Lit(<<Name("base", "hdr")>>),
                  tainted |-> Lit({"test"})],
   bad     |-> Export(Name("far", "test"), {}, NoConfig),
   stop    |-> Export(Name("far", "stopimpl"), {}, NoConfig),
   stopimpl |-> Target("generic") @@
                 [outs |-> Lit({<<"out">>}), cmds |-> Lit(<<"false">>)]]

-----------------------------------------------------------------------------
(* Workspaces *)

Src(x) == File(<<"src", x>>)
Repository(targets, root, bindings, known, absent) ==
  [targets |-> targets, root |-> root, bindings |-> bindings, known |-> known,
   absent |-> absent, id |-> root]
MCWorkspace(v) ==
  [rules |-> [library |-> Library, leaf |-> Leaf, collect |-> Collect,
              test |-> Test],
   repos |->
     [main  |-> Repository(MainTargets,
                  Directory(("a.c" :> Src("a")) @@ ("b.c" :> Src("b")) @@
                            ("doc" :> Directory([f \in {"text"} |-> Src("t")]))),
                  {"lib", "tools", "far"}, FALSE, FALSE),
      lib   |-> Repository(LibTargets, Directory([f \in {"l.c"} |-> Src("l")]),
                  {"base", "tools"}, TRUE, FALSE),
      base  |-> Repository(BaseTargets,
                  Directory([f \in {"h.in"} |-> Src(IF v = 1 THEN "h1" ELSE "h2")]),
                  {}, TRUE, FALSE),
      tools |-> Repository(ToolsTargets, Directory(EmptyStage), {}, TRUE, FALSE),
      far   |-> Repository(FarTargets, Directory([f \in {"f.c"} |-> Src("f")]),
                  {"base", "tools"}, TRUE, TRUE)]]
MCConfigs == {NoConfig, Arch("arm")}
MCRequests ==
  {Key("main", t, NoConfig) : t \in {"bundle", "disjoint", "all", "nodes",
                                     "test", "both"}}
  \cup {Key("lib", "lib", Arch("arm")), Key("lib", "bad", NoConfig),
        Key("far", "bad", NoConfig), Key("far", "stop", NoConfig)}
=============================================================================
