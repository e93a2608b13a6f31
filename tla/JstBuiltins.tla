----------------------------- MODULE JstBuiltins -----------------------------
(***************************************************************************)
(* The built-in functions of the jst language, applied to inlined          *)
(* arguments: evaluated statically where the arguments are literal enough, *)
(* otherwise turned into an expression for Evaluator::Evaluate             *)
(* (src/buildtool/jstlang/ast/builtin_functions.cpp).  foreach, zip_with   *)
(* and foldl, which inline again, are in JstInline.                        *)
(***************************************************************************)
EXTENDS JstAst

-----------------------------------------------------------------------------
(* Parameters *)

Mandatory(name, types) == [name |-> <<name>>, types |-> types, must |-> TRUE]
OptionalParam(name, types) == [name |-> <<name>>, types |-> types, must |-> FALSE]
AnyType == {}
OneOf(type) == {"Any", type}

ListSignature == <<Mandatory("list", OneOf("List"))>>
PathSignature == <<Mandatory("path", {"String"})>>
ArgsSignature == <<Mandatory("args", OneOf("List"))>>
NumbersSignature == <<Mandatory("numbers", OneOf("List"))>>
Default == OptionalParam("default", AnyType)
Signature(builtin) ==
  CASE builtin = "env"  -> <<Mandatory("name", {"String"}), Default>>
    [] builtin = "get"  -> <<Mandatory("key", OneOf("String")),
                             Mandatory("map", OneOf("Map")), Default>>
    [] builtin = "join" -> <<Mandatory("items", OneOf("List")),
                             OptionalParam("sep", OneOf("String"))>>
    [] builtin = "flatten" -> <<Mandatory("lists", OneOf("List"))>>
    [] builtin = "union"   -> <<Mandatory("maps", OneOf("List")),
                                OptionalParam("disjoint", AnyType)>>
    [] builtin = "keys"        -> <<Mandatory("map", OneOf("Map"))>>
    [] builtin = "fail"        -> <<Mandatory("msg", AnyType)>>
    [] builtin = "json_encode" -> <<Mandatory("data", AnyType)>>
    [] builtin \in {"file", "symlink", "tree"} -> PathSignature
    [] builtin = "glob" -> <<Mandatory("pattern", {"String"})>>
    [] builtin = "at"   -> <<Mandatory("index", {"Any", "String", "Number"}),
                             Mandatory("list", OneOf("List")), Default>>
    [] builtin \in {"all", "any", "join_cmd"} -> ArgsSignature
    [] builtin \in {"sum", "prod"}            -> NumbersSignature
    [] builtin = "eq"  -> <<Mandatory("lhs", AnyType), Mandatory("rhs", AnyType)>>
    [] builtin = "not" -> <<Mandatory("expr", AnyType)>>
    [] builtin = "foreach"  -> <<Mandatory("func", AnyType),
                                 Mandatory("range", OneOf("List"))>>
    [] builtin = "zip_with" -> <<Mandatory("func", AnyType),
                                 Mandatory("range1", OneOf("List")),
                                 Mandatory("range2", OneOf("List"))>>
    [] builtin = "foldl"    -> <<Mandatory("func", AnyType),
                                 Mandatory("init", AnyType),
                                 Mandatory("range", OneOf("List"))>>
    [] builtin = "zip_map"  -> <<Mandatory("range_key", OneOf("List")),
                                 Mandatory("range_val", OneOf("List"))>>
    [] builtin \in {"nub_right", "nub_left", "reverse", "length"} -> ListSignature
    [] builtin = "range"         -> <<Mandatory("size", AnyType)>>
    [] builtin = "basename"      -> <<Mandatory("path", OneOf("String"))>>
    [] builtin = "change_ending" -> <<Mandatory("path", OneOf("String")),
                                      OptionalParam("ending", OneOf("String"))>>
    [] builtin = "escape_chars"  -> <<Mandatory("str", OneOf("String")),
                                      OptionalParam("chars", OneOf("String")),
                                      OptionalParam("prefix", OneOf("String"))>>
    [] builtin = "enumerate"     -> <<Mandatory("items", OneOf("List"))>>
    [] builtin = "to_subdir"     -> <<Mandatory("map", OneOf("Map")),
                                      OptionalParam("subdir", OneOf("String")),
                                      OptionalParam("flat", AnyType),
                                      OptionalParam("msg", {"String"})>>
    [] builtin = "from_subdir"   -> <<Mandatory("map", OneOf("Map")),
                                      OptionalParam("subdir", OneOf("String"))>>
    [] OTHER -> <<>>

BuiltinNames ==
  <<"env", "get", "join", "flatten", "union", "keys", "fail", "json_encode",
   "file", "symlink", "tree", "glob", "at", "all", "any", "sum", "prod", "eq",
   "not", "foreach", "zip_with", "zip_map", "foldl", "nub_right", "nub_left",
   "range", "reverse", "length", "basename", "join_cmd", "change_ending",
   "escape_chars", "enumerate", "to_subdir", "from_subdir">>

\* MakeNamedParameters: the node of every parameter of the signature, if
\* given; parameters with other names are ignored.  Empty if it throws.
MakeNamedParameters(sig, names, nodes) ==
  LET Position(i) == Cardinality({j \in 1..i : names[j] = <<>>})
      name == Entries([i \in DOMAIN names |->
                 IF names[i] # <<>> THEN names[i]
                 ELSE IF Position(i) > Len(sig) THEN <<>>
                 ELSE sig[Position(i)].name])
      Given(p) == {nodes[i] : i \in {j \in DOMAIN nodes : name[j] = p.name}}
  IN IF \/ \E i \in DOMAIN name : name[i] = <<>>
        \/ \E i, j \in DOMAIN name : i # j /\ name[i] = name[j]
        \/ \E p \in ToSet(sig) :
             \/ p.must /\ Given(p) = {}
             \/ p.types # AnyType /\ \E n \in Given(p) : EvalType(n) \notin p.types
     THEN {}
     ELSE {[x \in {p.name[1] : p \in ToSet(sig)} |->
              LET given == Given(CHOOSE p \in ToSet(sig) : p.name[1] = x)
              IN IF given = {} THEN Absent ELSE CHOOSE n \in given : TRUE]}

-----------------------------------------------------------------------------
(* Comparison and conversion of nodes *)

SameValue(values) == IF Error \in values THEN {} ELSE {Cardinality(values) = 1}
\* The answers for literals and for all nodes.
ProduceSameJSON(lhs, rhs) ==
  [json_only \in BOOLEAN |-> SameValue({NodeToJson(n, json_only) : n \in {lhs, rhs}})]
\* Of expressions only equality can be told.
Settled(same) == IF same[TRUE] # {} THEN same[TRUE] ELSE same[FALSE] \cap {TRUE}
\* Whether two nodes evaluate to the same, if that is known.  That the code
\* knows identical nodes without looking at them makes a difference only for
\* nodes with functions in them.
CheckEqual(lhs, rhs) ==
  CASE /\ EvalType(lhs) # EvalType(rhs)
       /\ "Any" \notin {EvalType(lhs), EvalType(rhs)} -> {FALSE}
    [] Op(lhs) # Op(rhs) -> {}
    [] OTHER -> Settled(ProduceSameJSON(lhs, rhs))

NodeToNumber(n) ==
  CASE IsLit(n, "num") \/ IsString(n)      -> {Index(Data(n))}
    [] Op(n) \in {"lit", "list", "map"}    -> {0}
    [] EvalType(n) \notin {"Any", "Number", "String"} -> {0}
    [] OTHER                               -> {}

-----------------------------------------------------------------------------
(* Static and deferred evaluation *)

MapSeq(s, f(_)) == [i \in DOMAIN s |-> f(s[i])]

\* The expression type(fields), fields being pairs; absent ones are left out.
Runtime(type, fields, eval_type) ==
  LET given == SelectSeq(fields, LAMBDA f : f[2] # Absent)
      Named(f) == <<Lit(Str(<<f[1]>>)), f[2]>>
  IN VerbatimNode(
       MapNode(MapSeq(<<<<"type", Lit(Str(<<type>>))>>>> \o given, Named)),
       "Flat", eval_type)
Unary(type, arg, eval_type) == Runtime(type, <<<<"$1", arg>>>>, eval_type)

\* The answer, or the expression that finds it.
Decided(answer, runtime) == IF answer = {} THEN runtime ELSE Lit(Bool(answer = {TRUE}))

\* Items are visited in order; the first that is not literal decides.
OverItems(list, Literal(_), type, static, runtime) ==
  LET others == {i \in DOMAIN Args(list) : ~Literal(Args(list)[i])}
  IN CASE Op(list) # "list" -> runtime
       [] others = {}       -> static
       [] EvalType(Args(list)[Min(others)]) \in OneOf(type) -> runtime
       [] OTHER             -> Bad
StringsOf(list) == [i \in DOMAIN Args(list) |-> Data(Args(list)[i])[2]]
ValuesOf(list) == List([i \in DOMAIN Args(list) |-> Data(Args(list)[i])])

\* A separator is written once something is in front of it.
StaticJoin(parts, sep) ==
  StringNode(FoldLeft(LAMBDA out, s :
    (IF out = <<>> THEN out ELSE out \o sep) \o s, <<>>, parts))

\* The fields of a new map one by one, at the key where Place puts them (in a
\* set, which is empty if it leaves them out).  Fields that meet must be equal
\* if disjoint is set, otherwise the later one wins.
Collect(fields, Place(_), disjoint, runtime) ==
  LET MeetIf(equal, acc) ==
        CASE equal = {}      -> <<"runtime">>
          [] equal = {FALSE} -> <<"error">>
          [] OTHER           -> acc
      Meet(acc, i, f) ==
        IF disjoint THEN MeetIf(CheckEqual(f[2], acc[2][i][2]), acc)
        ELSE <<"static", [acc[2] EXCEPT ![i][2] = f[2]]>>
      Put(acc, f, key) ==
        LET at == {i \in DOMAIN acc[2] : Data(acc[2][i][1])[2] = key}
        IN IF at = {}
           THEN <<"static", Append(acc[2], <<StringNode(key), f[2]>>)>>
           ELSE Meet(acc, CHOOSE i \in at : TRUE, f)
      PutAt(acc, f, keys) ==
        IF keys = {} THEN acc ELSE Put(acc, f, CHOOSE key \in keys : TRUE)
      Step(acc, f) ==
        CASE acc[1] # "static"  -> acc
          [] ~IsString(f[1])    -> <<"runtime">>
          [] OTHER              -> PutAt(acc, f, Place(Data(f[1])[2]))
      Built(result) ==
        CASE result[1] = "static"  -> MapNode(result[2])
          [] result[1] = "runtime" -> runtime
          [] OTHER                 -> Bad
  IN Built(FoldLeft(Step, <<"static", <<>>>>, fields))

UnionOf(maps, disjoint) ==
  LET truth == IF disjoint = Absent THEN {FALSE} ELSE TruthValue(disjoint)
      type == IF truth = {TRUE} THEN "disjoint_map_union" ELSE "map_union"
      runtime == Unary(type, maps, "Map")
  IN IF truth = {} THEN Bad
     ELSE OverItems(maps, LAMBDA n : Op(n) = "map", "Map",
            Collect(FlattenSeq([i \in DOMAIN Args(maps) |-> Fields(Args(maps)[i])]),
                    LAMBDA k : {k}, truth = {TRUE}, runtime),
            runtime)

\* The last field of the name; a computed name behind it might be the same.
GetField(key, map, default) ==
  LET found == SelectSeq(Fields(map), LAMBDA f : ~IsString(f[1]) \/ f[1] = key)
      runtime == Runtime("lookup",
                   <<<<"key", key>>,
                     <<"map", IF EvalType(map) = "Any"
                              THEN IfNode(map, map, MapNode(<<>>)) ELSE map>>,
                     <<"default", default>>>>, "Any")
      Found(field) ==
        CASE ~IsString(field[1])  -> runtime
          [] field[2] # NullNode  -> field[2]
          [] default = Absent     -> NullNode
          [] OTHER                -> default
  IN IF Op(map) # "map" \/ ~IsString(key) THEN runtime
     ELSE Found(Last(<<<<key, NullNode>>>> \o found))

AtIndex(index, list, default) ==
  LET size == Len(Args(list))
      at == IF Index(Data(index)) < 0 THEN size + Index(Data(index))
            ELSE Index(Data(index))
  IN CASE Op(list) # "list" \/ ~(IsString(index) \/ IsLit(index, "num")) ->
            Runtime("[]", <<<<"index", index>>, <<"list", list>>,
                            <<"default", default>>>>, "Any")
       [] at \in 0..(size - 1) -> Args(list)[at + 1]
       [] OTHER -> IF default = Absent THEN NullNode ELSE default

\* Any item known to decide decides, wherever it stands.
Quantified(args, deciding, type) ==
  LET Known(truths) ==
        CASE {deciding} \in truths -> {deciding}
          [] {} \in truths         -> {}
          [] OTHER                 -> {~deciding}
  IN Decided(IF Op(args) # "list" THEN {}
             ELSE Known({TruthValue(n) : n \in ToSet(Args(args))}),
             Unary(type, args, "Bool"))

ZipMap(keys, vals) ==
  LET both == 1..Len(IF Len(Args(keys)) < Len(Args(vals)) THEN Args(keys)
                     ELSE Args(vals))
  IN CASE Op(keys) = "list" /\ Op(vals) = "list" ->
            IF \E i \in both : EvalType(Args(keys)[i]) \notin OneOf("String")
            THEN Bad
            ELSE MapNode([i \in both |-> <<Args(keys)[i], Args(vals)[i]>>])
       [] \E l \in {keys, vals} : l = ListNode(<<>>) -> MapNode(<<>>)
       [] OTHER -> Runtime("zip_map", <<<<"range_key", keys>>,
                                        <<"range_val", vals>>>>, "List")

\* Items are told apart by the JSON they produce.
Distinct(json, type) ==
  {i \in DOMAIN json : \A j \in DOMAIN json :
     json[j] = json[i] => (IF type = "nub_left" THEN j >= i ELSE j <= i)}
NubOf(list, json, type) ==
  IF Contains(json, Error) THEN Unary(type, list, "List")
  ELSE ListNode(LET kept == SetToSortSeq(Distinct(json, type), <)
                IN [i \in DOMAIN kept |-> Args(list)[kept[i]]])
Nub(list, type) ==
  CASE Op(list) # "list"     -> Unary(type, list, "List")
    [] Len(Args(list)) <= 1  -> list
    [] OTHER -> NubOf(list, Entries([i \in DOMAIN Args(list) |->
                               NodeToJson(Args(list)[i], TRUE)]), type)

Reference(type, path) ==
  IF IsString(path) THEN ListNode(<<StringNode(<<type>>), NullNode, path>>)
  ELSE Bad

StaticRange(size) ==
  LET number == NodeToNumber(size)
      n == CHOOSE k \in number : TRUE
  IN IF number = {} THEN Unary("range", size, "List")
     ELSE ListNode([i \in 1..Max({0, n}) |-> StringNode(Numeral(i - 1))])
ChangeEnding(path, ending) ==
  IF IsString(path) /\ (ending = Absent \/ IsString(ending))
  THEN StringNode(WithoutEnding(Data(path)[2])
                    \o (IF ending = Absent THEN <<>> ELSE Data(ending)[2]))
  ELSE Runtime("change_ending", <<<<"$1", path>>, <<"ending", ending>>>>, "String")
EscapeChars(str, chars, prefix) ==
  IF IsString(str) /\ \A n \in {chars, prefix} : n = Absent \/ IsString(n)
  THEN StringNode(Escape(Data(str)[2],
         IF chars = Absent THEN <<>> ELSE Data(chars)[2],
         IF prefix = Absent THEN <<"\\">> ELSE Data(prefix)[2]))
  ELSE Runtime("escape_chars", <<<<"$1", str>>, <<"chars", chars>>,
                                 <<"escape_prefix", prefix>>>>, "String")
Enumeration(items) ==
  MapNode([i \in DOMAIN Args(items) |->
    <<StringNode(<<"000000000", ToString(i - 1)>>), Args(items)[i]>>])
EnumerateItems(items) ==
  IF Op(items) = "list" THEN Enumeration(items) ELSE Unary("enumerate", items, "Map")

ToSubdirNode(map, subdir, flat, msg) ==
  LET is_flat == IF flat = Absent THEN {FALSE} ELSE TruthValue(flat)
      dir == IF subdir = Absent THEN <<".">> ELSE Data(subdir)[2]
      runtime == Runtime("to_subdir",
                   <<<<"$1", map>>, <<"subdir", subdir>>, <<"flat", flat>>,
                     <<"msg", msg>>>>, "Map")
  IN CASE Op(map) = "map" /\ Args(map) = <<>> -> map
       [] /\ Op(map) = "map" /\ is_flat # {}
          /\ (subdir = Absent \/ IsString(subdir)) ->
            Collect(Fields(map),
                    LAMBDA k : {ToNormalPath(dir \o <<"/">> \o
                                  (IF is_flat = {TRUE} THEN FileName(k) ELSE k))},
                    TRUE, runtime)
       [] OTHER -> runtime
FromSubdirNode(map, subdir) ==
  LET dir == IF subdir = Absent THEN <<".">> ELSE ToNormalPath(Data(subdir)[2])
      Inside(parts) == IF NonUpwards(parts) THEN {PathOf(parts)} ELSE {}
      Place(k) == Inside(RelativeTo(ToNormalPath(k), dir))
      runtime == Runtime("from_subdir",
                   <<<<"$1", map>>, <<"subdir", subdir>>>>, "Map")
  IN CASE Op(map) = "map" /\ Args(map) = <<>> -> map
       [] Op(map) = "map" /\ (subdir = Absent \/ IsString(subdir)) ->
            Collect(Fields(map), Place, TRUE, runtime)
       [] OTHER -> runtime

-----------------------------------------------------------------------------
(* The functions that need a line or two *)

EnvVar(name, default) ==
  IF IsString(name) THEN VarNode(Data(name)[2], default) ELSE Bad
JoinItems(items, sep) ==
  LET runtime == Runtime("join", <<<<"$1", items>>, <<"separator", sep>>>>, "String")
  IN IF sep # Absent /\ ~IsString(sep) THEN runtime
     ELSE OverItems(items, IsString, "String",
            StaticJoin(StringsOf(items), IF sep = Absent THEN <<>> ELSE Data(sep)[2]),
            runtime)
JoinCmd(args) ==
  OverItems(args, IsString, "String",
    StaticJoin([i \in DOMAIN Args(args) |-> ShellQuote(StringsOf(args)[i])], <<" ">>),
    Unary("join_cmd", args, "String"))
FlattenLists(lists) ==
  OverItems(lists, LAMBDA n : Op(n) = "list", "List",
    ListNode(FlattenSeq([i \in DOMAIN Args(lists) |-> Args(Args(lists)[i])])),
    Unary("++", lists, "List"))
KeysOf(map) ==
  IF Op(map) = "map"
  THEN ListNode([i \in DOMAIN Fields(map) |-> Fields(map)[i][1]])
  ELSE Unary("keys", map, "List")
Fail(msg) == Runtime("fail", <<<<"msg", msg>>>>, "Any")
JsonEncode(data) ==
  LET Encode(json) == IF Failed(json) THEN Unary("json_encode", data, "String")
                      ELSE StringNode(Dump(json))
  IN Encode(NodeToJson(data, TRUE))
SumOf(numbers) ==
  OverItems(numbers, LAMBDA n : IsLit(n, "num"), "Number",
    Lit(Addition(ValuesOf(numbers))), Unary("+", numbers, "Number"))
ProductOf(numbers) ==
  OverItems(numbers, LAMBDA n : IsLit(n, "num"), "Number",
    Lit(Multiplication(ValuesOf(numbers))), Unary("*", numbers, "Number"))
Equal(lhs, rhs) ==
  Decided(CheckEqual(lhs, rhs), Runtime("==", <<<<"$1", lhs>>, <<"$2", rhs>>>>, "Bool"))
Negate(expr) ==
  Decided({~truth : truth \in TruthValue(expr)}, Unary("not", expr, "Bool"))
ReverseList(list) ==
  IF Op(list) = "list" THEN ListNode(Reverse(Args(list)))
  ELSE Unary("reverse", list, "List")
LengthOf(list) ==
  IF Op(list) = "list" THEN Lit(Num(Len(Args(list))))
  ELSE Unary("length", list, "Number")
BaseNameOf(path) ==
  IF IsString(path) THEN StringNode(FileName(Data(path)[2]))
  ELSE Unary("basename", path, "String")

\* The result of a built-in function for its named parameters.
Apply(builtin, p) ==
  CASE builtin = "env"           -> EnvVar(p.name, p.default)
    [] builtin = "get"           -> GetField(p.key, p.map, p.default)
    [] builtin = "join"          -> JoinItems(p.items, p.sep)
    [] builtin = "flatten"       -> FlattenLists(p.lists)
    [] builtin = "union"         -> UnionOf(p.maps, p.disjoint)
    [] builtin = "keys"          -> KeysOf(p.map)
    [] builtin = "fail"          -> Fail(p.msg)
    [] builtin = "json_encode"   -> JsonEncode(p.data)
    [] builtin = "file"          -> Reference("FILE", p.path)
    [] builtin = "symlink"       -> Reference("SYMLINK", p.path)
    [] builtin = "tree"          -> Reference("TREE", p.path)
    [] builtin = "glob"          -> Reference("GLOB", p.pattern)
    [] builtin = "at"            -> AtIndex(p.index, p.list, p.default)
    [] builtin = "all"           -> Quantified(p.args, FALSE, "and")
    [] builtin = "any"           -> Quantified(p.args, TRUE, "or")
    [] builtin = "sum"           -> SumOf(p.numbers)
    [] builtin = "prod"          -> ProductOf(p.numbers)
    [] builtin = "eq"            -> Equal(p.lhs, p.rhs)
    [] builtin = "not"           -> Negate(p.expr)
    [] builtin = "zip_map"       -> ZipMap(p.range_key, p.range_val)
    [] builtin \in {"nub_right", "nub_left"} -> Nub(p.list, builtin)
    [] builtin = "range"         -> StaticRange(p.size)
    [] builtin = "reverse"       -> ReverseList(p.list)
    [] builtin = "length"        -> LengthOf(p.list)
    [] builtin = "basename"      -> BaseNameOf(p.path)
    [] builtin = "join_cmd"      -> JoinCmd(p.args)
    [] builtin = "change_ending" -> ChangeEnding(p.path, p.ending)
    [] builtin = "escape_chars"  -> EscapeChars(p.str, p.chars, p.prefix)
    [] builtin = "enumerate"     -> EnumerateItems(p.items)
    [] builtin = "to_subdir"     -> ToSubdirNode(p.map, p.subdir, p.flat, p.msg)
    [] builtin = "from_subdir"   -> FromSubdirNode(p.map, p.subdir)
    [] OTHER -> Bad
=============================================================================
