------------------------------ MODULE Language ------------------------------
(***************************************************************************)
(* Programs of the jst language from the syntax tree to the value: an      *)
(* author writes a program by putting expressions into each other, the     *)
(* preprocessor inlines and serializes it                                  *)
(* (src/buildtool/jstlang/preprocessor.cpp), Evaluator::Evaluate gives the *)
(* value under a configuration.  Denote is the meaning a program has       *)
(* without any inlining, with static scoping.                              *)
(***************************************************************************)
EXTENDS JstInline, JstParser

CONSTANTS
  Leaves,                 \* expressions a program starts from
  Constants,              \* expressions put next to it
  Loops,                  \* lists that loops go over
  Configurations,         \* what programs are evaluated under
  Binders,                \* names of variables, some per level
  MaxDepth,               \* bound: levels of a program
  MaxNodes                \* bound: different parts of a program that is spelt

VARIABLES
  program,                \* what has been written so far
  inlined,                \* what the preprocessor makes of it
  depth                   \* its levels

vars == <<program, inlined, depth>>

-----------------------------------------------------------------------------
(* The preprocessor *)

\* Behind its local definitions a targets file is a map with literal names.
RECURSIVE StaticAnalysis(_)
StaticAnalysis(n) ==
  IF Op(n) = "let" THEN StaticAnalysis(Body(n))
  ELSE Op(n) = "map" /\ \A f \in ToSet(Fields(n)) : IsString(f[1])

\* As if nothing below the files of an install target was evaluated.
UnevaluatedDeeply(type) ==
  [f \in {"type", "arguments_config"} \cup
         (IF type = <<"install">> THEN {"files"} ELSE {}) |-> "Full"]
\* Fields of a target that are not evaluated, or not at their top level.
kUnevaluatedTargetFields(type) ==
  CASE type = <<"export">> ->
         [f \in {"type", "arguments_config", "fixed_config", "doc",
                 "config_doc"} |-> "Full"]
    [] type = <<"install">> ->
         [type |-> "Full", arguments_config |-> "Full", files |-> "Flat"]
    [] OTHER -> [type |-> "Full", arguments_config |-> "Full"]
AugmentTarget(n) ==
  LET fields == Fields(n)
      types == {f[2] : f \in {g \in ToSet(fields) : g[1] = StringNode(<<"type">>)}}
      type == IF types = {} THEN <<>> ELSE Data(CHOOSE t \in types : TRUE)[2]
      vtype == kUnevaluatedTargetFields(type)
      AugmentField(f) ==
        IF Data(f[1])[2] \in {<<x>> : x \in DOMAIN vtype}
        THEN <<f[1], VerbatimNode(f[2], vtype[Data(f[1])[2][1]], EvalType(f[2]))>>
        ELSE f
  IN IF \/ Op(n) # "map" \/ \E f \in ToSet(fields) : ~IsString(f[1])
        \/ \E t \in types : ~IsString(t)
     THEN Bad
     ELSE VerbatimNode(MapNode([i \in DOMAIN fields |-> AugmentField(fields[i])]),
                       "Flat", "Map")
AugmentAST(n) ==
  LET fields == Fields(n)
  IN IF Op(n) # "map" \/ \E f \in ToSet(fields) : ~IsString(f[1]) THEN Bad
     ELSE VerbatimNode(
            MapNode([i \in DOMAIN fields |-> <<fields[i][1], AugmentTarget(fields[i][2])>>]),
            "Flat", "Map")

\* Files of rules and of expressions are not supported.
Augmented(n, type, result) ==
  CASE type = "Plain"                         -> result
    [] type = "Targets" /\ StaticAnalysis(n) -> AugmentAST(result)
    [] OTHER                                  -> Bad
Process(n, type) == Augmented(n, type, InlineAST(ProvideBuiltinsToAST(n)))
Serialize(n) == IF n = Bad THEN Error ELSE ToJson(n, "None", FALSE)
Evaluated(json, config) == IF Failed(json) THEN Error ELSE Evaluate(json, config)

-----------------------------------------------------------------------------
(* What a program means.  Functions are values, closed over the variables  *)
(* they see; a built-in function is the expression of its name.            *)

Closure(n, scope) == <<"func", n, scope>>
RECURSIVE HasFunctions(_), Plain(_)
HasFunctions(v) ==
  CASE Is("func", v) \/ Is("builtin", v) -> TRUE
    [] Is("list", v) \/ Is("map", v) ->
         \E k \in DOMAIN v[2] : HasFunctions(v[2][k])
    [] OTHER -> FALSE
\* Functions are no data: fields that hold one are dropped.
Plain(v) ==
  CASE Is("list", v) -> Sequenced([i \in DOMAIN v[2] |-> Plain(v[2][i])])
    [] Is("map", v) ->
         LET kept == {k \in DOMAIN v[2] : ~Is("func", v[2][k])}
             data == [k \in kept |-> Plain(v[2][k])]
         IN IF \E k \in kept : Failed(data[k]) THEN Error ELSE Map(data)
    [] Is("func", v) \/ Is("builtin", v) -> Error
    [] OTHER -> v

\* The expression a built-in function stands for: its type and the fields
\* its parameters become.
Meaning(name) ==
  CASE name = "get"  -> <<"lookup", [key |-> "key", map |-> "map",
                                     default |-> "default"]>>
    [] name = "join" -> <<"join", [items |-> "$1", sep |-> "separator"]>>
    [] name = "flatten"       -> <<"++", [lists |-> "$1"]>>
    [] name = "union"         -> <<"map_union", [maps |-> "$1"]>>
    [] name = "keys"          -> <<"keys", [map |-> "$1"]>>
    [] name = "json_encode"   -> <<"json_encode", [data |-> "$1"]>>
    [] name = "at"            -> <<"[]", [index |-> "index", list |-> "list",
                                          default |-> "default"]>>
    [] name = "all"           -> <<"and", [args |-> "$1"]>>
    [] name = "any"           -> <<"or", [args |-> "$1"]>>
    [] name = "sum"           -> <<"+", [numbers |-> "$1"]>>
    [] name = "prod"          -> <<"*", [numbers |-> "$1"]>>
    [] name = "eq"            -> <<"==", [lhs |-> "$1", rhs |-> "$2"]>>
    [] name = "not"           -> <<"not", [expr |-> "$1"]>>
    [] name = "zip_map"       -> <<"zip_map", [range_key |-> "range_key",
                                               range_val |-> "range_val"]>>
    [] name \in {"nub_left", "nub_right", "reverse", "length"} ->
                                 <<name, [list |-> "$1"]>>
    [] name = "range"         -> <<"range", [size |-> "$1"]>>
    [] name = "basename"      -> <<"basename", [path |-> "$1"]>>
    [] name = "join_cmd"      -> <<"join_cmd", [args |-> "$1"]>>
    [] name = "change_ending" -> <<"change_ending", [path |-> "$1",
                                                     ending |-> "ending"]>>
    [] name = "escape_chars"  -> <<"escape_chars", [str |-> "$1",
                                     chars |-> "chars", prefix |-> "escape_prefix"]>>
    [] name = "enumerate"     -> <<"enumerate", [items |-> "$1"]>>
    [] name = "to_subdir"     -> <<"to_subdir", [map |-> "$1",
                                     subdir |-> "subdir", flat |-> "flat"]>>
    [] name = "from_subdir"   -> <<"from_subdir", [map |-> "$1",
                                                   subdir |-> "subdir"]>>
    [] OTHER                  -> <<"fail", EmptyMap>>
Quoted(v) == Syntax("'", "$1" :> v)
\* args holds the values of the parameters that are given.
MeaningOf(name, args, config) ==
  LET type == IF name = "union" /\ "disjoint" \in DOMAIN args
                   /\ ValueIsTrue(args.disjoint)
              THEN "disjoint_map_union" ELSE Meaning(name)[1]
      FieldsOf(field) ==
        LET given == DOMAIN field \cap DOMAIN args
        IN [f \in {field[x] : x \in given} |->
              Quoted(args[CHOOSE x \in given : field[x] = f])]
  IN CASE \E x \in DOMAIN args : Failed(args[x]) \/ HasFunctions(args[x]) -> Error
       [] name = "env" ->
            LET v == Value(config, args.name[2])
            IN IF v = None /\ "default" \in DOMAIN args THEN args.default ELSE v
       [] OTHER -> Evaluate(Syntax(type, FieldsOf(Meaning(name)[2])), config)

RECURSIVE Denote(_, _, _), CallClosure(_, _, _)
\* args are the values given; the missing ones have their defaults.
CallClosure(f, args, config) ==
  LET formal == Data(f[2])
      Define(s, i) ==
        AddDef(s, formal[i], IF i \in DOMAIN args THEN args[i]
                             ELSE Denote(Args(f[2])[i], s, config))
      inner == FoldLeft(Define, f[3], [i \in DOMAIN formal |-> i])
  IN IF \E x \in DOMAIN inner : Failed(inner[x]) THEN Error
     ELSE Denote(Body(f[2]), inner, config)
ByName(sig, names, args) ==
  LET Position(i) == Cardinality({j \in 1..i : names[j] = <<>>})
      name == Entries([i \in DOMAIN args |->
                IF names[i] = <<>> THEN sig[Position(i)].name[1] ELSE names[i][1]])
  IN [x \in ToSet(name) |-> args[CHOOSE i \in DOMAIN args : name[i] = x]]
\* The calls of its argument that a loop makes.
LoopOver(func, ranges, config) ==
  IF \E r \in ToSet(ranges) : ~Is("list", r) THEN Error
  ELSE Sequenced([i \in {j \in DOMAIN ranges[1][2] :
                           \A r \in ToSet(ranges) : j \in DOMAIN r[2]} |->
         CallClosure(func, [r \in DOMAIN ranges |-> ranges[r][2][i]], config)])
FoldOver(func, init, range, config) ==
  IF ~Is("list", range) THEN Error
  ELSE FoldLeft(LAMBDA acc, v :
         IF Failed(acc) THEN Error ELSE CallClosure(func, <<v, acc>>, config),
         init, range[2])
CallBuiltinOf(name, given, config) ==
  CASE name = "foreach"  -> LoopOver(given.func, <<given.range>>, config)
    [] name = "zip_with" ->
         LoopOver(given.func, <<given.range1, given.range2>>, config)
    [] name = "foldl"    -> FoldOver(given.func, given.init, given.range, config)
    [] OTHER             -> MeaningOf(name, given, config)
CallOf(f, names, args, config) ==
  CASE Contains(args, Error) -> Error
    [] Is("func", f)    -> CallClosure(f, args, config)
    [] Is("builtin", f) ->
         CallBuiltinOf(f[2], ByName(Signature(f[2]), names, args), config)
    [] OTHER            -> Error

\* + joins strings, adds numbers, and appends lists and maps.
Added(a, b) ==
  CASE Failed(a) \/ Failed(b) \/ a[1] # b[1] -> Error
    [] Is("str", a)  -> Str(a[2] \o b[2])
    [] Is("num", a)  -> Num(a[2] + b[2])
    [] Is("list", a) -> List(a[2] \o b[2])
    [] Is("map", a)  -> Map(b[2] @@ a[2])
    [] OTHER         -> Error
DenoteLoop(n, scope, config, ranges) ==
  IF \E r \in ToSet(ranges) : ~Is("list", r) THEN Error
  ELSE Sequenced([i \in {j \in DOMAIN ranges[1][2] :
                           \A r \in ToSet(ranges) : j \in DOMAIN r[2]} |->
         Denote(Body(n), AddDefs(scope, Data(n),
                  [r \in DOMAIN ranges |-> ranges[r][2][i]]), config)])
DenoteLet(n, value, scope, config) ==
  IF Failed(value) THEN Error
  ELSE Denote(Args(n)[2], AddDef(scope, Data(n), value), config)
DenoteIf(n, cond, scope, config) ==
  LET branch == Args(n)[IF ValueIsTrue(cond) THEN 2 ELSE 3]
  IN CASE Failed(cond)     -> Error
       [] branch = Absent  -> List(<<>>)
       [] OTHER            -> Denote(branch, scope, config)

DenoteMap(arg) ==
  LET at == {i \in DOMAIN arg : i % 2 = 0}
  IN IF \E i \in at : ~Is("str", arg[i - 1]) THEN Error
     ELSE Map([k \in {arg[i - 1][2] : i \in at} |->
                 arg[Max({i \in at : arg[i - 1][2] = k})]])
DenoteUnary(type, v) ==
  CASE type = "not"  -> Not(v)
    [] Is("num", v)  -> Num(-v[2])
    [] OTHER         -> Error
DenoteBinary(type, arg) ==
  CASE HasFunctions(List(arg)) -> Error
    [] type = "+"    -> Added(arg[1], arg[2])
    [] type = "*"    -> Multiplication(List(arg))
    [] type = "and"  -> All(List(arg))
    [] type = "or"   -> Some(List(arg))
    [] OTHER         -> Bool(arg[1] = arg[2])
\* Who is called: functions of a map are looked up, entries of a list are what
\* the function at returns.
Called(n, arg, scope) ==
  CASE Op(n) = "call_expr" -> arg[1]
    [] Op(n) = "lookup"    -> <<"builtin", "at">>
    [] Data(n)[1] \in DOMAIN scope -> scope[Data(n)[1]]
    [] OTHER -> Error
DenoteCall(n, arg, scope, config) ==
  CallOf(Called(n, arg, scope),
         CASE Op(n) = "call_expr" -> Data(n)
           [] Op(n) = "call_name" -> Data(n)[2]
           [] OTHER               -> <<<<>>, <<>>>>,
         IF Op(n) = "call_expr" THEN Tail(arg) ELSE arg, config)
DenoteField(key, fields) ==
  CASE ~Is("str", key)              -> Error
    [] key[2] \in DOMAIN fields[2]  -> fields[2][key[2]]
    [] OTHER                        -> None
\* The nodes whose children have all been evaluated.
Strictly(n, arg, scope, config) ==
  CASE Contains(arg, Error) -> Error
    [] Op(n) = "list"   -> List(arg)
    [] Op(n) = "map"    -> DenoteMap(arg)
    [] Op(n) = "unary"  -> DenoteUnary(Data(n)[1], arg[1])
    [] Op(n) = "binary" -> DenoteBinary(Data(n)[1], arg)
    [] Op(n) = "lookup" /\ Is("map", arg[2]) -> DenoteField(arg[1], arg[2])
    [] Op(n) \in {"call_name", "call_expr", "lookup"} ->
         DenoteCall(n, arg, scope, config)
    [] OTHER -> Error

Denote(n, scope, config) ==
  LET Of(m) == Denote(m, scope, config)
      Child(i) == Of(Args(n)[i])
  IN CASE Op(n) = "lit"     -> Data(n)
       [] Op(n) = "builtin" -> <<"builtin", Data(n)>>
       [] Op(n) = "var"     -> Value(config, Data(n))
       [] Op(n) = "func"    -> Closure(n, scope)
       [] Op(n) = "read"    ->
            IF Data(n) \in DOMAIN scope THEN scope[Data(n)] ELSE Error
       [] Op(n) = "let"     -> DenoteLet(n, Child(1), scope, config)
       [] Op(n) = "if"      -> DenoteIf(n, Child(1), scope, config)
       [] Op(n) = "foreign" ->
            Denote(ProvideBuiltinsToAST(Args(n)[1]), EmptyScope, config)
       [] Op(n) \in {"foreach", "zip_with"} ->
            DenoteLoop(n, scope, config, Entries([i \in DOMAIN Data(n) |-> Child(i)]))
       [] OTHER ->
            Strictly(n, Entries([i \in DOMAIN Args(n) |-> Child(i)]), scope, config)

Meant(n, config) == Plain(Denote(ProvideBuiltinsToAST(n), EmptyScope, config))

-----------------------------------------------------------------------------
(* The author *)

Nameless(args) == [i \in DOMAIN args |-> <<>>]
Jst(name) == LookupNode(StringNode(<<name>>), ReadNode(<<"jst">>))
Call(name, args) == CallExpr(Jst(name), Nameless(args), args)
Named(name, names, args) == CallExpr(Jst(name), names, args)
S(token) == StringNode(<<token>>)
Number(n) == Lit(Num(n))
Minus(e, type) == UnaryNode("minus", e, type)
Field(token, e) == MapNode(<<<<S(token), e>>>>)

\* e under an operator, alone or with a constant next to it
Operators(e) ==
  {UnaryNode("not", e, "Bool"), Minus(e, "Number"),
   IfNode(e, S("a"), S("b")), IfNode(e, S("b"), Absent),
   LookupNode(S("a"), e), LookupNode(Minus(Number(1), "Number"), e),
   ListNode(<<e>>), Field("a", e), MapNode(<<<<e, S("b")>>>>)}
  \cup UNION {
    {BinaryNode("and", c, e, "Bool"), BinaryNode("or", e, c, "Bool"),
     BinaryNode("==", e, c, "Bool"), BinaryNode("*", c, e, "Number"),
     BinaryNode("+", e, c, "Any"), BinaryNode("+", c, e, "Any"),
     BinaryNode("+", c, Minus(e, "Any"), "Number"),
     UnaryNode("not", BinaryNode("==", c, e, "Bool"), "Any"),
     ListNode(<<c, e>>), MapNode(<<<<S("a"), c>>, <<S("b"), e>>>>),
     LookupNode(S("a"), MapNode(<<<<S("a"), e>>, <<S("a"), c>>>>)),
     IfNode(c, e, S("b")), IfNode(c, S("b"), e)} : c \in Constants}

\* e as the argument of a built-in function
Builtins(e) ==
  {Call(f, <<e>>) : f \in {"keys", "json_encode", "all", "any", "not",
     "range", "reverse", "length", "basename", "join_cmd", "enumerate",
     "nub_left", "nub_right", "flatten", "sum", "prod", "union", "join"}}
  \cup {Call("get", <<S("a"), e>>), Call("get", <<e, Field("a", S("b"))>>),
        Call("get", <<S("a"), Field("a", e)>>), Call("get", <<S("b"), Field("a", e), e>>),
        Call("get", <<S("a"), Field("a", e), S("b")>>),
        Call("join", <<e, S("/")>>), Call("join", <<ListNode(<<e, S("'")>>), StringNode(<<"a", "\n">>)>>),
        Call("at", <<S("0"), e>>), Call("at", <<e, ListNode(<<S("a"), S("b")>>)>>),
        Call("at", <<Number(5), ListNode(<<>>), e>>),
        Call("change_ending", <<e, S("b")>>), Call("change_ending", <<S("a"), e>>),
        Call("escape_chars", <<e, S("a"), S("/")>>),
        Named("escape_chars", <<<<>>, <<"prefix">>, <<"chars">>>>,
              <<e, S("a"), S("a")>>),
        Call("zip_map", <<e, ListNode(<<S("a"), Number(1)>>)>>),
        Call("zip_map", <<ListNode(<<S("a"), S("b")>>), e>>),
        Call("to_subdir", <<e, S("a")>>), Call("to_subdir", <<Field("a", S("b")), e>>),
        Call("from_subdir", <<e, S("a")>>),
        Call("from_subdir", <<e, StringNode(<<".", "/", "a">>)>>),
        Named("env", <<<<>>, <<"default">>>>, <<S("unset"), e>>)}
  \cup UNION {
    {Call("eq", <<e, c>>), Call("nub_right", <<ListNode(<<e, c, e>>)>>),
     Call("nub_left", <<ListNode(<<c, e, c>>)>>),
     Call("union", <<ListNode(<<Field("a", e), Field("a", c)>>)>>),
     Call("union", <<ListNode(<<Field("a", e), Field("a", c)>>), Lit(Bool(TRUE))>>),
     Call("union", <<ListNode(<<Field("a", c), e>>)>>),
     Call("to_subdir", <<MapNode(<<<<StringNode(<<"a", "/", "b">>), e>>,
                                   <<S("b"), c>>>>), S("."), Lit(Bool(TRUE))>>)}
      : c \in Constants}

\* e where a name is bound, and e as what the name is bound to
Bindings(x, e) ==
  LET read == ReadNode(x)
      f == <<"f">>
      twice == ListNode(<<read, read>>)
      joined == BinaryNode("+", read, S("a"), "Any")
      CallF(args) == CallName(f, Nameless(args), args)
      NoDefault == <<Absent>>
  IN {LetNode(x, e, read), LetNode(x, e, twice), LetNode(x, e, joined),
      LetNode(f, FuncNode(<<>>, <<>>, e), CallF(<<>>)),
      LetNode(f, FuncNode(<<x>>, NoDefault, joined), CallF(<<e>>)),
      LetNode(f, FuncNode(<<x>>, <<e>>, twice), CallF(<<>>)),
      LetNode(f, FuncNode(<<x>>, NoDefault, ListNode(<<read>>)),
              CallF(<<CallF(<<e>>)>>)),
      ForeignNode(e)}
     \cup UNION {
       {LetNode(x, c, e), LetNode(f, FuncNode(<<x>>, NoDefault, e), CallF(<<c>>)),
        LetNode(f, FuncNode(<<x>>, <<c>>, e), CallF(<<>>)),
        LetNode(f, FuncNode(<<x>>, NoDefault, e),
                ListNode(<<CallF(<<c>>), CallF(<<S("b")>>)>>))} : c \in Constants}
Iterations(x, y, e) ==
  LET read == ReadNode(x)
      entry == BinaryNode("+", read, S("a"), "Any")
      NoDefaults(n) == [i \in 1..n |-> Absent]
  IN {ForEachNode(x, e, read), ForEachNode(x, e, entry),
      Call("foldl", <<FuncNode(<<x, y>>, NoDefaults(2),
                        ListNode(<<ReadNode(y), read>>)), S("b"), e>>)}
     \cup UNION {
       {ForEachNode(x, l, e), ForEachNode(x, l, ListNode(<<read, e>>)),
        Call("foreach", <<FuncNode(<<x>>, NoDefaults(1), e), l>>),
        CallExpr(BuiltinNode("union"), << <<"maps">> >>,
                 <<ForEachNode(x, l, MapNode(<<<<read, e>>>>))>>),
        Call("zip_with", <<FuncNode(<<x, y>>, NoDefaults(2), e), l, l>>),
        Call("foldl", <<FuncNode(<<x, y>>, NoDefaults(2), e), S("b"), l>>)}
         : l \in Loops}

-----------------------------------------------------------------------------
(* What an author writes for a program: with as few brackets and spaces as *)
(* possible, or with brackets around every operand, comments, and strings  *)
(* and functions spelt differently (long).                                 *)

\* Everything a program consists of.
RECURSIVE Nodes(_)
Nodes(n) == {n} \cup UNION {Nodes(Args(n)[i]) : i \in DOMAIN Args(n)}
Word(s) == Len(s) = 1 /\ InWord(s[1]) /\ s[1] \notin kKeywords \cup Numerals
Quoting(s, quote) ==
  LET Letter(c) == CASE c \in {quote, "\\"} -> <<"\\", c>>
                     [] c = "\n"           -> <<"\\", "n">>
                     [] OTHER              -> <<c>>
  IN <<quote>> \o FlattenSeq([i \in DOMAIN s |-> Letter(s[i])]) \o <<quote>>
OneLine(s) == /\ Len(s) > 1 /\ s[1] \notin Whitespace
              /\ {i \in DOMAIN s : s[i] = "\n"} = {Len(s)}
StringText(s, long) ==
  IF ~long THEN Quoting(s, "'")
  ELSE IF OneLine(s) THEN <<"|", "|", "|", "\n", " ">> \o s \o <<"|", "|", "|">>
  ELSE Quoting(s, "\"")
Gap(long) == IF long THEN <<" ", "/", "/", "*", "\n">> ELSE <<" ">>
Commas(texts, long) ==
  FlattenSeq([i \in DOMAIN texts |->
    texts[i] \o IF i = Len(texts) THEN <<>> ELSE <<",">> \o Gap(long)])

IsMinus(n) == Op(n) = "binary" /\ Data(n)[2] = "Number" /\ Data(n)[1] = "+"
IsNotEqual(n) == Op(n) = "unary" /\ Data(n)[2] = "Any"
OperatorText(n) ==
  CASE IsMinus(n)         -> <<"-">>
    [] IsNotEqual(n)      -> <<"!", "=">>
    [] Op(n) = "unary"    -> IF Data(n)[1] = "not" THEN <<"!">> ELSE <<"-">>
    [] Data(n)[1] = "and" -> <<"&", "&">>
    [] Data(n)[1] = "or"  -> <<"|", "|">>
    [] Data(n)[1] = "=="  -> <<"=", "=">>
    [] OTHER              -> <<Data(n)[1]>>
\* How weakly the parts of an expression are held together.
Levels == (<<"*">> :> 3) @@ (<<"+">> :> 4) @@ (<<"-">> :> 4) @@ (<<"=", "=">> :> 5)
            @@ (<<"!", "=">> :> 5) @@ (<<"&", "&">> :> 6) @@ (<<"|", "|">> :> 7)
Weakest == 8
Level(n) ==
  CASE Op(n) \in {"if", "let", "func", "foreign"} -> Weakest
    [] Op(n) = "binary" \/ IsNotEqual(n) -> Levels[OperatorText(n)]
    [] Op(n) = "unary" -> 2
    [] Op(n) \in {"lookup", "call_name"} -> 1
    [] Op(n) = "call_expr" /\ Op(Args(n)[1]) # "builtin" -> 1
    [] OTHER -> 0

\* The file of an import is named by the number of imports in it.
RECURSIVE Imports(_)
Imports(n) == UNION {Imports(Args(n)[i]) : i \in DOMAIN Args(n)}
                \cup IF Op(n) = "foreign" THEN {n} ELSE {}
FileOf(n) == Numeral(Cardinality(Imports(n)))

RECURSIVE TextOf(_, _, _), Bare(_, _)
Bare(n, long) ==
  LET arg == Args(n)
      gap == Gap(long)
      Alone(e) == TextOf(e, Weakest, long)
      Operand(e, level) == TextOf(e, IF long THEN 0 ELSE level, long)
      Each(nodes) == Commas([i \in DOMAIN nodes |-> Alone(nodes[i])], long)
      Params(names, exprs) ==
        <<"(">> \o Commas([i \in DOMAIN names |->
          CASE exprs[i] = Absent -> names[i]
            [] names[i] = <<>>   -> Alone(exprs[i])
            [] OTHER -> names[i] \o gap \o <<"=">> \o gap \o Alone(exprs[i])], long)
          \o <<")">>
      \* parameters and body of a function, or just the value
      Defined(e, is) ==
        IF Op(e) = "func" /\ ~long
        THEN Params(Data(e), Front(Args(e))) \o is \o <<" ">> \o Alone(Body(e))
        ELSE is \o gap \o Alone(e)
      Key(i) == LET key == Fields(n)[i][1] IN
        CASE \/ ~IsString(key)
             \/ \E j \in 1..(i - 1) : Fields(n)[j][1] = key ->
               <<"[">> \o Alone(key) \o <<"]">>
          [] ~long /\ Word(Data(key)[2]) -> Data(key)[2]
          [] OTHER -> StringText(Data(key)[2], long)
      FieldTexts == Commas([i \in DOMAIN Fields(n) |->
                      Key(i) \o Defined(Fields(n)[i][2], <<":">>)], long)
      Infix(lhs, rhs, level) ==
        Operand(lhs, level) \o gap \o OperatorText(n) \o gap \o Operand(rhs, level - 1)
      ForIn(loop) == gap \o <<"for", " ">> \o Data(loop)[1] \o <<" ", "in", " ">>
                       \o Alone(Args(loop)[1])
      Comprehended(loop) == Bare(Args(loop)[2], long)
  IN CASE Op(n) = "lit" /\ IsString(n) -> StringText(Data(n)[2], long)
       [] n = NullNode    -> <<"null">>
       [] IsLit(n, "bool") -> IF Data(n)[2] THEN <<"true">> ELSE <<"false">>
       [] IsLit(n, "num") -> Numeral(Data(n)[2])
       [] Op(n) = "list"  -> <<"[">> \o Each(arg) \o <<"]">>
       [] Op(n) = "map"   -> <<"{">> \o FieldTexts \o <<"}">>
       [] Op(n) = "foreach" ->
            <<"[">> \o Alone(arg[2]) \o ForIn(n) \o <<"]">>
       [] Op(n) = "read"  -> Data(n)
       [] Op(n) = "var"   -> <<"$", "'">> \o Data(n) \o <<"'">>
       [] IsNotEqual(n)   -> Infix(Args(arg[1])[1], Args(arg[1])[2], Level(n))
       [] IsMinus(n)      -> Infix(arg[1], Args(arg[2])[1], Level(n))
       [] Op(n) = "binary" -> Infix(arg[1], arg[2], Level(n))
       [] Op(n) = "unary" -> OperatorText(n) \o gap \o Operand(arg[1], 1)
       [] Op(n) = "lookup" ->
            Operand(arg[2], 1) \o
              IF IsString(arg[1]) /\ Word(Data(arg[1])[2]) /\ ~long
              THEN <<".">> \o Data(arg[1])[2] ELSE <<"[">> \o Alone(arg[1]) \o <<"]">>
       [] Op(n) = "call_name" -> Data(n)[1] \o Params(Data(n)[2], arg)
       [] Op(n) = "call_expr" /\ Op(arg[1]) = "builtin" ->
            Front(Comprehended(arg[2])) \o ForIn(arg[2]) \o <<"}">>
       [] Op(n) = "call_expr" -> Operand(arg[1], 1) \o Params(Data(n), Tail(arg))
       [] Op(n) = "let" ->
            <<"local", " ">> \o Data(n) \o Defined(arg[1], <<" ", "=">>)
              \o <<";">> \o gap \o Alone(arg[2])
       [] Op(n) = "func" -> <<"function">> \o Params(Data(n), Front(arg))
                              \o gap \o Alone(Body(n))
       [] Op(n) = "if" ->
            <<"if", " ">> \o Alone(arg[1]) \o gap \o <<"then", " ">>
              \o TextOf(arg[2], Weakest - 1, long)
              \o IF arg[3] = Absent THEN <<>>
                 ELSE gap \o <<"else", " ">> \o Alone(arg[3])
       [] OTHER -> <<"import", " ">> \o StringText(FileOf(n), long)
TextOf(n, level, long) ==
  IF Level(n) > level THEN <<"(">> \o Bare(n, long) \o <<")">> ELSE Bare(n, long)

\* The parser looks for a token behind some expressions: only files in brackets
\* have one everywhere.
Main == <<"main">>
InFile(n, style) ==
  LET long == style = "long"
  IN IF style = "bare" THEN Bare(n, long)
     ELSE <<"(">> \o TextOf(n, Weakest, long) \o <<")">> \o Gap(long)
Files(n, style) ==
  [f \in {Main} \cup {FileOf(m) : m \in Imports(n)} |->
     IF f = Main THEN InFile(n, style)
     ELSE InFile(Args(CHOOSE m \in Imports(n) : FileOf(m) = f)[1], style)]
Read(n, style) == ParseData(Main, Files(n, style), {})

-----------------------------------------------------------------------------
Init == program = NullNode /\ inlined = NullNode /\ depth = 0

Contexts(e) ==
  Operators(e) \cup Builtins(e)
    \cup UNION {Bindings(x, e) \cup Iterations(x, <<"accu">>, e) : x \in Binders[depth]}
\* A program starts from a leaf and is put into one context after the other.
Extend ==
  /\ depth <= MaxDepth
  /\ depth' = depth + 1
  /\ program' \in IF depth = 0 THEN Leaves ELSE Contexts(program)
  /\ inlined' = Process(program', "Plain")

Next == Extend
Spec == Init /\ [][Next]_vars

-----------------------------------------------------------------------------
\* However an author writes a program, it is read as what was meant: brackets,
\* priorities, escapes, comments and imports say the same in the file and in
\* the tree.  A file without brackets around it may be rejected, never misread.
ReadAsWritten == Cardinality(Nodes(program)) <= MaxNodes =>
  /\ \A style \in {"short", "long"} : Read(program, style) = program
  /\ Read(program, "bare") \in {program, Bad}

TypeOf(v) == IF Is("list", v) THEN "List" ELSE IF Is("map", v) THEN "Map"
             ELSE LiteralTypes[v[1]]

\* Where programs are known to change their meaning, or their type.
Parameters(n) ==
  IF Op(n) \in {"func", "foreach", "zip_with"} THEN ToSet(Data(n)) ELSE {}
Calls(f) == {n \in Nodes(program) : Op(n) = "call_expr" /\ Head(Args(n)) = Jst(f)}
\* Parts of a program are moved when they are inlined, and nothing is renamed:
\* the variable of a loop or a parameter may capture another one of its name
\* that is read, or one of the configuration.
CapturesNames ==
  \E n \in Nodes(program) : \E x \in Parameters(n) :
    \/ {VarNode(x, Absent), StringNode(x)} \cap Nodes(program) # {}
    \/ /\ ReadNode(x) \in Nodes(program)
       /\ \E m \in Nodes(program) \ {n} : x \in Parameters(m)
\* Literals are joined without a separator behind empty ones in front.
JoinsEmptyStrings == Calls("join") # {} /\ StringNode(<<>>) \in Nodes(program)
\* A field known by its name is taken, although its value may turn out null and
\* a default is given.
DefaultsForNull ==
  \E n \in Calls("get") :
    Len(Args(n)) = 4 /\ \E f \in ToSet(Fields(Args(n)[3])) : Op(f[2]) # "lit"
\* The keys of a map that is written out stay in the order of the author.
Ordered(keys) == \A i, j \in DOMAIN keys :
  i < j => IsString(keys[j]) /\ (IsString(keys[i]) => Before(Data(keys[i])[2], Data(keys[j])[2]))
KeysAsWritten ==
  /\ Calls("keys") # {}
  /\ \E n \in Nodes(program) :
       Op(n) = "map" /\ ~Ordered([i \in DOMAIN Fields(n) |-> Fields(n)[i][1]])
\* A directory is normalized only if the map is written out.
SubdirAsWritten ==
  \E n \in Calls("from_subdir") :
    IsString(Args(n)[3]) /\ ToNormalPath(Data(Args(n)[3])[2]) # Data(Args(n)[3])[2]
\* Names of fields are looked at as data and some are computed: a literal map
\* is serialized to null then.
EncodesComputedNames ==
  /\ \E n \in Nodes(program) :
       Op(n) = "map" /\ \E f \in ToSet(Fields(n)) : ~IsString(f[1])
  /\ \E n \in Nodes(program) :
       \/ n \in {S(f) : f \in {"json_encode", "nub_left", "nub_right", "eq", "union"}}
       \/ Op(n) = "binary" /\ Data(n)[1] = "=="
KnownToDiffer ==
  \/ CapturesNames \/ JoinsEmptyStrings \/ DefaultsForNull
  \/ KeysAsWritten \/ SubdirAsWritten \/ EncodesComputedNames
\* zip_map and foldl are known by the type of something else.
TypeUnknown == \/ EvalType(inlined) = "Any"
               \/ \E n \in Nodes(program) : n = S("zip_map") \/ n = S("foldl")
\* But for the programs named above (KnownToDiffer), what is inlined, unrolled,
\* evaluated statically or left to the evaluator makes no difference: if a
\* program has a meaning and the preprocessed program has a value under a
\* configuration, they are the same; either of them may fail alone.  And the
\* type the inliner goes by when it chooses what + stands for, or refuses a
\* loop, is the type of the value, unless zip_map or foldl is called or the
\* type is unknown (TypeUnknown).
MeaningPreserved ==
  LET json == Serialize(inlined)
      Agree(meant, got) == Failed(meant) \/ Failed(got) \/ meant = got
      OfType(got) == Failed(got) \/ TypeOf(got) = EvalType(inlined)
  IN \A config \in Configurations :
       \E got \in {Evaluated(json, config)} :
         /\ Agree(Meant(program, config), got) \/ KnownToDiffer
         /\ OfType(got) \/ TypeUnknown

\* In a target of a targets file, a field is evaluated to what the program
\* means, and so are the entries of the files of an install target, which are
\* looked up one by one (built_in_rules.cpp); what is not evaluated is the
\* text of the program's value.
Install(n) ==
  MapNode(<<<<S("t"), MapNode(<<
    <<S("type"), S("install")>>, <<S("deps"), n>>, <<S("files"), Field("a", n)>>>>)>>>>)
FieldsPreserved ==
  LET alone == Serialize(inlined)
      Target(json) == json[2][<<"t">>][2]
      Same(target) ==
        /\ target[<<"type">>] = Str(<<"install">>)
        /\ \A config \in Configurations :
             Cardinality({Evaluated(e, config) : e \in
               {alone, target[<<"deps">>], target[<<"files">>][2][<<"a">>]}}) = 1
      Kept(json) == IF Failed(json) THEN Failed(alone) ELSE Same(Target(json))
  IN depth <= MaxDepth => Kept(Serialize(Process(Install(program), "Targets")))
=============================================================================
