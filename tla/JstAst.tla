------------------------------- MODULE JstAst -------------------------------
(***************************************************************************)
(* The syntax trees of the jst language, what is known of a node without   *)
(* evaluating it, and their serialization to expressions                   *)
(* (src/buildtool/jstlang/ast/ast.hpp, to_json_visitor.cpp).               *)
(*                                                                         *)
(* A node is a triple of its kind, its data (literal value, names, types)  *)
(* and its children; Absent is the null pointer, Bad the outcome of an     *)
(* exception.  A node with a Bad child is Bad: who visits children passes  *)
(* on what they throw.  Locations and references to targets are left out.  *)
(***************************************************************************)
EXTENDS Evaluator

Absent == <<"absent", <<>>, <<>>>>
Bad    == <<"bad", <<>>, <<>>>>

Op(n) == n[1]
Data(n) == n[2]
Args(n) == n[3]
Whole(op, data, nodes) == IF Contains(nodes, Bad) THEN Bad ELSE <<op, data, nodes>>
Node(op, data, args) == Whole(op, data, Entries(args))

Lit(v) == Node("lit", v, <<>>)
StringNode(s) == Lit(Str(s))
NullNode == Lit(None)
ListNode(items) == Node("list", <<>>, items)
\* fields is a sequence of pairs; they are laid out key, value, key, value.
MapNode(fields) == Node("map", <<>>, FlattenSeq(fields))
VarNode(name, default) == Node("var", name, <<default>>)
IfNode(cond, then, else) == Node("if", <<>>, <<cond, then, else>>)
ForEachNode(var, range, body) == Node("foreach", <<var>>, <<range, body>>)
ZipWithNode(vars, range1, range2, body) ==
  Node("zip_with", vars, <<range1, range2, body>>)
\* vars: the entry, the accumulated value
FoldLeftNode(vars, init, range, body) ==
  Node("foldl", vars, <<init, range, body>>)
UnaryNode(type, expr, eval_type) ==
  Node("unary", <<type, eval_type>>, <<expr>>)
BinaryNode(type, lhs, rhs, eval_type) ==
  Node("binary", <<type, eval_type>>, <<lhs, rhs>>)
LookupNode(index, container) == Node("lookup", <<>>, <<index, container>>)
LetNode(name, value, next) == Node("let", name, <<value, next>>)
\* The children are the defaults of the parameters (or Absent) and the body.
FuncNode(params, defaults, body) ==
  Node("func", params, Append(defaults, body))
BuiltinNode(name) == Node("builtin", name, <<>>)
ReadNode(name) == Node("read", name, <<>>)      \* a call without parameters
\* A call of a name; the parameters have a name or <<>> for none.
CallName(name, names, params) == Node("call_name", <<name, names>>, params)
\* A call of an expression, the first child; a built-in function is one.
CallExpr(target, names, params) ==
  Node("call_expr", names, <<target>> \o params)
ForeignNode(expr) == Node("foreign", <<>>, <<expr>>)
VerbatimNode(expr, vtype, eval_type) ==
  Node("verbatim", <<vtype, eval_type>>, <<expr>>)

Fields(n) == [i \in 1..(Len(Args(n)) \div 2) |->
                <<Args(n)[2 * i - 1], Args(n)[2 * i]>>]
Body(n) == Last(Args(n))
IsLit(n, tag) == Op(n) = "lit" /\ Is(tag, Data(n))
IsString(n) == IsLit(n, "str")

-----------------------------------------------------------------------------
(* What is known statically *)

LiteralTypes == [none |-> "Null", bool |-> "Bool", num |-> "Number",
                 str |-> "String"]
RECURSIVE EvalType(_)
EvalType(n) ==
  CASE Op(n) = "lit"                               -> LiteralTypes[Data(n)[1]]
    [] Op(n) \in {"list", "foreach", "zip_with"}   -> "List"
    [] Op(n) = "map"                               -> "Map"
    [] Op(n) \in {"func", "builtin"}               -> "Func"
    [] Op(n) \in {"unary", "binary", "verbatim"}   -> Data(n)[2]
    [] Op(n) \in {"let", "foreign"}                -> EvalType(Body(n))
    [] Op(n) = "foldl"                             -> EvalType(Args(n)[1])
    [] Op(n) = "if" ->
         LET types == {IF Args(n)[i] = Absent THEN "List" ELSE EvalType(Args(n)[i])
                         : i \in {2, 3}}
         IN IF Cardinality(types) = 1 THEN CHOOSE t \in types : TRUE ELSE "Any"
    [] OTHER                                       -> "Any"

\* The truth value, if it is known.
RECURSIVE TruthValue(_)
TruthValue(n) ==
  CASE Op(n) = "lit"             -> {ValueIsTrue(Data(n))}
    [] Op(n) \in {"list", "map"} -> {Args(n) # <<>>}
    [] Op(n) = "if"              ->
         TruthValue(Args(n)[2]) \cap TruthValue(Args(n)[3])
    [] OTHER                     -> {}

-----------------------------------------------------------------------------
(* ASTToJsonVisitor: Error stands for an exception.  With vtype "Full"     *)
(* maps are literal all the way down, with "Flat" only the node itself;    *)
(* otherwise a map becomes an expression that builds it.                   *)

StrictSyntax(type, fields) ==
  IF \E x \in DOMAIN fields : Failed(fields[x]) THEN Error
  ELSE Syntax(type, fields)
\* The entries up to the first one that fails the test.
LongestPrefix(s, Test(_)) ==
  SubSeq(s, 1, Min({i \in 1..Len(s) : ~Test(s[i])} \cup {Len(s) + 1}) - 1)
Optional(field, n, v) == IF n = Absent THEN EmptyMap ELSE field :> v

\* The last field of a name counts.
FieldsToMap(fields) ==
  Map([k \in {f[1] : f \in ToSet(fields)} |->
         fields[Max({i \in DOMAIN fields : fields[i][1] = k})][2]])

RECURSIVE ToJson(_, _, _)
LiteralMap(n, Child(_)) ==
  LET Named(f) == IsString(f[1])
      JsonOf(fields) == [i \in DOMAIN fields |->
                           <<Data(fields[i][1])[2], Child(fields[i][2])>>]
      \* The error of the code at a computed name is an empty value.
      Literal(fields, complete) ==
        CASE \E f \in ToSet(fields) : Failed(f[2]) -> Error
          [] complete -> FieldsToMap(fields)
          [] OTHER    -> None
  IN Literal(Entries(JsonOf(SelectSeq(
               LongestPrefix(Fields(n), Named), LAMBDA f : Op(f[2]) # "func"))),
             \A f \in ToSet(Fields(n)) : Named(f))
BuiltMap(n, Child(_)) ==
  LET Single(f) == StrictSyntax("singleton_map",
                     [key |-> Child(f[1]), value |-> Child(f[2])])
      Built(fields) ==
        CASE Len(Args(n)) > 2 ->
               StrictSyntax("map_union", "$1" :>
                 Sequenced([i \in DOMAIN fields |-> Single(fields[i])]))
          [] fields = <<>> -> Syntax("empty_map", EmptyMap)
          [] OTHER -> Single(fields[1])
  IN Built(SelectSeq(Fields(n), LAMBDA f : Op(f[2]) # "func"))

\* Full treatment stays, any other one is up to the caller.
ToJson(n, vtype, json_only) ==
  LET Child(c) == ToJson(c, IF vtype = "Full" THEN vtype ELSE "None", json_only)
      arg == Args(n)
  IN CASE Op(n) = "lit" -> Data(n)
       [] Op(n) = "list" ->
            Sequenced([i \in DOMAIN arg |-> Child(arg[i])])
       [] Op(n) = "map" -> IF json_only \/ vtype # "None"
                           THEN LiteralMap(n, Child) ELSE BuiltMap(n, Child)
       [] json_only -> Error
       [] Op(n) = "verbatim" ->
            ToJson(arg[1], IF vtype = "Full" THEN vtype ELSE Data(n)[1],
                   json_only)
       [] Op(n) = "var" ->
            StrictSyntax("var", [name |-> Str(Data(n))]
              @@ Optional("default", arg[1], Child(arg[1])))
       [] Op(n) = "if" ->
            StrictSyntax("if", [cond |-> Child(arg[1])]
              @@ Optional("then", arg[2], Child(arg[2]))
              @@ Optional("else", arg[3], Child(arg[3])))
       [] Op(n) = "foreach" ->
            StrictSyntax("foreach",
              [var |-> Str(Data(n)[1]), range |-> Child(arg[1]),
               body |-> Child(arg[2])])
       [] Op(n) = "zip_with" ->
            StrictSyntax("zip_with",
              [var_1 |-> Str(Data(n)[1]), var_2 |-> Str(Data(n)[2]),
               range_1 |-> Child(arg[1]), range_2 |-> Child(arg[2]),
               body |-> Child(arg[3])])
       [] Op(n) = "foldl" ->
            StrictSyntax("foldl",
              [var |-> Str(Data(n)[1]), accum_var |-> Str(Data(n)[2]),
               start |-> Child(arg[1]), range |-> Child(arg[2]),
               body |-> Child(arg[3])])
       [] OTHER -> Error

NodeToJson(n, json_only) == ToJson(n, "Full", json_only)
=============================================================================
