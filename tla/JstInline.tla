------------------------------ MODULE JstInline ------------------------------
(***************************************************************************)
(* Inlining of the jst language: variables, functions and calls are        *)
(* resolved until only literals and expressions for Evaluator::Evaluate    *)
(* are left (src/buildtool/jstlang/ast/inline_visitor.cpp).                *)
(*                                                                         *)
(* A scope is a function from names to inlined nodes.  Inside of functions *)
(* that take parameters inlining is partial: a parameter is Absent in the  *)
(* scope, what depends on it is retained and inlined again in the scope of *)
(* the caller.                                                             *)
(***************************************************************************)
EXTENDS JstBuiltins

AddDef(scope, name, def) == (name :> def) @@ scope
AddDefs(scope, names, defs) ==
  FoldLeft(LAMBDA s, i : AddDef(s, names[i], defs[i]), scope,
           [i \in DOMAIN names |-> i])
EmptyScope == [x \in {} |-> Absent]

RECURSIVE Inline(_, _, _)
InlineAll(nodes, scope, partial) ==
  [i \in DOMAIN nodes |-> Inline(nodes[i], scope, partial)]

-----------------------------------------------------------------------------
(* Built-in functions *)

TakesParams(func, n) == Op(func) = "func" /\ Len(Data(func)) = n
Foreach(p, scope, partial) ==
  IF TakesParams(p.func, 1)
  THEN Inline(ForEachNode(Data(p.func)[1], p.range, Body(p.func)), scope, partial)
  ELSE Bad
ZipWith(p, scope, partial) ==
  IF TakesParams(p.func, 2)
  THEN Inline(ZipWithNode(Data(p.func), p.range1, p.range2, Body(p.func)),
              scope, partial)
  ELSE Bad
Foldl(p, scope, partial) ==
  IF TakesParams(p.func, 2)
  THEN Inline(FoldLeftNode(Data(p.func), p.init, p.range, Body(p.func)),
              scope, partial)
  ELSE Bad
CallBuiltin(name, args, scope, partial) ==
  LET p == CHOOSE q \in args : TRUE
  IN CASE args = {}         -> Bad
       [] name = "foreach"  -> Foreach(p, scope, partial)
       [] name = "zip_with" -> ZipWith(p, scope, partial)
       [] name = "foldl"    -> Foldl(p, scope, partial)
       [] OTHER             -> Apply(name, p)
\* A call with nameless parameters.
CallWith(call) ==
  CallBuiltin(call[1], MakeNamedParameters(Signature(call[1]),
                         [i \in DOMAIN call[2] |-> <<>>], call[2]),
              EmptyScope, FALSE)

\* In a loop whose range is known only at runtime the variable of the
\* configuration that env reads may be hidden by the one of the loop.
Shadowed(var, scope) == /\ Data(var) \in DOMAIN scope
                        /\ Op(scope[Data(var)]) = "var"
InlineBuiltinCall(builtin, names, params, scope, partial) ==
  LET nodes == InlineAll(params, scope, partial)
      args == MakeNamedParameters(Signature(builtin), names, nodes)
      Checked(result) ==
        IF builtin = "env" /\ result # Bad /\ Shadowed(result, scope) THEN Bad
        ELSE result
  IN CASE Contains(nodes, Bad) -> Bad
       [] partial -> CallExpr(BuiltinNode(builtin), names, nodes)
       [] ~Contains(BuiltinNames, builtin) -> Bad
       [] OTHER -> Checked(CallBuiltin(builtin, args, scope, partial))

-----------------------------------------------------------------------------
(* Functions *)

InlineFunc(n, scope, partial) ==
  LET params == Data(n)
      within == partial \/ params # <<>>
      Known(i) == AddDefs(scope, SubSeq(params, 1, i), [j \in 1..i |-> Absent])
      InScope(i) == Inline(Args(n)[i], Known(i - 1), within)
  IN FuncNode(params, [i \in DOMAIN params |-> InScope(i)],
              InScope(Len(params) + 1))

\* The body is inlined in the scope of the caller with the parameters added; a
\* parameter passed by name is known to the body under the name it was passed.
InlineFuncBody(func, names, params, scope, partial) ==
  LET formal == Data(func)
      given == DOMAIN formal \cap DOMAIN params
      mandatory == {i \in DOMAIN formal : Args(func)[i] = Absent}
      Define(s, i) ==
        AddDef(s, IF i \in given /\ names[i] # <<>> THEN names[i] ELSE formal[i],
               IF i \in given THEN Inline(params[i], scope, partial)
               ELSE Inline(Args(func)[i], s, partial))
      inner == FoldLeft(Define, scope, [i \in DOMAIN formal |-> i])
  IN CASE formal = <<>>                        -> Body(func)
       [] Len(params) < Cardinality(mandatory) -> Bad
       [] ~(mandatory \subseteq given)         -> Bad
       [] \E x \in DOMAIN inner : inner[x] = Bad -> Bad
       [] OTHER -> Inline(Body(func), inner, partial)

InlineRead(n, scope, partial) ==
  LET name == Data(n)
  IN CASE name \notin DOMAIN scope -> Bad
       [] scope[name] # Absent     -> scope[name]
       [] partial                  -> n
       [] OTHER                    -> Bad
\* The call of an unknown name is retained as it is, its parameters too.
InlineCallName(n, scope, partial) ==
  LET name == Data(n)[1]
  IN CASE name \notin DOMAIN scope    -> Bad
       [] Op(scope[name]) = "func"    ->
            InlineFuncBody(scope[name], Data(n)[2], Args(n), scope, partial)
       [] scope[name] = Absent /\ partial -> n
       [] OTHER                       -> Bad
InlineCallExpr(n, scope, partial) ==
  LET target == Inline(Head(Args(n)), scope, partial)
      params == Tail(Args(n))
  IN CASE Op(target) = "builtin" ->
            InlineBuiltinCall(Data(target), Data(n), params, scope, partial)
       [] Op(target) = "func"    ->
            InlineFuncBody(target, Data(n), params, scope, partial)
       [] partial                -> CallExpr(target, Data(n), params)
       [] OTHER                  -> Bad

InlineLet(n, scope, partial) ==
  LET value == Inline(Args(n)[1], scope, partial)
  IN IF value = Bad THEN Bad
     ELSE Inline(Args(n)[2], AddDef(scope, Data(n), value), partial)

\* The built-in functions are the fields of a map with the name jst.
BuiltinObj ==
  MapNode([i \in DOMAIN BuiltinNames |->
    <<StringNode(<<BuiltinNames[i]>>), BuiltinNode(BuiltinNames[i])>>])
ProvideBuiltinsToAST(ast) == LetNode(<<"jst">>, BuiltinObj, ast)

-----------------------------------------------------------------------------
(* Control flow: unrolled over literal lists, otherwise loops at runtime *)

InlineIf(n, scope, partial) ==
  LET cond == Inline(Args(n)[1], scope, partial)
      Branch(i) == Inline(Args(n)[i], scope, partial)
      truth == TruthValue(cond)
      chosen == Branch(IF truth = {TRUE} THEN 2 ELSE 3)
  IN CASE cond = Bad -> Bad
       [] truth # {} -> IF chosen = Absent THEN ListNode(<<>>) ELSE chosen
       [] OTHER      -> IfNode(cond, Branch(2), Branch(3))

\* As if loops in functions always ran at runtime.
LoopScopeAtRuntime(scope, vars, partial) ==
  AddDefs(scope, vars, [i \in DOMAIN vars |-> VarNode(vars[i], Absent)])
\* What the variables of a loop are known as in its body.
LoopScope(scope, vars, partial) ==
  AddDefs(scope, vars, [i \in DOMAIN vars |->
            IF partial THEN Absent ELSE VarNode(vars[i], Absent)])
InlineForEach(n, scope, partial) ==
  LET range == Inline(Args(n)[1], scope, partial)
      body == Args(n)[2]
  IN CASE range = Bad -> Bad
       [] EvalType(range) \notin OneOf("List") -> Bad
       [] Op(range) = "list" ->
            ListNode([i \in DOMAIN Args(range) |->
              Inline(body, AddDef(scope, Data(n)[1], Args(range)[i]), partial)])
       [] OTHER ->
            ForEachNode(Data(n)[1], range,
              Inline(body, LoopScope(scope, Data(n), partial), partial))
InlineZipWith(n, scope, partial) ==
  LET range1 == Inline(Args(n)[1], scope, partial)
      range2 == Inline(Args(n)[2], scope, partial)
      body == Args(n)[3]
      both == DOMAIN Args(range1) \cap DOMAIN Args(range2)
  IN CASE Bad \in {range1, range2} -> Bad
       [] Op(range1) = "list" /\ Op(range2) = "list" ->
            ListNode([i \in both |->
              Inline(body, AddDefs(scope, Data(n),
                             <<Args(range1)[i], Args(range2)[i]>>), partial)])
       [] ListNode(<<>>) \in {range1, range2} -> ListNode(<<>>)
       [] OTHER ->
            ZipWithNode(Data(n), range1, range2,
              Inline(body, LoopScope(scope, Data(n), partial), partial))
\* If both variables have the same name it denotes the entry.
InlineFoldLeft(n, scope, partial) ==
  LET init == Inline(Args(n)[1], scope, partial)
      range == Inline(Args(n)[2], scope, partial)
      body == Args(n)[3]
      Step(accu, item) ==
        IF accu = Bad THEN Bad
        ELSE Inline(body, AddDefs(scope, <<Data(n)[2], Data(n)[1]>>,
                                  <<accu, item>>), partial)
  IN CASE Bad \in {init, range} -> Bad
       [] Op(range) = "list"    -> FoldLeft(Step, init, Args(range))
       [] OTHER ->
            FoldLeftNode(Data(n), init, range,
              Inline(body, LoopScope(scope, Data(n), partial), partial))

-----------------------------------------------------------------------------
(* Operators *)

\* What operators call: a built-in function and its arguments.
NoCall == <<"", <<>>>>
InlineUnary(n, expr) ==
  CASE Data(n)[1] = "not" -> <<"not", <<expr>>>>
    [] EvalType(expr) \in OneOf("Number") ->
         <<"prod", <<ListNode(<<expr, Lit(Num(-1))>>)>>>>
    [] OTHER -> NoCall

\* + is the function of the type of its arguments, if one of them tells it.
Plus == [String |-> "join", Number |-> "sum", List |-> "flatten", Map |-> "union"]
InlineBinary(n, lhs, rhs) ==
  LET type == Data(n)[1]
      both == {EvalType(lhs), EvalType(rhs)}
      plus == {t \in DOMAIN Plus : t \in both /\ both \subseteq OneOf(t)}
      args == <<ListNode(<<lhs, rhs>>)>>
  IN CASE type = "==" -> <<"eq", <<lhs, rhs>>>>
       [] type = "and" -> <<"all", args>>
       [] type = "or" -> <<"any", args>>
       [] type = "*" /\ both \subseteq OneOf("Number") -> <<"prod", args>>
       [] type = "+" /\ plus # {} -> <<Plus[CHOOSE t \in plus : TRUE], args>>
       [] OTHER -> NoCall

\* A field or an entry that is missing is null, not an error.
InlineLookup(index, container) ==
  CASE Op(container) = "map"  -> <<"get", <<index, container>>>>
    [] Op(container) = "list" -> <<"at", <<index, container>>>>
    [] OTHER                  -> NoCall

\* What an operator with inlined arguments calls.
OperatorCall(n, arg) ==
  CASE Op(n) = "unary"  -> InlineUnary(n, arg[1])
    [] Op(n) = "binary" -> InlineBinary(n, arg[1], arg[2])
    [] Op(n) = "lookup" -> InlineLookup(arg[1], arg[2])
InlineOperator(n, arg, partial) ==
  CASE Contains(arg, Bad)             -> Bad
    [] partial /\ Op(n) # "lookup"    -> Node(Op(n), Data(n), arg)
    [] OTHER                          -> CallWith(OperatorCall(n, arg))

-----------------------------------------------------------------------------
Inline(n, scope, partial) ==
  CASE Op(n) \in {"lit", "var", "builtin", "absent", "bad"} -> n
    [] Op(n) \in {"list", "map"} ->
         Node(Op(n), Data(n), InlineAll(Args(n), scope, partial))
    [] Op(n) = "let"       -> InlineLet(n, scope, partial)
    [] Op(n) = "func"      -> InlineFunc(n, scope, partial)
    [] Op(n) = "read"      -> InlineRead(n, scope, partial)
    [] Op(n) = "call_name" -> InlineCallName(n, scope, partial)
    [] Op(n) = "call_expr" -> InlineCallExpr(n, scope, partial)
    [] Op(n) = "foreign"   ->
         Inline(ProvideBuiltinsToAST(Args(n)[1]), EmptyScope, FALSE)
    [] Op(n) = "verbatim"  ->
         VerbatimNode(Inline(Args(n)[1], scope, partial), Data(n)[1], Data(n)[2])
    [] Op(n) = "if"        -> InlineIf(n, scope, partial)
    [] Op(n) = "foreach"   -> InlineForEach(n, scope, partial)
    [] Op(n) = "zip_with"  -> InlineZipWith(n, scope, partial)
    [] Op(n) = "foldl"     -> InlineFoldLeft(n, scope, partial)
    [] Op(n) \in {"unary", "binary", "lookup"} ->
         InlineOperator(n, Entries(InlineAll(Args(n), scope, partial)), partial)

InlineAST(n) == Inline(n, EmptyScope, FALSE)
=============================================================================
