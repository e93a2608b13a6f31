------------------------------ MODULE Evaluator ------------------------------
(***************************************************************************)
(* Evaluator::Evaluate: the value of an expression under a configuration,  *)
(* a function from variable names to values.  One operator per syntactic   *)
(* construct (src/buildtool/build_engine/expression/evaluator.cpp); the    *)
(* functions that rules add to the built-in ones are left out.             *)
(***************************************************************************)
EXTENDS Expression

(* Configuration *)
Value(env, x) == IF x \in DOMAIN env THEN env[x] ELSE None
Update(env, x, v) == (x :> v) @@ env
Prune(env, vars) == [x \in vars |-> Value(env, x)]

(* Fields of an expression: expr->At, expr[...], expr->Get *)
Has(e, field) == <<field>> \in DOMAIN e[2]
At(e, field) == e[2][<<field>>]
Get(e, field, default) == IF Has(e, field) THEN At(e, field) ELSE default

RECURSIVE Evaluate(_, _)
Argument(e, field, env) ==
  IF Has(e, field) THEN Evaluate(At(e, field), env) ELSE Error
Defaulted(e, field, default, env) == Evaluate(Get(e, field, default), env)
Strict(f(_), v) == IF Failed(v) THEN Error ELSE f(v)
UnaryExpr(f(_), e, env) == Strict(f, Argument(e, "$1", env))
\* The same sequence; TLC evaluates its entries only once.
Entries(l) == l \o <<>>
\* A list with a failing entry fails.
Sequenced(l) == LET entries == Entries(l)
                IN IF Contains(entries, Error) THEN Error ELSE List(entries)

-----------------------------------------------------------------------------
(* Logic: literal lists are evaluated only up to the entry that decides *)

RECURSIVE FirstIs(_, _, _)
FirstIs(truth, l, env) ==
  IF l = <<>> THEN Bool(~truth)
  ELSE LET v == Evaluate(Head(l), env)
       IN CASE Failed(v)              -> Error
            [] ValueIsTrue(v) = truth -> Bool(truth)
            [] OTHER                  -> FirstIs(truth, Tail(l), env)
LogicalAnd(l, env) == FirstIs(FALSE, l, env)
LogicalOr(l, env) == FirstIs(TRUE, l, env)
AndExpr(e, env) ==
  CASE ~Has(e, "$1")           -> Bool(TRUE)
    [] Is("list", At(e, "$1")) -> LogicalAnd(At(e, "$1")[2], env)
    [] OTHER                   -> UnaryExpr(All, e, env)
OrExpr(e, env) ==
  CASE ~Has(e, "$1")           -> Bool(FALSE)
    [] Is("list", At(e, "$1")) -> LogicalOr(At(e, "$1")[2], env)
    [] OTHER                   -> UnaryExpr(Some, e, env)

VarExpr(e, env) ==
  IF ~Has(e, "name") \/ ~Is("str", At(e, "name")) THEN Error
  ELSE LET v == Value(env, At(e, "name")[2])
       IN IF v = None THEN Defaulted(e, "default", None, env) ELSE v

-----------------------------------------------------------------------------
(* Quotation; the backquote, no token of TLA+, is spelt out *)

QuoteExpr(e) == Get(e, "$1", None)

Unquotes(v, token) == /\ Is("map", v) /\ <<"type">> \in DOMAIN v[2]
                      /\ At(v, "type") = Str(<<token>>)
RECURSIVE ExpandQuasiQuote(_, _), ExpandQuasiQuoteListEntry(_, _)
\* The sequence of values a list entry contributes, or Error.
ExpandQuasiQuoteListEntry(v, env) ==
  CASE Unquotes(v, ",")  ->
         IF Has(v, "$1") THEN Sequenced(<<Evaluate(At(v, "$1"), env)>>)
         ELSE Error    \* None is not a list
    [] Unquotes(v, ",@") ->
         LET l == Defaulted(v, "$1", List(<<>>), env)
         IN IF Is("list", l) THEN l ELSE Error
    [] Is("map", v)      -> Error    \* it is not put into a list
    [] OTHER             -> Sequenced(<<ExpandQuasiQuote(v, env)>>)
ExpandQuasiQuote(v, env) ==
  CASE Unquotes(v, ",")  -> Defaulted(v, "$1", None, env)
    [] Unquotes(v, ",@") -> Error
    [] Is("list", v) ->
         Flatten(List([i \in DOMAIN v[2] |->
                         ExpandQuasiQuoteListEntry(v[2][i], env)]))
    [] Is("map", v) ->
         LET m == [k \in DOMAIN v[2] |-> ExpandQuasiQuote(v[2][k], env)]
         IN IF \E k \in DOMAIN m : Failed(m[k]) THEN Error ELSE Map(m)
    [] OTHER -> v
QuasiQuoteExpr(e, env) ==
  IF Has(e, "$1") THEN ExpandQuasiQuote(At(e, "$1"), env) ELSE None

-----------------------------------------------------------------------------
(* Conditionals *)

IfExpr(e, env) ==
  LET c == Argument(e, "cond", env)
  IN CASE Failed(c)      -> Error
       [] ValueIsTrue(c) -> Defaulted(e, "then", List(<<>>), env)
       [] OTHER          -> Defaulted(e, "else", List(<<>>), env)

Pair(v) == Is("list", v) /\ Len(v[2]) = 2
\* The body of the first pair whose head, evaluated, is Chosen.
RECURSIVE FirstPair(_, _, _, _)
FirstPair(pairs, Chosen(_), env, e) ==
  IF pairs = <<>> THEN Defaulted(e, "default", List(<<>>), env)
  ELSE IF ~Pair(Head(pairs)) THEN Error
  ELSE LET head == Evaluate(Head(pairs)[2][1], env)
       IN CASE Failed(head) -> Error
            [] Chosen(head) -> Evaluate(Head(pairs)[2][2], env)
            [] OTHER        -> FirstPair(Tail(pairs), Chosen, env, e)
CondExpr(e, env) ==
  CASE ~Has(e, "cond")            -> Defaulted(e, "default", List(<<>>), env)
    [] ~Is("list", At(e, "cond")) -> Error
    [] OTHER -> FirstPair(At(e, "cond")[2], ValueIsTrue, env, e)
CaseExpr(e, env) ==
  IF ~Has(e, "case") THEN Defaulted(e, "default", List(<<>>), env)
  ELSE LET key == Argument(e, "expr", env)
           cases == At(e, "case")
       IN CASE ~Is("map", cases) \/ ~Is("str", key) -> Error
            [] key[2] \in DOMAIN cases[2] -> Evaluate(cases[2][key[2]], env)
            [] OTHER -> Defaulted(e, "default", List(<<>>), env)
SeqCaseExpr(e, env) ==
  IF ~Has(e, "case") THEN Defaulted(e, "default", List(<<>>), env)
  ELSE LET cmp == Argument(e, "expr", env)
       IN IF \/ ~Is("list", At(e, "case"))
             \/ Failed(cmp) \/ ~IsCacheable(cmp) THEN Error
          ELSE FirstPair(At(e, "case")[2], LAMBDA v : v = cmp, env, e)
EqualExpr(e, env) ==
  LET a == Argument(e, "$1", env)
      b == Argument(e, "$2", env)
  IN IF Failed(a) \/ Failed(b) \/ ~IsCacheable(a) \/ ~IsCacheable(b)
     THEN Error ELSE Bool(a = b)

-----------------------------------------------------------------------------
(* Strings, lists and maps *)

Empty == Str(<<>>)
JoinExpr(e, env) ==
  LET sep == Defaulted(e, "separator", Empty, env)
  IN IF Is("str", sep)
     THEN Join(Defaulted(e, "$1", List(<<>>), env), sep[2]) ELSE Error
JoinCmdExpr(e, env) ==
  LET l == Defaulted(e, "$1", List(<<>>), env)
  IN IF Strings(l)
     THEN Str(Joined([i \in DOMAIN l[2] |-> ShellQuote(l[2][i][2])], <<" ">>))
     ELSE Error
\* What to escape matters only for the characters of a string, and the prefix
\* only if one of them is escaped.
EscapeCharsExpr(e, env) ==
  LET s == Defaulted(e, "$1", Empty, env)
      chars == Defaulted(e, "chars", Empty, env)
      prefix == Defaulted(e, "escape_prefix", Str(<<"\\">>), env)
      escapes == \E i \in DOMAIN s[2] : Contains(chars[2], s[2][i])
  IN CASE ~Is("str", s) \/ Failed(chars) \/ Failed(prefix) -> Error
       [] s = Empty           -> s
       [] ~Is("str", chars)   -> Error
       [] ~escapes            -> s
       [] ~Is("str", prefix)  -> Error
       [] OTHER -> Str(Escape(s[2], chars[2], prefix[2]))
ConcatTargetNameExpr(e, env) ==
  LET end == Defaulted(e, "$2", Empty, env)
  IN ConcatTargetName(Defaulted(e, "$1", Empty, env),
                      IF Is("str", end) THEN end ELSE Join(end, <<>>))

\* An entry that is null counts as missing.
LookupExpr(e, env) ==
  LET k == Argument(e, "key", env)
      d == Argument(e, "map", env)
  IN CASE ~Is("str", k) \/ ~Is("map", d) -> Error
       [] k[2] \in DOMAIN d[2] /\ d[2][k[2]] # None -> d[2][k[2]]
       [] OTHER -> Defaulted(e, "default", None, env)
\* Negative positions count from the end.
ArrayAccessExpr(e, env) ==
  LET k == Argument(e, "index", env)
      d == Argument(e, "list", env)
      at == IF Index(k) < 0 THEN Len(d[2]) + Index(k) ELSE Index(k)
  IN CASE Failed(k) \/ ~Is("list", d)  -> Error
       [] at \in 0..(Len(d[2]) - 1) -> d[2][at + 1]
       [] OTHER -> Defaulted(e, "default", None, env)
SingletonMapExpr(e, env) ==
  LET k == Argument(e, "key", env)
      v == Argument(e, "value", env)
  IN IF Is("str", k) /\ ~Failed(v) THEN Map(k[2] :> v) ELSE Error
ToSubdirExpr(e, env) ==
  LET flat == Defaulted(e, "flat", Bool(FALSE), env)
  IN IF Failed(flat) THEN Error
     ELSE ToSubdir(Argument(e, "$1", env),
                   Defaulted(e, "subdir", Str(<<".">>), env), ValueIsTrue(flat))
FromSubdirExpr(e, env) ==
  FromSubdir(Argument(e, "$1", env), Defaulted(e, "subdir", Str(<<".">>), env))

-----------------------------------------------------------------------------
(* Binding constructs: the variable is a literal string *)

Variable(e, field, default) == Get(e, field, Str(<<default>>))
BodyOf(e) == Get(e, "body", List(<<>>))
ForeachExpr(e, env) ==
  LET range == Defaulted(e, "range", List(<<>>), env)
      var == Variable(e, "var", "_")
  IN CASE ~Is("list", range)  -> Error
       [] range[2] = <<>>     -> range
       [] ~Is("str", var)     -> Error
       [] OTHER -> Sequenced([i \in DOMAIN range[2] |->
                     Evaluate(BodyOf(e), Update(env, var[2], range[2][i]))])
ForeachMapExpr(e, env) ==
  LET range == Defaulted(e, "range", Syntax("empty_map", EmptyMap), env)
      var == Variable(e, "var_key", "_")
      var_val == Variable(e, "var_val", "$_")
      keys == SortedKeys(range[2])
  IN CASE ~Is("map", range)  -> Error
       [] DOMAIN range[2] = {} -> List(<<>>)
       [] ~Is("str", var) \/ ~Is("str", var_val) -> Error
       [] OTHER -> Sequenced([i \in DOMAIN keys |->
                     Evaluate(BodyOf(e),
                       Update(Update(env, var[2], Str(keys[i])),
                              var_val[2], range[2][keys[i]]))])
ZipWithExpr(e, env) ==
  LET range_1 == Defaulted(e, "range_1", List(<<>>), env)
      range_2 == Defaulted(e, "range_2", List(<<>>), env)
      var_1 == Variable(e, "var_1", "$1")
      var_2 == Variable(e, "var_2", "$2")
      both == DOMAIN range_1[2] \cap DOMAIN range_2[2]
  IN CASE ~Is("list", range_1) -> Error
       [] range_1[2] = <<>>    -> range_1
       [] ~Is("list", range_2) -> Error
       [] range_2[2] = <<>>    -> range_2
       [] ~Is("str", var_1) \/ ~Is("str", var_2) -> Error
       [] OTHER -> Sequenced([i \in both |->
                     Evaluate(BodyOf(e),
                       Update(Update(env, var_1[2], range_1[2][i]),
                              var_2[2], range_2[2][i]))])
\* A key that occurs twice keeps its last value.
ZipMapExpr(e, env) ==
  LET keys == Defaulted(e, "range_key", List(<<>>), env)
      vals == Defaulted(e, "range_val", List(<<>>), env)
      both == DOMAIN keys[2] \cap DOMAIN vals[2]
  IN CASE ~Is("list", keys) -> Error
       [] keys[2] = <<>>    -> Map(EmptyMap)
       [] ~Is("list", vals) -> Error
       [] \E i \in both : ~Is("str", keys[2][i]) -> Error
       [] OTHER -> Map([k \in {keys[2][i][2] : i \in both} |->
                     vals[2][Max({i \in both : keys[2][i][2] = k})]])
\* If both variables have the same name it denotes the entry.
FoldLeftExpr(e, env) ==
  LET range == Argument(e, "range", env)
      start == Defaulted(e, "start", List(<<>>), env)
      var == Variable(e, "var", "_")
      accum_var == Variable(e, "accum_var", "$1")
      Step(acc, x) == IF Failed(acc) THEN Error
                      ELSE Evaluate(BodyOf(e), Update(
                             Update(env, accum_var[2], acc), var[2], x))
  IN CASE ~Is("list", range) \/ Failed(start) -> Error
       [] range[2] = <<>> -> start
       [] ~Is("str", var) \/ ~Is("str", accum_var) -> Error
       [] OTHER -> FoldLeft(Step, start, range[2])
\* Each binding sees the earlier ones.
LetExpr(e, env) ==
  LET bindings == Get(e, "bindings", List(<<>>))
      Named(b) == Pair(b) /\ Is("str", b[2][1])
      Bind(inner, b) ==
        IF Failed(inner) \/ ~Named(b) \/ Failed(Evaluate(b[2][2], inner[2]))
        THEN Error
        ELSE Map(Update(inner[2], b[2][1][2], Evaluate(b[2][2], inner[2])))
      inner == FoldLeft(Bind, Map(env), bindings[2])
  IN IF ~Is("list", bindings) \/ Failed(inner) THEN Error
     ELSE Evaluate(Get(e, "body", Map(EmptyMap)), inner[2])
EnvExpr(e, env) ==
  LET vars == Get(e, "vars", List(<<>>))
  IN IF ~Strings(vars) THEN Error
     ELSE Map(Prune(env, {vars[2][i][2] : i \in DOMAIN vars[2]}))

-----------------------------------------------------------------------------
(* Assertions *)

AssertExpr(e, env) ==
  LET v == Argument(e, "$1", env)
      var == Variable(e, "var", "_")
      pred == Argument(e, "predicate", Update(env, var[2], v))
  IN IF \/ Failed(v) \/ ~Is("str", var)
        \/ Failed(pred) \/ ~ValueIsTrue(pred) THEN Error ELSE v
AssertNonEmptyExpr(e, env) ==
  LET v == Argument(e, "$1", env)
  IN IF v[1] \in {"str", "list", "map"} /\ ValueIsTrue(v) THEN v ELSE Error

-----------------------------------------------------------------------------
kBuiltInFunctions(type, e, env) ==
  CASE type = "var"              -> VarExpr(e, env)
    [] type = "'"                -> QuoteExpr(e)
    [] type = "backquote"        -> QuasiQuoteExpr(e, env)
    [] type = "if"               -> IfExpr(e, env)
    [] type = "cond"             -> CondExpr(e, env)
    [] type = "case"             -> CaseExpr(e, env)
    [] type = "case*"            -> SeqCaseExpr(e, env)
    [] type = "assert"           -> AssertExpr(e, env)
    [] type = "assert_non_empty" -> AssertNonEmptyExpr(e, env)
    [] type = "context"          -> Defaulted(e, "$1", None, env)
    [] type = "=="               -> EqualExpr(e, env)
    [] type = "and"              -> AndExpr(e, env)
    [] type = "or"               -> OrExpr(e, env)
    [] type = "not"              -> UnaryExpr(Not, e, env)
    [] type = "++"               -> UnaryExpr(Flatten, e, env)
    [] type = "+"                -> UnaryExpr(Addition, e, env)
    [] type = "*"                -> UnaryExpr(Multiplication, e, env)
    [] type = "nub_right"        -> UnaryExpr(NubRight, e, env)
    [] type = "nub_left"         -> UnaryExpr(NubLeft, e, env)
    [] type = "range"            -> UnaryExpr(UpTo, e, env)
    [] type = "change_ending"    ->
         ChangeEndingTo(Defaulted(e, "$1", Empty, env),
                        Defaulted(e, "ending", Empty, env))
    [] type = "basename"         -> UnaryExpr(BaseName, e, env)
    [] type = "join"             -> JoinExpr(e, env)
    [] type = "join_cmd"         -> JoinCmdExpr(e, env)
    [] type = "json_encode"      ->
         Strict(LAMBDA v : Str(Dump(v)), Defaulted(e, "$1", List(<<>>), env))
    [] type = "escape_chars"     -> EscapeCharsExpr(e, env)
    [] type = "keys"             -> UnaryExpr(Keys, e, env)
    [] type = "enumerate"        -> UnaryExpr(Enumerate, e, env)
    [] type = "set"              -> UnaryExpr(Set, e, env)
    [] type = "reverse"          -> UnaryExpr(Reversed, e, env)
    [] type = "length"           -> UnaryExpr(Length, e, env)
    [] type = "values"           -> UnaryExpr(Values, e, env)
    [] type = "lookup"           -> LookupExpr(e, env)
    [] type = "[]"               -> ArrayAccessExpr(e, env)
    [] type = "empty_map"        -> Map(EmptyMap)
    [] type = "singleton_map"    -> SingletonMapExpr(e, env)
    [] type = "disjoint_map_union" -> UnaryExpr(DisjointUnion, e, env)
    [] type = "map_union"        -> UnaryExpr(Union, e, env)
    [] type = "to_subdir"        -> ToSubdirExpr(e, env)
    [] type = "from_subdir"      -> FromSubdirExpr(e, env)
    [] type = "foreach"          -> ForeachExpr(e, env)
    [] type = "foreach_map"      -> ForeachMapExpr(e, env)
    [] type = "zip_with"         -> ZipWithExpr(e, env)
    [] type = "zip_map"          -> ZipMapExpr(e, env)
    [] type = "foldl"            -> FoldLeftExpr(e, env)
    [] type = "let*"             -> LetExpr(e, env)
    [] type = "env"              -> EnvExpr(e, env)
    [] type = "concat_target_name" -> ConcatTargetNameExpr(e, env)
    [] OTHER -> Error   \* fail, commas outside of quasi-quotes, unknown types

Evaluate(e, env) ==
  CASE Is("list", e) -> Sequenced([i \in DOMAIN e[2] |-> Evaluate(e[2][i], env)])
    [] ~Is("map", e) -> e
    [] ~Has(e, "type") \/ ~Is("str", At(e, "type")) \/ Len(At(e, "type")[2]) # 1
                     -> Error
    [] OTHER         -> kBuiltInFunctions(At(e, "type")[2][1], e, env)
=============================================================================
