------------------------------ MODULE JstParser ------------------------------
(***************************************************************************)
(* The parser of the jst language: recursive descent over the tokens of a  *)
(* file (src/buildtool/jstlang/ast/native/parser.cpp).                     *)
(*                                                                         *)
(* What parses is given the remaining tokens t and the source they are     *)
(* from: the files that can be imported and those that are being imported. *)
(* It yields a node and the tokens behind it, Refused where the code       *)
(* throws.  References to targets are refused, locations left out; that    *)
(* the token behind a node is looked at to locate it is kept.              *)
(***************************************************************************)
EXTENDS JstAst

(***************************************************************************)
(* The tokens of a file of the jst language                                *)
(* (src/buildtool/jstlang/ast/native/lexer.cpp).                           *)
(*                                                                         *)
(* A text is a sequence of letters; a group of letters that is only ever   *)
(* part of a word ("keys") may be one of them.  A token is a pair of its   *)
(* type and its value.  What scans yields a token and the position behind  *)
(* it, Unscanned where the code throws.  The positions kept for messages   *)
(* and the fractions of numbers are left out.                              *)
(***************************************************************************)
kSimpleTokens == {"{", "}", "[", "]", "(", ")", ".", ",", ";"}
kKeywords == {"assert", "else", "error", "false", "for", "function", "if",
              "import", "in", "local", "null", "then", "true"}
kSymbols == {"!", ":", "~", "+", "-", "&", "|", "^", "=", "<", ">", "*", "/", "%"}
kValidBinaryOperators ==
  {<<"=", "=">>, <<"!", "=">>, <<"<", "=">>, <<">", "=">>, <<"&", "&">>, <<"|", "|">>}
Whitespace == {" ", "\t", "\r", "\n"}
Quotes == {"'", "\""}
Numerals == {"0", "1", "2", "3", "4", "5", "6", "7", "8", "9"}
Special == {"@", "$", "#", "?", "\\"}
Marks == kSimpleTokens \cup kSymbols \cup Whitespace \cup Quotes \cup Special
InWord(c) == c \notin Marks

\* Behind the end of the text there is no letter.
Peek(text, i) == IF i \in DOMAIN text THEN text[i] ELSE ""
\* The first position from i on of which P holds, or the end.
FirstAt(text, i, P(_)) == Min({j \in i..Len(text) : P(j)} \cup {Len(text) + 1})
Between(text, i, j) == SubSeq(text, i, j - 1)
Scanned(type, value, next) == [token |-> <<type, value>>, next |-> next]
Unscanned == Scanned("lost", <<>>, 0)

-----------------------------------------------------------------------------
ScanNumber(text, i) ==
  LET end == FirstAt(text, i, LAMBDA j : text[j] \notin Numerals)
  IN Scanned("INTEGER", Between(text, i, end), end)

ScanKeywords(text, i) ==
  LET end == FirstAt(text, i, LAMBDA j : ~InWord(text[j]))
      word == Between(text, i, end)
  IN Scanned(IF word \in {<<k>> : k \in kKeywords} THEN word[1] ELSE "IDENTIFIER",
             word, end)

Unescaped(c) ==
  CASE c = "n" -> <<"\n">>
    [] c = "t" -> <<"\t">>
    [] c = "r" -> <<"\r">>
    [] c \in Quotes \cup {"\\"} -> <<c>>
    [] OTHER -> <<"\\", c>>
\* A string ends at the first quote that is not behind an odd number of
\* backslashes.
ScanLiterals(text, i) ==
  LET Escaped(j) ==
        (j - Max({k \in i..(j - 1) : text[k] # "\\"})) % 2 = 0
      end == FirstAt(text, i + 1, LAMBDA j : text[j] = text[i] /\ ~Escaped(j))
      Content(j) == CASE Escaped(j)     -> Unescaped(text[j])
                      [] text[j] = "\\" -> <<>>
                      [] OTHER          -> <<text[j]>>
  IN IF end > Len(text) THEN Unscanned
     ELSE Scanned("STRING", FlattenSeq([k \in 1..(end - i - 1) |-> Content(i + k)]),
                  end + 1)

\* Names of variables and targets: a quote in them is doubled.
ScanSpecialString(text, i) ==
  LET Behind(j) == j - 1 - Max({k \in (i + 1)..(j - 1) : text[k] # "'"} \cup {i + 1})
      \* in a run of quotes the last one ends the name if the run is odd
      end == FirstAt(text, i + 2, LAMBDA j :
               text[j] = "'" /\ Peek(text, j + 1) # "'" /\ Behind(j) % 2 = 0)
      Content(j) == IF text[j] = "'" /\ Behind(j) % 2 = 1 THEN <<>> ELSE <<text[j]>>
  IN IF Peek(text, i + 1) # "'" \/ end > Len(text) THEN Unscanned
     ELSE Scanned(IF text[i] = "$" THEN "VAR_STRING" ELSE "REF_STRING",
            FlattenSeq([k \in 1..(end - i - 2) |-> Content(i + 1 + k)]), end + 1)

\* The lines of a text block from position i on, behind a line of it or before
\* its first one; every line starts with n spaces or is empty.
RECURSIVE TextLines(_, _, _)
TextLines(text, i, n) ==
  LET start == FirstAt(text, i, LAMBDA j :
                 j = i + n \/ text[j] \notin Whitespace \ {"\n"})
      end == FirstAt(text, i + n, LAMBDA j : text[j] = "\n")
      Added(line, rest) ==
        IF rest = Unscanned THEN Unscanned
        ELSE Scanned("TEXT_BLOCK", line \o rest.token[2], rest.next)
  IN CASE Peek(text, i) = "\n" -> Added(<<"\n">>, TextLines(text, i + 1, n))
       [] start = i + n /\ end <= Len(text) ->
            Added(Between(text, start, end + 1), TextLines(text, end + 1, n))
       [] start < i + n /\ start + 2 <= Len(text) /\ Between(text, start, start + 3) = <<"|", "|", "|">> ->
            Scanned("TEXT_BLOCK", <<>>, start + 3)
       [] OTHER -> Unscanned
HandleTextBlock(text, i) ==
  LET first == 1 + FirstAt(text, i, LAMBDA j : text[j] = "\n")
      start == FirstAt(text, first, LAMBDA j : text[j] \notin Whitespace \ {"\n"})
  IN IF \/ \E j \in i..(first - 2) : text[j] \notin Whitespace
        \/ Peek(text, start) \in {"", "\n"} \/ start = first
     THEN Unscanned ELSE TextLines(text, first, start - first)

\* An equals sign before a plus or minus ends an operator.
HandleOperators(text, i) ==
  LET end == FirstAt(text, i, LAMBDA j :
               \/ text[j] \notin kSymbols
               \/ /\ j > i /\ text[j - 1] = "=" /\ text[j] \in {"-", "+"})
      opr == Between(text, i, end)
  IN CASE opr = <<"|", "|", "|">> -> HandleTextBlock(text, end)
       [] Len(opr) = 1 \/ opr \in kValidBinaryOperators ->
            Scanned("OPERATOR", opr, end)
       [] OTHER -> Unscanned

ScanToken(text, i) ==
  CASE text[i] \in kSimpleTokens -> Scanned(text[i], <<text[i]>>, i + 1)
    [] text[i] \in Quotes        -> ScanLiterals(text, i)
    [] text[i] \in kSymbols      -> HandleOperators(text, i)
    [] text[i] \in Numerals      -> ScanNumber(text, i)
    [] text[i] \in {"@", "$"}    -> ScanSpecialString(text, i)
    [] InWord(text[i])           -> ScanKeywords(text, i)
    [] OTHER                     -> Unscanned

\* Where a comment at position i ends; 0 if it does not.
HandleComments(text, i) ==
  LET close == FirstAt(text, i + 2, LAMBDA j :
                 text[j] = "*" /\ Peek(text, j + 1) = "/")
  IN CASE text[i + 1] = "/"  ->
            1 + Min({FirstAt(text, i, LAMBDA j : text[j] = "\n"), Len(text)})
       [] close > Len(text)  -> 0
       [] OTHER              -> close + 2

Lost == <<Unscanned.token>>
RECURSIVE TokensFrom(_, _)
TokensFrom(text, i) ==
  LET start == FirstAt(text, i, LAMBDA j : text[j] \notin Whitespace)
      comment == Peek(text, start) = "/" /\ Peek(text, start + 1) \in {"/", "*"}
      found == ScanToken(text, start)
      skipped == HandleComments(text, start)
      Following(token, rest) == IF rest = Lost THEN Lost ELSE <<token>> \o rest
  IN CASE start > Len(text)    -> <<>>
       [] comment              -> IF skipped = 0 THEN Lost ELSE TokensFrom(text, skipped)
       [] found = Unscanned    -> Lost
       [] OTHER                -> Following(found.token, TokensFrom(text, found.next))
Tokenize(text) == TokensFrom(text, 1)

-----------------------------------------------------------------------------
kApplyPriority == 2
kUnaryPriority == 4
kMaxPriority == 15
kPrecedenceMap == [Plus |-> 6, Equal |-> 9, And |-> 10, Or |-> 14,
                   Multiplication |-> 5]
kBinaryMap ==
  (<<"-">> :> "Plus") @@ (<<"+">> :> "Plus") @@ (<<"*">> :> "Multiplication")
    @@ (<<"=", "=">> :> "Equal") @@ (<<"!", "=">> :> "Equal")
    @@ (<<"&", "&">> :> "And") @@ (<<"|", "|">> :> "Or")

Parsed(node, rest) == [node |-> node, rest |-> rest]
Refused == Parsed(Bad, <<>>)
Type(t) == IF t = <<>> THEN "" ELSE t[1][1]
Text(t) == IF t = <<>> THEN <<>> ELSE t[1][2]
IsOp(t, opr) == Type(t) = "OPERATOR" /\ Text(t) = opr
\* Go on behind what was parsed (the bound p has TLC evaluate it once), or
\* behind a token of a type.
Then(parsed, K(_, _)) ==
  CHOOSE r \in {IF p.node = Bad THEN Refused ELSE K(p.node, p.rest) : p \in {parsed}} :
    TRUE
PopCheck(t, type, K(_)) == IF Type(t) = type THEN K(Tail(t)) ELSE Refused
PopOp(t, opr, K(_)) == IF IsOp(t, opr) THEN K(Tail(t)) ELSE Refused
\* The location of a node reaches up to the token behind it.
Located(node, rest) == IF rest = <<>> THEN Refused ELSE Parsed(node, rest)

-----------------------------------------------------------------------------
Subtrahend(rhs) == UnaryNode("minus", rhs, "Any")
MakeOperationNode(opr, lhs, rhs) ==
  CASE opr = <<"-">>      -> BinaryNode("+", lhs, Subtrahend(rhs), "Number")
    [] opr = <<"+">>      -> BinaryNode("+", lhs, rhs, "Any")
    [] opr = <<"*">>      -> BinaryNode("*", lhs, rhs, "Number")
    [] opr = <<"&", "&">> -> BinaryNode("and", lhs, rhs, "Bool")
    [] opr = <<"|", "|">> -> BinaryNode("or", lhs, rhs, "Bool")
    [] opr = <<"=", "=">> -> BinaryNode("==", lhs, rhs, "Bool")
    [] opr = <<"!", "=">> ->
         UnaryNode("not", BinaryNode("==", lhs, rhs, "Bool"), "Any")

Digit(letter) == CHOOSE n \in 0..9 : <<letter>> = Numeral(n)
NumberOf(digits) == FoldLeft(LAMBDA n, d : 10 * n + Digit(d), 0, digits)
\* Literals and names are one token.
Terminal(t) ==
  CASE Type(t) = "INTEGER" -> Lit(Num(NumberOf(Text(t))))
    [] Type(t) \in {"STRING", "TEXT_BLOCK"} -> StringNode(Text(t))
    [] Type(t) = "VAR_STRING" -> VarNode(Text(t), Absent)
    [] Type(t) = "false"      -> Lit(Bool(FALSE))
    [] Type(t) = "true"       -> Lit(Bool(TRUE))
    [] Type(t) = "null"       -> NullNode
    [] Type(t) = "IDENTIFIER" -> ReadNode(Text(t))
    [] OTHER                  -> Bad

\* As if operators of the same priority were grouped from the right.
BindsRightmost(priority, max) == priority > max
\* Operators of the same priority are grouped from the left: the outer one
\* gets what is to the left of the next.
BindsWeaker(priority, max) == priority >= max

-----------------------------------------------------------------------------
RECURSIVE Parse(_, _, _), ParseInfix(_, _, _, _), ParseData(_, _, _)

RECURSIVE ParseItems(_, _, _, _)
\* Once there was a comma no further one is asked for.
ParseItems(items, t, src, got_comma) ==
  CASE Type(t) = "]" -> Located(ListNode(items), Tail(t))
    [] ~got_comma    -> Refused
    [] OTHER -> Then(Parse(t, src, kMaxPriority), LAMBDA expr, u :
         ParseItems(Append(items, expr), IF Type(u) = "," THEN Tail(u) ELSE u,
                    src, TRUE))
\* "for x in range", up to the closing bracket; Node makes the node.
ParseComprehension(t, src, close, MakeNode(_, _)) ==
  PopCheck(t, "for", LAMBDA u : PopCheck(u, "IDENTIFIER", LAMBDA v :
    PopCheck(v, "in", LAMBDA w :
      Then(Parse(w, src, kMaxPriority), LAMBDA range, x :
        PopCheck(x, close, LAMBDA y : Parsed(MakeNode(Text(u), range), y))))))
ParseList(t, src) ==
  IF Type(t) = "]" THEN Parsed(ListNode(<<>>), Tail(t))
  ELSE Then(Parse(t, src, kMaxPriority), LAMBDA first, u :
    CASE Type(u) = "for" ->
           Then(ParseComprehension(u, src, "]",
                  LAMBDA x, range : ForEachNode(x, range, first)), Located)
      [] Type(u) = "," -> ParseItems(<<first>>, Tail(u), src, TRUE)
      [] OTHER         -> ParseItems(<<first>>, u, src, FALSE))

RECURSIVE ParseArgs(_, _, _, _)
\* Parameters of a function (func) or of a call, up to the closing bracket: a
\* node with their names and their expressions.  A parameter without default
\* is named by its first token.
ParseArgs(params, t, src, func) ==
  LET complex == /\ Type(t) \in {"IDENTIFIER", "STRING"}
                 /\ Len(t) >= 2 /\ IsOp(Tail(t), <<"=">>)
      name == CASE complex -> Text(t)
                [] func /\ Type(t) \in {"IDENTIFIER", "STRING"} -> Text(t)
                [] OTHER -> <<>>
      With(expr) ==
        Node("params", Append(Data(params), name),
             Append(Args(params), IF func /\ ~complex THEN Absent ELSE expr))
  IN IF Type(t) = ")" THEN Parsed(params, t)
     ELSE Then(Parse(IF complex THEN Tail(Tail(t)) ELSE t, src, kMaxPriority),
               LAMBDA expr, u :
       CASE Type(u) = "," -> ParseArgs(With(expr), Tail(u), src, func)
         [] Type(u) = ")" -> Parsed(With(expr), u)
         [] OTHER         -> Refused)
NoParams == Node("params", <<>>, <<>>)
ParseFuncArgs(t, src) == ParseArgs(NoParams, t, src, TRUE)
ParseCallArgs(t, src) == ParseArgs(NoParams, t, src, FALSE)
Function(params, body) == FuncNode(Data(params), Args(params), body)

\* A call of a call replaces its parameters.
MakeCall(lhs, names, params) ==
  CASE Op(lhs) = "read"      -> CallName(Data(lhs), names, params)
    [] Op(lhs) = "call_name" -> CallName(Data(lhs)[1], names, params)
    [] Op(lhs) = "call_expr" -> CallExpr(Args(lhs)[1], names, params)
    [] OTHER                 -> CallExpr(lhs, names, params)
\* Positional parameters come first.
WellOrdered(names) ==
  \A i, j \in DOMAIN names : i < j /\ names[i] # <<>> => names[j] # <<>>

Postfix == {".", "[", "(", "{"}
\* What the next token makes of lhs; max is the priority of what is to the
\* left of lhs.  The last token of a file is not looked at; an index that starts
\* with a colon, a quoted one too, is taken for a slice.
ParseInfix(lhs, t, src, max) ==
  LET priority == IF Type(t) = "OPERATOR" THEN kPrecedenceMap[kBinaryMap[Text(t)]]
                  ELSE kApplyPriority
      Go(parsed) == Then(parsed, LAMBDA node, u : ParseInfix(node, u, src, max))
      Indexed(index, u) ==
        PopCheck(u, "]", LAMBDA v : Located(LookupNode(index, lhs), v))
      Call(params, u) ==
        IF ~WellOrdered(Data(params)) THEN Refused
        ELSE Parsed(MakeCall(lhs, Data(params), Args(params)),
                    IF Len(u) >= 2 THEN Tail(u) ELSE u)
  IN CASE \/ Len(t) < 2 \/ Type(t) \notin Postfix \cup {"in", "OPERATOR"}
          \/ IsOp(t, <<":">>) -> Parsed(lhs, t)
       [] \/ Type(t) = "in"
          \/ Type(t) = "OPERATOR" /\ Text(t) \notin DOMAIN kBinaryMap -> Refused
       [] BindsWeaker(priority, max) -> Parsed(lhs, t)
       [] Type(t) = "OPERATOR" ->
            Go(Then(Parse(Tail(t), src, priority), LAMBDA rhs, u :
                 Parsed(MakeOperationNode(Text(t), lhs, rhs), u)))
       [] Type(t) = "[" /\ Text(Tail(t)) \in {<<":">>, <<":", ":">>} -> Refused
       [] Type(t) = "[" -> Go(Then(Parse(Tail(t), src, kMaxPriority), Indexed))
       [] Type(t) = "." ->
            Go(PopCheck(Tail(t), "IDENTIFIER", LAMBDA u :
                 Parsed(LookupNode(StringNode(Text(Tail(t))), lhs), u)))
       [] Type(t) = "(" -> Go(Then(ParseCallArgs(Tail(t), src), Call))
       [] OTHER         -> Refused

LiteralKeys == {"IDENTIFIER", "STRING", "TEXT_BLOCK"}
\* The key of a field, and the parameters it has if it is a function.
ParseKey(t, src) ==
  CASE Type(t) \in LiteralKeys -> Parsed(StringNode(Text(t)), Tail(t))
    [] Type(t) = "VAR_STRING" -> Parsed(VarNode(Text(t), Absent), Tail(t))
    [] Type(t) = "[" -> Then(Parse(Tail(t), src, kMaxPriority), LAMBDA key, u :
                          PopCheck(u, "]", LAMBDA v : Parsed(key, v)))
    [] OTHER -> Refused
ParseField(t, src) ==
  LET Valued(u, MakeValue(_)) ==
        PopOp(u, <<":">>, LAMBDA v : Then(Parse(v, src, kMaxPriority),
          LAMBDA value, w : Parsed(MakeValue(value), w)))
      Bound(u) ==
        IF Type(u) # "(" THEN Valued(u, LAMBDA value : value)
        ELSE Then(ParseFuncArgs(Tail(u), src), LAMBDA params, v :
               PopCheck(v, ")", LAMBDA w :
                 Valued(w, LAMBDA body : Function(params, body))))
  IN Then(ParseKey(t, src), LAMBDA key, u : Then(Bound(u),
       LAMBDA value, v : Parsed(Node("field", <<>>, <<key, value>>), v)))

RECURSIVE ParseContent(_, _, _, _, _)
\* The fields of a map behind those that were read, whose literal names were
\* seen; without a comma there is no further one.
ParseContent(fields, seen, t, src, comma) ==
  LET Read(field, u) ==
        ParseContent(Append(fields, Args(field)),
          IF Type(t) \in LiteralKeys THEN seen \cup {Text(t)} ELSE seen,
          IF Type(u) = "," THEN Tail(u) ELSE u, src, Type(u) = ",")
      AllOf(x, range) == CallExpr(BuiltinNode("union"), << <<"maps">> >>,
                           <<ForEachNode(x, range, MapNode(fields))>>)
  IN CASE Type(t) = "}" -> Parsed(MapNode(fields), IF Len(t) > 1 THEN Tail(t) ELSE t)
       [] Type(t) = "for" -> ParseComprehension(t, src, "}", AllOf)
       [] ~comma \/ (Type(t) \in LiteralKeys /\ Text(t) \in seen) -> Refused
       [] OTHER -> Then(ParseField(t, src), Read)

ParseSimple(t, src) ==
  LET Negated(type, eval_type) ==
        Then(Parse(Tail(t), src, kUnaryPriority), LAMBDA expr, u :
          Parsed(UnaryNode(type, expr, eval_type), u))
  IN CASE t = <<>>          -> Refused
       [] IsOp(t, <<"!">>)  -> Negated("not", "Bool")
       [] IsOp(t, <<"-">>)  -> Negated("minus", "Number")
       [] Type(t) = "{"     -> ParseContent(<<>>, {}, Tail(t), src, TRUE)
       [] Type(t) = "["     -> ParseList(Tail(t), src)
       [] Type(t) = "("     ->
            Then(Parse(Tail(t), src, kMaxPriority), LAMBDA body, u :
              PopCheck(u, ")", LAMBDA v : Parsed(body, v)))
       [] OTHER             -> Parsed(Terminal(t), Tail(t))

-----------------------------------------------------------------------------
(* What begins with a keyword reaches as far as possible, whatever is to   *)
(* the left of it.                                                         *)

ParseLocal(t, src) ==
  LET Bound(u, MakeValue(_)) ==
        PopOp(u, <<"=">>, LAMBDA v : Then(Parse(v, src, kMaxPriority),
          LAMBDA body, w : PopCheck(w, ";", LAMBDA x :
            Then(Parse(x, src, kMaxPriority), LAMBDA next, y :
              Parsed(LetNode(Text(t), MakeValue(body), next), y)))))
  IN PopCheck(t, "IDENTIFIER", LAMBDA u :
       IF Type(u) # "(" THEN Bound(u, LAMBDA body : body)
       ELSE Then(ParseFuncArgs(Tail(u), src), LAMBDA params, v :
              Bound(Tail(v), LAMBDA body : Function(params, body))))
ParseImport(t, src) ==
  IF Type(t) # "STRING" \/ Text(t) \notin DOMAIN src.files THEN Refused
  ELSE Located(ForeignNode(ParseData(Text(t), src.files, src.import_chain)), Tail(t))
ParseFunction(t, src) ==
  PopCheck(t, "(", LAMBDA u : Then(ParseFuncArgs(u, src), LAMBDA params, v :
    Then(Parse(Tail(v), src, kMaxPriority), LAMBDA body, w :
      Parsed(Function(params, body), w))))
ParseIf(t, src) ==
  Then(Parse(t, src, kMaxPriority), LAMBDA cond, u : PopCheck(u, "then", LAMBDA v :
    Then(Parse(v, src, kMaxPriority), LAMBDA branch_true, w :
      IF Type(w) # "else" THEN Located(IfNode(cond, branch_true, Absent), w)
      ELSE Then(Parse(Tail(w), src, kMaxPriority), LAMBDA branch_false, x :
             Parsed(IfNode(cond, branch_true, branch_false), x)))))

Parse(t, src, max) ==
  CASE Type(t) = "local"    -> ParseLocal(Tail(t), src)
    [] Type(t) = "import"   -> ParseImport(Tail(t), src)
    [] Type(t) = "function" -> ParseFunction(Tail(t), src)
    [] Type(t) = "if"       -> ParseIf(Tail(t), src)
    [] OTHER -> Then(ParseSimple(t, src), LAMBDA lhs, u : ParseInfix(lhs, u, src, max))

\* What comes behind the first expression of a file is ignored.
ParseData(name, files, import_chain) ==
  LET tokens == Tokenize(files[name])
      src == [files |-> files, import_chain |-> import_chain \cup {name}]
  IN IF tokens = Lost \/ name \in import_chain THEN Bad
     ELSE Parse(tokens, src, kMaxPriority).node
=============================================================================
