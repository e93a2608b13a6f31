----------------------------- MODULE Expression -----------------------------
(***************************************************************************)
(* The expression language of target files and rules: its values, and      *)
(* Evaluator::Evaluate with the built-in functions                         *)
(* (src/buildtool/build_engine/expression).                                *)
(*                                                                         *)
(* A value is a tagged tuple.  A string is a sequence of tokens, the parts *)
(* that joining, path functions and comparisons tell apart; a map is a     *)
(* function on such strings, and an expression to be evaluated is a map    *)
(* with the key "type".  Everything that throws in the code yields Error:  *)
(* messages, tracebacks and user contexts are left out, so the order in    *)
(* which independent arguments are evaluated is immaterial.  Numbers are   *)
(* integers, paths relative.                                               *)
(***************************************************************************)
EXTENDS Integers, SequencesExt, TLC

CONSTANTS
  Alphabet,    \* sequence of tokens: the order of keys in a map
  MaxNumeral   \* bound: numerals are read up to this absolute value

-----------------------------------------------------------------------------
(* Values *)

Error   == <<"error">>
None    == <<"none">>
Bool(b) == <<"bool", b>>
Num(n)  == <<"num", n>>
Str(s)  == <<"str", s>>
List(l) == <<"list", l>>
Map(m)  == <<"map", m>>
Name(n) == <<"name", n>>    \* a target name; stands for names and nodes

EmptyMap == [k \in {} |-> None]
Failed(v) == v = Error
Is(tag, v) == v[1] = tag
\* The expression type(fields); fields is a function on plain strings.
Syntax(type, fields) ==
  Map([k \in {<<x>> : x \in DOMAIN fields} |-> fields[k[1]]]
        @@ (<<"type">> :> Str(<<type>>)))

RECURSIVE IsCacheable(_)
IsCacheable(v) ==
  CASE Is("name", v) -> FALSE
    [] Is("list", v) -> \A i \in DOMAIN v[2] : IsCacheable(v[2][i])
    [] Is("map", v)  -> \A k \in DOMAIN v[2] : IsCacheable(v[2][k])
    [] OTHER         -> TRUE

ValueIsTrue(v) ==
  CASE Is("none", v) -> FALSE
    [] Is("bool", v) -> v[2]
    [] Is("num", v)  -> v[2] # 0
    [] Is("str", v)  -> v[2] # <<>>
    [] Is("list", v) -> v[2] # <<>>
    [] Is("map", v)  -> DOMAIN v[2] # {}
    [] OTHER         -> TRUE

Strings(v) == Is("list", v) /\ \A i \in DOMAIN v[2] : Is("str", v[2][i])

Rank(token) == CHOOSE i \in DOMAIN Alphabet : Alphabet[i] = token
\* Strings are compared token by token; a proper prefix is smaller.
Before(s, t) ==
  \/ s # t /\ IsPrefix(s, t)
  \/ \E i \in DOMAIN s \cap DOMAIN t :
       /\ SubSeq(s, 1, i - 1) = SubSeq(t, 1, i - 1)
       /\ s[i] # t[i] /\ Rank(s[i]) < Rank(t[i])
SortedKeys(m) == SetToSortSeq(DOMAIN m, Before)

Numeral(n) == <<ToString(n)>>
\* std::atol: what is no numeral counts as 0.
Atol(s) == IF \E n \in -MaxNumeral..MaxNumeral : s = Numeral(n)
           THEN CHOOSE n \in -MaxNumeral..MaxNumeral : s = Numeral(n)
           ELSE 0
Index(v) == CASE Is("num", v) -> v[2]
              [] Is("str", v) -> Atol(v[2])
              [] OTHER        -> 0

\* ToJson(NullForNonJson).dump()
RECURSIVE Dump(_)
Dump(v) ==
  LET Items(l) == FlattenSeq([i \in DOMAIN l |->
                    (IF i = 1 THEN <<>> ELSE <<",">>) \o l[i]])
  IN CASE Is("bool", v) -> IF v[2] THEN <<"true">> ELSE <<"false">>
       [] Is("num", v)  -> Numeral(v[2])
       [] Is("str", v)  -> <<"\"">> \o v[2] \o <<"\"">>
       [] Is("list", v) ->
            <<"[">> \o Items([i \in DOMAIN v[2] |-> Dump(v[2][i])]) \o <<"]">>
       [] Is("map", v)  ->
            LET keys == SortedKeys(v[2])
            IN <<"{">> \o Items([i \in DOMAIN keys |->
                  Dump(Str(keys[i])) \o <<":">> \o Dump(v[2][keys[i]])])
               \o <<"}">>
       [] OTHER         -> <<"null">>

-----------------------------------------------------------------------------
(* Paths: std::filesystem::path on relative paths, ToNormalPath *)

Joined(parts, sep) == FlattenSeq([i \in DOMAIN parts |->
                        (IF i = 1 THEN <<>> ELSE sep) \o parts[i]])
Components(s) ==
  LET bounds == SetToSortSeq({i \in DOMAIN s : s[i] = "/"}
                               \cup {0, Len(s) + 1}, <)
      parts == [i \in 1..(Len(bounds) - 1) |->
                  SubSeq(s, bounds[i] + 1, bounds[i + 1] - 1)]
  IN SelectSeq(parts, LAMBDA p : p # <<>>)
Up == <<".", ".">>
Normalized(parts) ==
  FoldLeft(LAMBDA done, p :
             CASE p = <<".">> -> done
               [] p = Up /\ done # <<>> /\ Last(done) # Up -> Front(done)
               [] OTHER -> Append(done, p),
           <<>>, parts)
PathOf(parts) == IF parts = <<>> THEN <<".">> ELSE Joined(parts, <<"/">>)
ToNormalPath(s) == PathOf(Normalized(Components(s)))
FileName(s) == IF s = <<>> \/ Last(s) = "/" THEN <<>> ELSE Last(Components(s))
StemOf(name) ==
  LET dots == {i \in 2..Len(name) : name[i] = "."}
  IN IF name = Up \/ dots = {} THEN name
     ELSE SubSeq(name, 1, Max(dots) - 1)
Stem(s) == StemOf(FileName(s))
\* path.parent_path() / path.stem()
WithoutEnding(s) ==
  LET dir == SubSeq(s, 1, Len(s) - Len(FileName(s)))
  IN (IF dir = <<>> THEN <<>> ELSE Joined(Components(dir), <<"/">>) \o <<"/">>)
       \o Stem(s)
\* path(s).lexically_relative(dir), normalized; <<".", ".", ...>> if outside.
Relative(a, b) ==
  LET same == Max({n \in 0..Len(a) : n <= Len(b)
                     /\ SubSeq(a, 1, n) = SubSeq(b, 1, n)})
      rest == SubSeq(b, same + 1, Len(b))
      up == Len(SelectSeq(rest, LAMBDA p : p \notin {<<".">>, Up}))
              - Len(SelectSeq(rest, LAMBDA p : p = Up))
  IN IF up < 0 THEN <<>>
     ELSE Normalized([i \in 1..up |-> Up] \o SubSeq(a, same + 1, Len(a)))
RelativeTo(s, dir) == Relative(Components(s), Components(dir))
NonUpwards(parts) == parts = <<>> \/ Head(parts) # Up

-----------------------------------------------------------------------------
(* Functions of evaluated arguments *)

Flatten(v) ==
  IF Is("list", v) /\ \A i \in DOMAIN v[2] : Is("list", v[2][i])
  THEN List(FlattenSeq([i \in DOMAIN v[2] |-> v[2][i][2]]))
  ELSE Error
Numbers(v) == Is("list", v) /\ \A i \in DOMAIN v[2] : Is("num", v[2][i])
Addition(v) ==
  IF Numbers(v) THEN Num(FoldLeft(LAMBDA n, x : n + x[2], 0, v[2])) ELSE Error
Multiplication(v) ==
  IF Numbers(v) THEN Num(FoldLeft(LAMBDA n, x : n * x[2], 1, v[2])) ELSE Error
All(v) == IF Is("list", v)
          THEN Bool(\A i \in DOMAIN v[2] : ValueIsTrue(v[2][i])) ELSE Error
Some(v) == IF Is("list", v)
          THEN Bool(\E i \in DOMAIN v[2] : ValueIsTrue(v[2][i])) ELSE Error
Not(v) == Bool(~ValueIsTrue(v))

Keys(v) ==
  IF ~Is("map", v) THEN Error
  ELSE List([i \in DOMAIN SortedKeys(v[2]) |-> Str(SortedKeys(v[2])[i])])
Values(v) ==
  IF ~Is("map", v) THEN Error
  ELSE List([i \in DOMAIN SortedKeys(v[2]) |-> v[2][SortedKeys(v[2])[i]]])
\* The keys are the positions, padded to ten digits.
Enumerate(v) ==
  IF ~Is("list", v) THEN Error
  ELSE LET Key(i) == <<"000000000", ToString(i - 1)>>
       IN Map([k \in {Key(i) : i \in DOMAIN v[2]} |->
                 v[2][CHOOSE i \in DOMAIN v[2] : Key(i) = k]])
Set(v) ==
  IF ~Strings(v) THEN Error
  ELSE Map([k \in {v[2][i][2] : i \in DOMAIN v[2]} |-> Bool(TRUE)])
Reversed(v) == IF Is("list", v) THEN List(Reverse(v[2])) ELSE Error
Length(v) == IF Is("list", v) THEN Num(Len(v[2])) ELSE Error

\* Every value once, at its first or at its last occurrence.
Firsts(l) == FoldLeft(LAMBDA done, x :
               IF Contains(done, x) THEN done ELSE Append(done, x), <<>>, l)
NubLeft(v) ==
  IF Is("list", v) /\ IsCacheable(v) THEN List(Firsts(v[2])) ELSE Error
NubRight(v) ==
  IF Is("list", v) /\ IsCacheable(v)
  THEN List(Reverse(Firsts(Reverse(v[2])))) ELSE Error

\* Range of a negative number is empty; a negative numeral would ask for
\* 2^64 minus its value many entries, which no run survives.
UpTo(v) ==
  IF Is("str", v) /\ Atol(v[2]) < 0 THEN Error
  ELSE List([i \in 1..Max({0, Index(v)}) |-> Str(Numeral(i - 1))])
ChangeEndingTo(name, ending) ==
  IF Is("str", name) /\ Is("str", ending)
  THEN Str(WithoutEnding(name[2]) \o ending[2]) ELSE Error
BaseName(v) == IF Is("str", v) THEN Str(FileName(v[2])) ELSE Error

ShellQuote(s) ==
  <<"'">> \o FlattenSeq([i \in DOMAIN s |->
               IF s[i] = "'" THEN <<"'", "\\", "'", "'">> ELSE <<s[i]>>])
    \o <<"'">>
Join(v, sep) ==
  IF Strings(v) THEN Str(Joined([i \in DOMAIN v[2] |-> v[2][i][2]], sep))
  ELSE Error
Escape(s, chars, prefix) ==
  FlattenSeq([i \in DOMAIN s |->
    IF Contains(chars, s[i]) THEN prefix \o <<s[i]>> ELSE <<s[i]>>])

\* Later maps win.  That the code unites halves in turn makes no difference.
Union(v) ==
  IF Is("list", v) /\ \A i \in DOMAIN v[2] : Is("map", v[2][i])
  THEN Map(FoldLeft(LAMBDA m, x : x[2] @@ m, EmptyMap, v[2]))
  ELSE Error
DisjointUnion(v) ==
  IF /\ IsCacheable(v)
     /\ ~Failed(Union(v))
     /\ \A i, j \in DOMAIN v[2] :
          \A k \in DOMAIN v[2][i][2] \cap DOMAIN v[2][j][2] :
            v[2][i][2][k] = v[2][j][2][k]
  THEN Union(v) ELSE Error
\* The end is put to the last entry of a list.
ConcatTargetName(v, end) ==
  CASE Failed(end)  -> Error
    [] Is("str", v) -> Str(v[2] \o end[2])
    [] Strings(v)   -> List([i \in DOMAIN v[2] |->
                         IF i = Len(v[2]) THEN Str(v[2][i][2] \o end[2])
                         ELSE v[2][i]])
    [] OTHER        -> Error

\* Entries may meet at a path only if they are the same and comparable.
Stage(m, Path(_)) ==
  IF \E j, k \in DOMAIN m : /\ j # k /\ Path(j) = Path(k)
                            /\ ~(m[j] = m[k] /\ IsCacheable(m[k]))
  THEN Error
  ELSE Map([p \in {Path(k) : k \in DOMAIN m} |->
              m[CHOOSE k \in DOMAIN m : Path(k) = p]])
ToSubdir(d, s, flat) ==
  IF ~Is("map", d) \/ ~Is("str", s) THEN Error
  ELSE Stage(d[2], LAMBDA k : ToNormalPath(
         s[2] \o <<"/">> \o (IF flat THEN FileName(k) ELSE k)))
FromSubdir(d, s) ==
  IF ~Is("map", d) \/ ~Is("str", s) THEN Error
  ELSE LET kept == {k \in DOMAIN d[2] : NonUpwards(RelativeTo(k, s[2]))}
       IN Stage([k \in kept |-> d[2][k]], LAMBDA k : PathOf(RelativeTo(k, s[2])))
=============================================================================
