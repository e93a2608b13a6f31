----------------------------- MODULE MCAsyncMap -----------------------------
(* Instances of AsyncMap for TLC: three keys, two concurrent requests.     *)
EXTENDS AsyncMapCycle

CONSTANTS a, b, c, r, s

Deps(da, db, dc, dr, ds) ==
  [x \in {a, b, c, r, s} |-> CASE x = a -> da [] x = b -> db [] x = c -> dc
                               [] x = r -> dr [] x = s -> ds]

(* a shared dependency, and a key asked for twice *)
Diamond == Deps(<<b, c>>, <<c>>, <<>>, <<a>>, <<b>>)
Twice   == Deps(<<b, b>>, <<>>, <<>>, <<a, c>>, <<b>>)
(* a cycle beside a leaf, a self-dependency, and a longer cycle *)
CycleAndLeaf == Deps(<<b, c>>, <<a>>, <<>>, <<a>>, <<c>>)
SelfCycle    == Deps(<<c, a>>, <<>>, <<>>, <<a>>, <<b>>)
Triangle     == Deps(<<b>>, <<c>>, <<a>>, <<b>>, <<>>)

Problem(g, f) == [deps |-> g, failing |-> f]
MCProblems ==
  {Problem(Diamond, {}), Problem(Twice, {b}),
   Problem(CycleAndLeaf, {c}), Problem(SelfCycle, {}), Problem(Triangle, {})}
=============================================================================
