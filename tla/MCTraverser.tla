---------------------------- MODULE MCTraverser -----------------------------
(* Instances of Traverser for TLC.                                         *)
EXTENDS Traverser

Desc(id, ins, outs) == [id |-> id, ins |-> ins, outs |-> outs, runnable |-> TRUE]

(* b has two outputs, one needed by a, one needed twice by c *)
TwoOutputs == Add(<<Desc("b", <<"src">>, <<"x", "y">>), Desc("a", <<"x", "src">>, <<"out">>),
                      Desc("c", <<"y", "y">>, <<"other">>)>>)
(* an action without inputs, and two consumers of its output *)
NoInputs   == Add(<<Desc("b", <<>>, <<"x">>), Desc("a", <<"x">>, <<"out">>),
                      Desc("c", <<"x", "out">>, <<"other">>)>>)

Problem(g, t, f) == [graph |-> g, targets |-> t, bad |-> f]
MCProblems ==
  << Problem(TwoOutputs, {"out", "other"}, {}), Problem(TwoOutputs, {"out"}, {"c"}),
     Problem(TwoOutputs, {"out", "other"}, {"c"}), Problem(TwoOutputs, {"x", "missing"}, {}),
     Problem(NoInputs, {"out", "other"}, {}), Problem(NoInputs, {"other", "x"}, {"b"}) >>
=============================================================================
