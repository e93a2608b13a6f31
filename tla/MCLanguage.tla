----------------------------- MODULE MCLanguage -----------------------------
EXTENDS Language

MCAlphabet == <<"\n", "'", ".", "/", "0", "000000000", "1", "2", "a", "accu", "b",
                "f", "jst", "l", "m", "s", "x">>
Env(x) == Call("env", <<S(x)>>)
MCLeaves ==
  {NullNode, Number(2), S("a"), StringNode(<<>>), ListNode(<<S("a"), S("b")>>),
   MapNode(<<<<S("b"), S("a")>>, <<S("a"), S("b")>>>>),
   ReadNode(<<"x">>), ReadNode(<<"s">>),
   VarNode(<<"s">>, Absent), Env("l"), Env("m")}
MCConstants == {S("b"), Env("s"), ListNode(<<S("b")>>)}
MCLoops == {ListNode(<<S("a"), S("b")>>), Env("l")}
MCConfigurations ==
  {(<<"s">> :> Str(<<"a">>)) @@ (<<"l">> :> List(<<Str(<<"b">>), Str(<<"a">>)>>))
     @@ (<<"m">> :> Map(<<"a">> :> Str(<<"b">>))),
   (<<"s">> :> Str(<<"b">>)) @@ (<<"l">> :> List(<<>>))}
MCBinders == <<{<<"x">>}, {<<"x">>, <<"s">>}>>
=============================================================================
