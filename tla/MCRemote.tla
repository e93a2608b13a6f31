------------------------------ MODULE MCRemote ------------------------------
(* Instances of RemoteExecution for TLC: the tree "root" has the trees     *)
(* "left" and "right", of which "right" has "left", too; "tall" has "huge",*)
(* which is too large for a message.                                       *)
EXTENDS RemoteExecution

CONSTANTS t1, t2, t3

MCObjects == {"file", "left", "right", "root", "empty", "command", "action", "out", "big", "tall", "huge"}
MCTrees   == {"left", "right", "root", "empty", "tall", "huge"}
MCEntries == [o \in MCObjects |-> CASE o = "left" -> {"file"} [] o = "right" -> {"left", "file"}
                                    [] o = "root" -> {"left", "right"} [] o = "tall" -> {"huge"} [] OTHER -> {}]
MCSize    == [o \in MCObjects |-> CASE o = "action" -> 1 [] o \in {"command", "left"} -> 3 [] o \in {"big", "huge"} -> 5 [] o = "root" -> 4
                                    [] OTHER -> 2]

MCActions == {"a", "b", "c", "d", "e"}
Of(x) == [a \in MCActions |-> x]

Cast(roles, actions, present, executed, lost, collected) ==
  [role   |-> [t \in {t1, t2, t3} |-> CASE t = t1 -> roles[1] [] t = t2 -> roles[2] [] t = t3 -> roles[3]],
   action |-> [t \in {t1, t2, t3} |-> CASE t = t1 -> actions[1] [] t = t2 -> actions[2] [] t = t3 -> actions[3]],
   present |-> present, executed |-> executed, lost |-> lost, collections |-> collected]

MCLeaves    == [a \in MCActions |-> CASE a = "a" -> {"file"} [] a = "c" -> {"big"} [] OTHER -> {}]
MCInputRoot == [a \in MCActions |-> CASE a = "a" -> "root" [] a = "c" -> "tall" [] OTHER -> "empty"]
MCMessages  == [a \in MCActions |-> IF a = "a" THEN {"command", "action"} ELSE {"action"}]
MCOutput    == Of("out")

MCCasts == << Cast(<<"build", "none", "none">>, <<"a", "a", "a">>, {}, {}, 3, 2),
              Cast(<<"build", "build", "none">>, <<"a", "a", "a">>, {"file", "left", "action", "command"}, {}, 0, 1),
              Cast(<<"build", "build", "wait">>, <<"b", "b", "b">>, {"action", "empty"}, {}, 1, 0),
              Cast(<<"build", "build", "none">>, <<"b", "c", "b">>, {"action", "empty"}, {"a", "d", "e"}, 1, 0),
              Cast(<<"sync", "sync", "none">>, <<"a", "a", "a">>, MCObjects, {}, 1, 1),
              Cast(<<"build", "wait", "none">>, <<"b", "c", "b">>, {"action", "empty"}, {"c", "d", "e"}, 0, 1) >>
=============================================================================
