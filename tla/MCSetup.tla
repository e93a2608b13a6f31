------------------------------ MODULE MCSetup ------------------------------
(* Instances of RootMaps for TLC: a commit, two archives and a directory   *)
(* with the same tree, which has symlinks to resolve, a distdir with one   *)
(* of the archives and a file, a foreign file with that file, and a git    *)
(* tree that is also the tree of the commit.                               *)
EXTENDS RootMaps

CONSTANTS t1, t2

MCTreeOf   == [x \in {"commit", "archive", "zip", "path", "dir", "page"} |->
                 CASE x = "commit" -> "tree" [] x \in {"archive", "zip", "path"} -> "unpacked"
                   [] x = "page" -> "single" [] OTHER -> "listing"]
MCResolved == [x \in {"unpacked"} |-> "resolved"]
MCBelow    == [o \in {"commit", "archive", "zip", "file", "tree", "unpacked", "resolved", "listing", "single"} |->
                 CASE o = "commit" -> {"tree"} [] o = "listing" -> {"archive", "file"} [] o = "single" -> {"file"}
                   [] OTHER -> {}]

Root(kind, key, special, absent) == [kind |-> kind, key |-> key, special |-> special, absent |-> absent]
Commit(absent)  == Root("git", "commit", FALSE, absent)
Archive(special, absent) == Root("archive", "archive", special, absent)
Zip(special, absent) == Root("archive", "zip", special, absent)
Files2(absent)  == Root("distdir", "dir", FALSE, absent)
Page(absent)    == Root("foreign file", "page", FALSE, absent)
Path(special, absent) == Root("file", "path", special, absent)
Tree(absent)    == Root("git tree", "tree", FALSE, absent)

Gens(young, old) == [g \in 0 .. 1 |-> IF g = 0 THEN young ELSE old]
Of(names, client, serve) == [h \in names |-> CASE h = "client" -> client [] h = "serve" -> serve [] OTHER -> Gens({}, {})]
No == Gens({}, {})
Nothing == [git |-> Of(Repositories, No, No), ids |-> Of(Hosts, No, No), cas |-> Of(Hosts, {}, {}), remote |-> {}]

Cast(first, second, serve, upstream, trouble_, collections_, runs_, stores) ==
  [cast |-> [root |-> [t \in {t1, t2} |-> IF t = t1 THEN first ELSE second], serve |-> serve, fetch |-> "no",
             checkout |-> FALSE, upstream |-> upstream, runs |-> runs_, known |-> {}],
   distdir |-> {}, trouble |-> trouble_, collections |-> collections_,
   git |-> stores.git, ids |-> stores.ids, cas |-> stores.cas, remote |-> stores.remote]
With(checkout, c) == [c EXCEPT !.cast.checkout = TRUE, !.git["checkout"] = Gens(checkout, {})]
Fetch(how, c) == [c EXCEPT !.cast.fetch = how]

Unpacked == <<"tree-map", "archive", "unpacked">>
OfCommit == <<"tree-map", "commit", "tree">>
OldClient == [Nothing EXCEPT !.git["client"] = Gens({}, {"commit", "tree", "unpacked"}),
                             !.ids["client"] = Gens({}, {Unpacked})]
YoungClient == [Nothing EXCEPT !.git["client"] = Gens({"tree", "unpacked"}, {"listing", "archive", "file"}),
                               !.ids["client"] = Gens({Unpacked, OfCommit}, {})]
KnowsDistdir == [Nothing EXCEPT !.git["client"] = Gens({"listing", "archive", "file"}, {}),
                                !.ids["client"] = Gens({<<"tree-map", "dir", "listing">>}, {})]

MCCasts == {
  [Cast(Commit(FALSE), Commit(TRUE), TRUE, {"commit"}, 1, 2, 3, Nothing) EXCEPT !.cast.known = {"commit", "tree"}],
  Cast(Archive(FALSE, FALSE), Archive(TRUE, TRUE), TRUE, {"archive"}, 1, 2, 2, Nothing),
  Cast(Tree(FALSE), Tree(TRUE), TRUE, {"tree"}, 1, 2, 3, [Nothing EXCEPT !.cas["serve"] = {"tree"}]),
  Cast(Commit(TRUE), Archive(TRUE, TRUE), TRUE, {}, 1, 1, 2, [YoungClient EXCEPT !.cas["serve"] = {"archive"}]),
  Cast(Commit(FALSE), Archive(FALSE, TRUE), TRUE, {}, 1, 2, 2, [OldClient EXCEPT !.remote = {"archive"}]),
  Cast(Files2(FALSE), Archive(TRUE, FALSE), TRUE, {"file"}, 1, 1, 2,
       [Nothing EXCEPT !.cas["serve"] = {"archive"}, !.remote = {"file"}]),
  Cast(Files2(TRUE), Tree(FALSE), TRUE, {}, 1, 2, 2,
       [OldClient EXCEPT !.git["serve"] = Gens({"file"}, {}), !.remote = {"archive"}]),
  [Cast(Files2(FALSE), Commit(FALSE), FALSE, {"file", "commit"}, 1, 1, 2, Nothing)
     EXCEPT !.distdir = {"archive"}],
  Cast(Archive(TRUE, TRUE), Tree(TRUE), FALSE, {}, 1, 1, 2, YoungClient),
  Cast(Archive(TRUE, TRUE), Zip(TRUE, TRUE), TRUE, {}, 1, 1, 2,
       [Nothing EXCEPT !.remote = {"zip"}, !.git["serve"] = Gens({"archive", "file", "listing"}, {})]),
  With({"unpacked"}, Cast(Page(FALSE), Path(TRUE, FALSE), TRUE, {"file"}, 1, 1, 2, Nothing)),
  Cast(Page(TRUE), Path(FALSE, TRUE), TRUE, {}, 1, 1, 2, [Nothing EXCEPT !.cas["serve"] = {"file"}]),
  Fetch("backup", Cast(Archive(FALSE, FALSE), Tree(FALSE), TRUE, {"archive", "tree"}, 1, 1, 2, Nothing)),
  Fetch("plain", Cast(Page(FALSE), Tree(FALSE), FALSE, {"file"}, 1, 1, 2, OldClient)),
  With({"tree", "unpacked"}, Cast(Commit(FALSE), Path(FALSE, FALSE), TRUE, {"commit"}, 1, 1, 2,
       [Nothing EXCEPT !.git["serve"] = Gens({"commit", "tree"}, {})])),
  With({"commit", "tree"}, Cast(Commit(TRUE), Files2(TRUE), TRUE, {}, 1, 1, 2, Nothing)),
  Cast(Files2(TRUE), Root("git tree", "listing", FALSE, TRUE), TRUE, {}, 1, 1, 2,
       [Nothing EXCEPT !.cas["client"] = {"listing", "archive", "file"}]),
  Cast(Files2(TRUE), Page(TRUE), TRUE, {}, 1, 1, 2, KnowsDistdir),
  Cast(Page(FALSE), Archive(TRUE, TRUE), TRUE, {"file"}, 1, 1, 2,
       [Nothing EXCEPT !.git["serve"] = Gens({"archive", "file"}, {})])
}
=============================================================================
