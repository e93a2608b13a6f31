---------------------------- MODULE CommitGitMap ----------------------------
(***************************************************************************)
(* The roots that are commits of Git repositories (commit_git_map): the    *)
(* commit is in the repository or an older generation of the Git cache, or *)
(* its tree is known, or the serve endpoint is asked, which puts the tree  *)
(* of a present root into the remote CAS; last, it is fetched.             *)
(***************************************************************************)
EXTENDS RootTasks

HaveCommit(t) == InGit(Repo(t), Key(t))
KnowTree(t)   == IdFile("client", 0, "tree-map", Key(t))
Unknown(t)    == Starts(t, "git") /\ ~HaveCommit(t) /\ ~KnowTree(t)

CommitPresent(t) ==
  /\ Starts(t, "git") /\ HaveCommit(t)
  /\ Settle(t, TreeOf[Key(t)], Repo(t)) /\ StoresSame

CommitTreeKnown(t) ==
  /\ Starts(t, "git") /\ ~HaveCommit(t) /\ KnowTree(t)
  /\ Settle(t, IdOf("client", 0, "tree-map", Key(t)), "client") /\ StoresSame

(* What was found in an older generation is tagged there, fetched into the *)
(* repository and tagged again; even an absent root is present then.       *)
CommitInOlderGeneration(t) ==
  /\ Unknown(t) /\ OldWith(Key(t)) # {}
  /\ Move(t, "take", Key(t)) /\ StoresSame

TakeCommitFromOlderGeneration(t) ==
  /\ AtFor(t, "take", "git")
  /\ ToGit(Repo(t), Key(t)) /\ Move(t, "tag", TreeOf[Key(t)]) /\ OnlyGit

TagCommitAndSetRoot(t) ==
  /\ AtFor(t, "tag", "git") /\ SetPresent(t, object[t], Repo(t)) /\ StoresSame

-----------------------------------------------------------------------------
NeedCommit(t) == Unknown(t) /\ OldWith(Key(t)) = {}

AskForCommit(t) ==
  /\ NeedCommit(t) /\ WithServe
  /\ Ask(t, "commit", Key(t), "none", "served") /\ StoresSame

(* An absent root is not fetched.                                          *)
FetchUnlessAbsent(t) == IF Absent(t) THEN Fails(t) ELSE Move(t, "fetch", Key(t))

CommitWithoutServe(t) ==
  /\ NeedCommit(t) /\ ~WithServe
  /\ FetchUnlessAbsent(t) /\ StoresSame

CommitNotServed(t) ==
  /\ Answer(t, "served") /\ Kind(t) = "git" /\ ~Says(t, "OK")
  /\ IF Says(t, "ERROR") THEN Fails(t) ELSE FetchUnlessAbsent(t)
  /\ StoresSame

AbsentCommitServed(t) ==
  /\ Answer(t, "served") /\ Kind(t) = "git" /\ Says(t, "OK") /\ Absent(t)
  /\ SetAbsent(t, handler[t].tree) /\ StoresSame

(* The tree is in the Git cache, in the checkout, or in the remote CAS.    *)
PresentCommitServed(t) ==
  /\ Answer(t, "served") /\ Kind(t) = "git" /\ Says(t, "OK") /\ ~Absent(t)
  /\ LET tree == handler[t].tree IN
     IF InGit("client", tree) THEN Move(t, "write_id", tree)
     ELSE IF InGit(Repo(t), tree) THEN SetPresent(t, tree, Repo(t))
     ELSE Move(t, "retrieve", tree)
  /\ StoresSame

RetrieveCommitTree(t) ==
  /\ AtFor(t, "retrieve", "git")
  /\ LET tree == object[t] IN
     \/ tree \in remote /\ ToCas("client", tree) /\ Move(t, "import", tree) /\ NoTrouble
     \/ (IF tree \in remote THEN Trouble ELSE NoTrouble) /\ FetchUnlessAbsent(t) /\ UNCHANGED cas
  /\ OnlyCas

(* WriteIdFileAndSetWSRoot                                                 *)
WriteCommitId(t) ==
  /\ AtFor(t, "write_id", "git")
  /\ WriteTreeIDFile("client", "tree-map", Key(t), object[t])
  /\ SetPresent(t, object[t], "client") /\ OnlyIds

(* From the repository or one of its mirrors; a commit is tagged in the    *)
(* Git cache only.                                                         *)
FetchCommit(t) ==
  /\ AtFor(t, "fetch", "git")
  /\ LET tree == TreeOf[Key(t)] IN
     \/ /\ Key(t) \in Upstream /\ NoTrouble /\ ToGit(Repo(t), Key(t))
        /\ IF Repo(t) = "client" THEN Move(t, "tag", tree) ELSE SetPresent(t, tree, Repo(t))
     \/ (IF Key(t) \in Upstream THEN Trouble ELSE NoTrouble) /\ Fails(t) /\ UNCHANGED git
  /\ UNCHANGED <<ids, cas, remote, distdir, collections>>

-----------------------------------------------------------------------------
(* EnsureRootAsAbsent: if the serve endpoint does not have the tree, it may*)
(* still have the commit; otherwise the tree is sent.                      *)
CommitRootChecked(t) ==
  /\ Answer(t, "checked") /\ Kind(t) = "git"
  /\ CASE Says(t, "OK") -> SetAbsent(t, object[t])
       [] Says(t, "ERROR") -> Fails(t)
       [] OTHER -> Ask(t, "commit", Key(t), object[t], "asked")
  /\ StoresSame

(* Mutant of CommitAsked: what the serve endpoint cannot make is not sent. *)
AskedOrFailed(t) ==
  /\ Answer(t, "asked") /\ Kind(t) = "git"
  /\ IF Says(t, "OK") /\ handler[t].tree = object[t] THEN SetAbsent(t, object[t]) ELSE Fails(t)
  /\ StoresSame

CommitAsked(t) ==
  /\ Answer(t, "asked") /\ Kind(t) = "git"
  /\ CASE Says(t, "OK") /\ handler[t].tree = object[t] -> SetAbsent(t, object[t])
       [] Says(t, "NOT_FOUND") -> Move(t, "upload", object[t])
       [] OTHER -> Fails(t)
  /\ StoresSame

CommitStep(t) ==
  \/ CommitPresent(t) \/ CommitTreeKnown(t) \/ CommitInOlderGeneration(t)
  \/ TakeCommitFromOlderGeneration(t) \/ TagCommitAndSetRoot(t) \/ AskForCommit(t)
  \/ CommitWithoutServe(t) \/ CommitNotServed(t) \/ AbsentCommitServed(t) \/ PresentCommitServed(t)
  \/ RetrieveCommitTree(t) \/ WriteCommitId(t) \/ FetchCommit(t)
  \/ CommitRootChecked(t) \/ CommitAsked(t)
=============================================================================
