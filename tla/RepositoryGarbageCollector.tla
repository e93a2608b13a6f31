--------------------- MODULE RepositoryGarbageCollector ---------------------
(***************************************************************************)
(* RepositoryGarbageCollector::TriggerGarbageCollection of                 *)
(* src/buildtool/storage/repository_garbage_collector.cpp: generations of  *)
(* repositories under their own lock.  Unlike the collector of the build   *)
(* root it has one "remove-me" directory, named after the process, and     *)
(* does not look for those of others.                                      *)
(***************************************************************************)
EXTENDS GarbageCollector

CONSTANT RepoLock    \* RepositoryRoot() / "gc.lock"

ASSUME RepoAssumption == RepoLock \in Files

VARIABLES
  repo,      \* repo[i]: what is in RepositoryGenerationRoot(i)
  repo_junk, \* repo_junk[t]: what is in remove-me<t>
  repo_born, \* generations of repositories begun so far
  drop_only  \* what each collector was asked for

repoVars == <<repo, repo_junk, repo_born, drop_only>>
gcState  == <<dirVars, gcVars>>

RepoTypeOK ==
  /\ repo \in [Gens -> SUBSET Ids] /\ repo_junk \in [Threads -> SUBSET Ids]
  /\ repo_born \in 0 .. MaxGenerations /\ drop_only \in [Threads -> BOOLEAN]

RepoInit ==
  /\ repo = [i \in Gens |-> {}] /\ repo_junk = [t \in Threads |-> {}]
  /\ repo_born = 0 /\ drop_only = [t \in Threads |-> FALSE]

-----------------------------------------------------------------------------
(* LockFile::Acquire on the lock of the repositories at pc label l *)
RepoEnter(t, l) ==
  pc[t] = l /\ EnterAcquire(t) /\ UNCHANGED <<pc, gcState, repoVars, trouble>>

RepoAcquireFails(t, l) ==
  /\ pc[t] = l /\ AcquireFails(t) /\ Goto(t, "idle") /\ Trouble
  /\ UNCHANGED <<gcState, repoVars>>

RepoBegin(t) ==
  /\ pc[t] = "idle" /\ Goto(t, "repo_clean_lock")
  /\ \E d \in BOOLEAN : drop_only' = [drop_only EXCEPT ![t] = d]
  /\ UNCHANGED <<lockVars, gcState, trouble, repo, repo_junk, repo_born>>

RepoAcquired(t, l, mode, m) ==
  /\ pc[t] = l /\ Acquired(t, RepoLock, mode) /\ Goto(t, m)
  /\ UNCHANGED <<gcState, repoVars, trouble>>

(* RemoveDirectory of the own directory, with a shared lock *)
RepoRemove(t, l, m) ==
  /\ pc[t] = l /\ Goto(t, m) /\ Release(t)
  /\ repo_junk' = [repo_junk EXCEPT ![t] = {}]
  /\ UNCHANGED <<gcState, repo, repo_born, drop_only, trouble>>

RepoFails(t, l) ==
  /\ pc[t] = l /\ Return(t) /\ Trouble /\ UNCHANGED <<dirVars, repoVars>>

(* With drop_only all but the youngest go to the directory to be removed,  *)
(* otherwise only the oldest, and the others move by one.                  *)
RepoRename(t) ==
  /\ pc[t] = "repo_rename"
  /\ at' = [at EXCEPT ![t] = IF drop_only[t] THEN N - 1 ELSE N]
  /\ Goto(t, "repo_generations")
  /\ UNCHANGED <<lockVars, dirVars, opt, todo, mine, count, ok, trouble, repoVars>>

RepoDrop(t) ==
  LET i == at[t]
  IN /\ pc[t] = "repo_generations" /\ drop_only[t] /\ i > 0
     /\ repo_junk' = [repo_junk EXCEPT ![t] = @ \cup repo[i]]
     /\ repo' = [repo EXCEPT ![i] = {}]
     /\ at' = [at EXCEPT ![t] = i - 1]
     /\ UNCHANGED <<lockVars, dirVars, pc, opt, todo, mine, count, ok, trouble, repo_born, drop_only>>

RepoRotate(t) ==
  LET i == at[t]
  IN /\ pc[t] = "repo_generations" /\ ~drop_only[t] /\ i > 0
     /\ \/ i = N /\ repo_junk[t] = {}
           /\ repo_junk' = [repo_junk EXCEPT ![t] = repo[N - 1]]
           /\ repo' = [repo EXCEPT ![N - 1] = {}]
        \/ i < N /\ (repo[i - 1] = {} \/ repo[i] = {})
           /\ repo' = [repo EXCEPT ![i - 1] = {}, ![i] = IF repo[i - 1] = {} THEN @ ELSE repo[i - 1]]
           /\ UNCHANGED repo_junk
     /\ at' = [at EXCEPT ![t] = i - 1]
     /\ UNCHANGED <<lockVars, dirVars, pc, opt, todo, mine, count, ok, trouble, repo_born, drop_only>>

RepoRenamed(t) ==
  /\ pc[t] = "repo_generations" /\ at[t] = 0 /\ Goto(t, "repo_remove_lock") /\ Release(t)
  /\ UNCHANGED <<gcState, repoVars, trouble>>

RepoRenameFails(t) ==
  /\ pc[t] = "repo_generations" /\ at[t] > 0 /\ Return(t) /\ Trouble
  /\ UNCHANGED <<dirVars, repoVars>>

RepoLockLabels == {"repo_clean_lock", "repo_rename_lock", "repo_remove_lock"}

RepoStep(t) ==
  \/ RepoBegin(t) \/ \E l \in RepoLockLabels : RepoEnter(t, l)
  \/ RepoRemove(t, "repo_clean", "repo_rename_lock") \/ RepoRename(t) \/ RepoDrop(t)
  \/ RepoRotate(t) \/ RepoRenamed(t) \/ RepoRemove(t, "repo_remove", "idle")

RepoAcquires(t) ==
  \/ RepoAcquired(t, "repo_clean_lock", "shared", "repo_clean")
  \/ RepoAcquired(t, "repo_rename_lock", "exclusive", "repo_rename")
  \/ RepoAcquired(t, "repo_remove_lock", "shared", "repo_remove")

RepoErrors(t) ==
  \/ \E l \in RepoLockLabels : RepoAcquireFails(t, l)
  \/ \E l \in {"repo_clean", "repo_rename", "repo_remove"} : RepoFails(t, l)
  \/ RepoRenameFails(t)
=============================================================================
