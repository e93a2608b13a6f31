------------------------------ MODULE TaskPool ------------------------------
(***************************************************************************)
(* What a task system promises to its users (AsyncMap, Traverser): tasks   *)
(* are queued by the owner or by running tasks, each is run at most once,  *)
(* Finish returns when nothing is pending or running, and after a shutdown *)
(* pending tasks may be dropped and Finish returns in any case.            *)
(***************************************************************************)
EXTENDS Naturals, FiniteSets

CONSTANT Tasks

VARIABLES status,    \* of each task
          stopping,  \* Shutdown was called
          owner      \* what the owner of the pool does

poolVars == <<status, stopping, owner>>

Init ==
  /\ status = [t \in Tasks |-> "new"]
  /\ stopping = FALSE
  /\ owner = "working"

Set(t, from, to) == status[t] = from /\ status' = [status EXCEPT ![t] = to]
Quiet == \A t \in Tasks : status[t] \notin {"pending", "running"}

(* QueueTask *)
Queue(t) ==
  /\ owner = "working" \/ \E u \in Tasks : status[u] = "running"
  /\ Set(t, "new", "pending")
  /\ UNCHANGED <<stopping, owner>>

Start(t) == Set(t, "pending", "running") /\ UNCHANGED <<stopping, owner>>
End(t)   == Set(t, "running", "finished") /\ UNCHANGED <<stopping, owner>>
Drop(t)  == stopping /\ Set(t, "pending", "dropped") /\ UNCHANGED <<stopping, owner>>

(* Shutdown, by a running task or by the destructor after Finish *)
Stop ==
  /\ owner = "returned" \/ \E t \in Tasks : status[t] = "running"
  /\ stopping' = TRUE
  /\ UNCHANGED <<status, owner>>

(* Finish *)
Call == owner = "working" /\ owner' = "waiting" /\ UNCHANGED <<status, stopping>>
Return ==
  /\ owner = "waiting" /\ (Quiet \/ stopping)
  /\ owner' = "returned"
  /\ UNCHANGED <<status, stopping>>
Resume == owner = "returned" /\ owner' = "working" /\ UNCHANGED <<status, stopping>>

(* the destructor has joined all threads: nothing runs any more *)
Destroyed ==
  /\ owner = "returned" /\ stopping
  /\ \A t \in Tasks : status[t] # "running"
  /\ owner' = "gone"
  /\ UNCHANGED <<status, stopping>>

Next ==
  \/ \E t \in Tasks : Queue(t) \/ Start(t) \/ End(t) \/ Drop(t)
  \/ Stop \/ Call \/ Return \/ Resume \/ Destroyed

Fairness ==
  /\ \A t \in Tasks : WF_poolVars(~stopping /\ Start(t)) /\ WF_poolVars(End(t))
  /\ WF_poolVars(Return)

(* Without the promise that anything happens. *)
Safety == Init /\ [][Next]_poolVars

Spec == Safety /\ Fairness
=============================================================================
