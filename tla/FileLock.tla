------------------------------ MODULE FileLock ------------------------------
(***************************************************************************)
(* LockFile of src/utils/cpp/file_locking: advisory locks on files, shared *)
(* or exclusive, released when the owner's handle is closed, at the latest *)
(* with the end of the process.  Acquire holds a mutex of the whole        *)
(* process while it blocks in flock, so the threads of a process queue up  *)
(* behind whoever waits for a file.                                        *)
(*                                                                         *)
(* The kernel grants a shared lock whenever nobody holds an exclusive one, *)
(* also if somebody waits for one.                                         *)
(***************************************************************************)
EXTENDS Naturals

CONSTANTS Threads,   \* all threads of all processes
          Process,   \* [Threads -> processes]
          Files,     \* lock files
          Nobody     \* not a thread

ASSUME NobodyAssumption == Nobody \notin Threads

VARIABLES mutex,  \* lock_mutex of each process: its owner or Nobody
          held    \* held[t][f]: how thread t holds f

lockVars == <<mutex, held>>

Modes     == {"none", "shared", "exclusive"}
Processes == {Process[t] : t \in Threads}

LockTypeOK ==
  /\ mutex \in [Processes -> Threads \cup {Nobody}]
  /\ held \in [Threads -> [Files -> Modes]]

LockInit ==
  /\ mutex = [p \in Processes |-> Nobody]
  /\ held = [t \in Threads |-> [f \in Files |-> "none"]]

(* A mutex that no other thread ever asks for is left out. *)
Alone(t) == \A u \in Threads \ {t} : Process[u] # Process[t]
HasMutex(t) == mutex[Process[t]] = t \/ Alone(t)

(* flock succeeds: an own lock on the file through another handle counts. *)
Free(f, mode) ==
  \A u \in Threads : held[u][f] = "none" \/ (mode = "shared" /\ held[u][f] = "shared")

(* std::unique_lock lock{lock_mutex} *)
EnterAcquire(t) ==
  /\ ~Alone(t) /\ mutex[Process[t]] = Nobody
  /\ mutex' = [mutex EXCEPT ![Process[t]] = t]
  /\ UNCHANGED held

(* flock returns, and with it Acquire *)
Acquired(t, f, mode) ==
  /\ HasMutex(t) /\ Free(f, mode)
  /\ held' = [held EXCEPT ![t][f] = mode]
  /\ mutex' = [mutex EXCEPT ![Process[t]] = Nobody]

(* The file cannot be created or opened, or flock fails. *)
AcquireFails(t) ==
  /\ HasMutex(t)
  /\ mutex' = [mutex EXCEPT ![Process[t]] = Nobody]
  /\ UNCHANGED held

(* ~LockFile for all that t still holds *)
Release(t) ==
  /\ held' = [held EXCEPT ![t] = [f \in Files |-> "none"]]
  /\ UNCHANGED mutex

(* The process is gone: its handles are closed, its mutex does not matter. *)
ReleaseProcess(p) ==
  /\ held' = [t \in Threads |-> IF Process[t] = p THEN [f \in Files |-> "none"] ELSE held[t]]
  /\ mutex' = [mutex EXCEPT ![p] = Nobody]

(* Nobody shares what somebody holds exclusively. *)
MutualExclusion ==
  \A t, u \in Threads, f \in Files :
    t # u /\ held[t][f] = "exclusive" => held[u][f] = "none"
=============================================================================
