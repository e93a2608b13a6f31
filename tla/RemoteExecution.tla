--------------------------- MODULE RemoteExecution ---------------------------
(***************************************************************************)
(* Remote execution from both sides: the execution service (execution of   *)
(* actions, action cache, operation cache, waiting for operations) and     *)
(* just as its client (look the action up, upload what it needs, execute   *)
(* it, try again if the connection breaks). The service may be restarted   *)
(* and its build root collected at any time; handlers go on when their     *)
(* client has gone.                                                        *)
(***************************************************************************)
EXTENDS RemoteTransfer

CONSTANTS Actions,
          Leaves, InputRoot, Messages, Output,
                     \* per action: files, tree of inputs, the action itself
                     \* and its command, what it creates
          Threshold, \* of the operation cache
          Casts      \* sequence of [role, action, present, executed, lost,
                     \* collections]: who does what, what the service has and
                     \* knows before, how often calls get lost and it is collected

(* What the service has is a CAS: no tree is there without its entries;    *)
(* all files of a tree of inputs are inputs of the action.                 *)
ASSUME ExecutionAssumption ==
  /\ IsFiniteSet(Actions) /\ Threshold \in Nat \ {0}
  /\ \A a \in Actions : /\ (Leaves[a] \cup Messages[a]) \cap Trees = {}
                       /\ Below[InputRoot[a]] \ Trees \subseteq Leaves[a]
  /\ Leaves \in [Actions -> SUBSET Objects] /\ Messages \in [Actions -> SUBSET Objects]
  /\ InputRoot \in [Actions -> Objects] /\ Output \in [Actions -> Objects]
  /\ \A i \in DOMAIN Casts :
       /\ Casts[i].role \in [Threads -> {"none", "build", "wait", "sync"}]
       /\ Casts[i].action \in [Threads -> Actions]
       /\ Casts[i].present \subseteq Objects /\ Closed(Casts[i].present)
       /\ Casts[i].executed \subseteq Actions /\ Cardinality(Casts[i].executed) <= 2 * Threshold + 1
       /\ Casts[i].lost \in 0 .. MaxTrouble /\ Casts[i].collections \in 0 .. MaxCollections

VARIABLES ac,        \* per action: cached exit code, none if there is none
          ac_age,    \* and its generation
          op,        \* operation cache: per action none, ongoing or done
          handler,   \* per thread and attempt: an execution at the service
          attempt,   \* which one the thread listens to
          result,    \* what the thread got
          begun,     \* collections left when the thread began: history
          broken,    \* executions that failed for internal reasons: history
          cast

serviceVars == <<ac, ac_age, op, handler, broken>>
clientVars  == <<attempt, result, begun>>
vars == <<casVars, limit, trouble, upVars, transferVars, serviceVars, clientVars, cast>>

Role(t) == Casts[cast].role[t]
Act(t)  == Casts[cast].action[t]
Played(r) == {t \in Threads : Role(t) = r}
None == [exit |-> "none", cached |-> FALSE]
Stages == {"none", "called", "running", "ran", "ok", "internal"}
Working == {"running", "ran"}   \* holding the lock of the build root

Labels == CasLabels \cup TransferLabels \cup {"idle", "prepare", "execute", "wait"}

TypeOK ==
  /\ CasTypeOK /\ TransferTypeOK
  /\ pc \in [Threads -> Labels] /\ then \in [Threads -> Labels]
  /\ ac \in [Actions -> {"none", "0", "1"}] /\ ac_age \in [Actions -> 0 .. Generations]
  /\ op \in [Actions -> {"none", "ongoing", "done"}]
  /\ handler \in [Threads -> [1 .. MaxAttempts -> [stage : Stages, exit : {"none", "0", "1"}]]]
  /\ attempt \in [Threads -> 0 .. MaxAttempts]
  /\ result \in [Threads -> [exit : {"none", "0", "1"}, cached : BOOLEAN]]
  /\ begun \in [Threads -> 0 .. MaxCollections] /\ broken \in 0 .. 1
  /\ cast \in DOMAIN Casts

Init ==
  /\ CasInit /\ TransferInit /\ cast \in DOMAIN Casts
  /\ trouble = Casts[cast].lost /\ collections = Casts[cast].collections
  /\ age = [o \in Objects |-> IF o \in Casts[cast].present THEN Generations - 1 ELSE Generations]
  /\ pc = [t \in Threads |-> "idle"]
  /\ ac = [a \in Actions |-> "none"] /\ ac_age = [a \in Actions |-> Generations]
  /\ op = [a \in Actions |-> IF a \in Casts[cast].executed THEN "done" ELSE "none"] /\ broken = 0
  /\ handler = [t \in Threads |-> [k \in 1 .. MaxAttempts |-> [stage |-> "none", exit |-> "none"]]]
  /\ attempt = [t \in Threads |-> 0] /\ result = [t \in Threads |-> None]
  /\ begun = [t \in Threads |-> collections]

-----------------------------------------------------------------------------
(* The operation cache: beyond twice the threshold, finished operations    *)
(* are dropped before one is set (the oldest by seconds, here: any).       *)
Known(ops) == {a \in Actions : ops[a] # "none"}
DoneOps == {a \in Actions : op[a] = "done"}

(* Mutant of Dropped: of all operations. *)
DroppedAny ==
  IF Cardinality(Known(op)) <= 2 * Threshold THEN {{}}
  ELSE {S \in SUBSET Known(op) : Cardinality(S) = Threshold}

Dropped ==
  IF Cardinality(Known(op)) <= 2 * Threshold THEN {{}}
  ELSE {S \in SUBSET DoneOps : Cardinality(S) = Min({Threshold, Cardinality(DoneOps)})}

Set(a, state) ==
  \E S \in Dropped : op' = [x \in Actions |-> IF x = a THEN state ELSE IF x \in S THEN "none" ELSE op[x]]

(* The action cache: an entry is found with what it refers to, or not.     *)
Cached(a) ==
  /\ ac[a] # "none" /\ ac_age[a] < Generations
  /\ \A o \in Below[Output[a]] : InCas(o)

-----------------------------------------------------------------------------
(* Execution at the service: the action and its command are read and the   *)
(* input root is looked up, under the lock, before that the operation is   *)
(* not known;                                                              *)
HandlerAt(t, k, stage) == handler[t][k].stage = stage
SetHandler(t, k, stage, exit) ==
  handler' = [handler EXCEPT ![t][k] = [stage |-> stage, exit |-> exit]]
ExecuteUnchanged == UNCHANGED <<collections, limit, trouble, upVars, transferVars, clientVars, cast>>

Prepare(t, k) ==
  LET read == Messages[Act(t)] \cup {InputRoot[Act(t)]}
  IN /\ HandlerAt(t, k, "called")
     /\ age' = Uplinked(read, age)
     /\ IF \A o \in read : InCas(o)
        THEN SetHandler(t, k, "running", "none") /\ Set(Act(t), "ongoing")
        ELSE SetHandler(t, k, "internal", "none") /\ UNCHANGED op
     /\ UNCHANGED <<ac, ac_age, broken>> /\ ExecuteUnchanged

(* LocalAction: a cached success is taken, otherwise the inputs are staged, *)
(* the command is run, and its outputs and, whatever its exit code, its    *)
(* result are stored;                                                      *)
FromCache(t, k) ==
  /\ HandlerAt(t, k, "running") /\ Cached(Act(t)) /\ ac[Act(t)] = "0"
  /\ age' = Uplinked({Output[Act(t)]}, age) /\ ac_age' = [ac_age EXCEPT ![Act(t)] = 0]
  /\ SetHandler(t, k, "ran", "0")
  /\ UNCHANGED <<ac, op, broken>> /\ ExecuteUnchanged

Run(t, k) ==
  /\ HandlerAt(t, k, "running") /\ ~(Cached(Act(t)) /\ ac[Act(t)] = "0")
  /\ IF \A o \in Below[InputRoot[Act(t)]] : InCas(o)
     THEN \E exit \in {"0", "1"} :
            /\ age' = Stored(Below[Output[Act(t)]], Uplinked({InputRoot[Act(t)]}, age))
            /\ ac' = [ac EXCEPT ![Act(t)] = exit] /\ ac_age' = [ac_age EXCEPT ![Act(t)] = 0]
            /\ SetHandler(t, k, "ran", exit)
     ELSE /\ SetHandler(t, k, "internal", "none") /\ UNCHANGED <<age, ac, ac_age>>
  /\ UNCHANGED <<op, broken>> /\ ExecuteUnchanged

(* or something fails, and the operation stays ongoing for good.           *)
Breaks(t, k) ==
  /\ handler[t][k].stage \in Working /\ broken = 0 /\ broken' = 1
  /\ SetHandler(t, k, "internal", "none")
  /\ UNCHANGED <<age, ac, ac_age, op>> /\ ExecuteUnchanged

(* A success is stored once more, the operation is done and the client told. *)
Respond(t, k) ==
  /\ HandlerAt(t, k, "ran")
  /\ SetHandler(t, k, "ok", handler[t][k].exit) /\ Set(Act(t), "done")
  /\ IF handler[t][k].exit = "0"
     THEN ac' = [ac EXCEPT ![Act(t)] = "0"] /\ ac_age' = [ac_age EXCEPT ![Act(t)] = 0]
     ELSE UNCHANGED <<ac, ac_age>>
  /\ UNCHANGED <<age, broken>> /\ ExecuteUnchanged

Locked == \E t \in Threads, k \in 1 .. MaxAttempts : handler[t][k].stage \in Working

Collect ==
  /\ ~Locked /\ collections > 0 /\ collections' = collections - 1
  /\ age' = [o \in Objects |-> Min({age[o] + 1, Generations})]
  /\ ac_age' = [a \in Actions |-> Min({ac_age[a] + 1, Generations})]
  /\ UNCHANGED <<limit, trouble, upVars, transferVars, ac, op, handler, broken, clientVars, cast>>

(* Handlers and operations are lost, the build root is not. *)
Restart ==
  /\ \E a \in Actions : op[a] # "none"
  /\ Lose(1) /\ op' = [a \in Actions |-> "none"]
  /\ handler' = [t \in Threads |-> [k \in 1 .. MaxAttempts |->
       IF handler[t][k].stage \in {"called"} \cup Working
       THEN [stage |-> "none", exit |-> "none"] ELSE handler[t][k]]]
  /\ UNCHANGED <<casVars, limit, upVars, transferVars, ac, ac_age, broken, clientVars, cast>>

-----------------------------------------------------------------------------
(* The client: files of the input tree are there or uploaded first         *)
(* (executor), then the tree, then the action is looked for in the cache.  *)
ServiceUnchanged == UNCHANGED <<serviceVars, cast>>

Begin(t) ==
  /\ pc[t] = "idle" /\ begun' = [begun EXCEPT ![t] = collections]
  /\ \/ Role(t) = "build" /\ UploadBlobs(t, Leaves[Act(t)], FALSE, "tree") /\ UNCHANGED <<age, stack>>
     \/ Role(t) = "wait" /\ op[Act(t)] # "none"
        /\ Goto(t, "wait") /\ UNCHANGED <<age, stack, then, up, tries>>
     \/ Role(t) = "sync" /\ InCas(InputRoot[Act(t)])     \* which is found meanwhile
        /\ age' = Uplinked({InputRoot[Act(t)]}, age)
        /\ Push(t, Retrieve({InputRoot[Act(t)]})) /\ Goto(t, "sync") /\ UNCHANGED <<then, up, tries>>
  /\ UNCHANGED <<collections, limit, trouble, local, done, unread, attempt, result>> /\ ServiceUnchanged

NotCached(t) ==
  /\ UploadBlobs(t, Messages[Act(t)], FALSE, "prepare") /\ UNCHANGED result

(* A cached success with all outputs is the result. *)
GetActionResult(t) ==
  /\ pc[t] = "uploaded"
  /\ IF Cached(Act(t))
     THEN /\ age' = Uplinked({Output[Act(t)]}, age) /\ ac_age' = [ac_age EXCEPT ![Act(t)] = 0]
          /\ IF ac[Act(t)] = "0"
             THEN /\ Goto(t, "ok") /\ result' = [result EXCEPT ![t] = [exit |-> "0", cached |-> TRUE]]
                  /\ UNCHANGED <<then, up, tries>>
             ELSE NotCached(t)
     ELSE NotCached(t) /\ UNCHANGED <<age, ac_age>>
  /\ UNCHANGED <<collections, limit, trouble, transferVars, ac, op, handler, broken, attempt, begun, cast>>

(* Lost as often as it may be tried, the lookup counts as a miss.          *)
LookupLost(t) ==
  /\ pc[t] = "uploaded" /\ Lose(MaxAttempts) /\ NotCached(t)
  /\ UNCHANGED <<casVars, limit, transferVars, attempt, begun>> /\ ServiceUnchanged

CallExecute(t, k) ==
  /\ SetHandler(t, k, "called", "none") /\ attempt' = [attempt EXCEPT ![t] = k]
  /\ Goto(t, "execute")

Execute(t) ==
  /\ pc[t] = "prepare" /\ CallExecute(t, 1)
  /\ UNCHANGED <<then, up, tries, casVars, limit, trouble, transferVars, ac, ac_age, op, broken, result, begun, cast>>

(* The stream of operations ends with the response, *)
ReadExecution(t) ==
  /\ pc[t] = "execute"
  /\ \/ /\ HandlerAt(t, attempt[t], "ok")
        /\ Goto(t, "ok")
        /\ result' = [result EXCEPT ![t] = [exit |-> handler[t][attempt[t]].exit, cached |-> FALSE]]
     \/ HandlerAt(t, attempt[t], "internal") /\ Goto(t, "failed") /\ UNCHANGED result
  /\ UNCHANGED <<then, up, tries, casVars, limit, trouble, transferVars, attempt, begun>> /\ ServiceUnchanged

(* or breaks (also with the service), upon which the action is executed    *)
(* anew, beside the handler that may still be at work.                     *)
Unavailable(t) ==
  /\ pc[t] = "execute"
  /\ IF HandlerAt(t, attempt[t], "none") THEN UNCHANGED trouble ELSE Lose(1)
  /\ IF attempt[t] < MaxAttempts
     THEN CallExecute(t, attempt[t] + 1)
     ELSE Goto(t, "failed") /\ UNCHANGED <<handler, attempt>>
  /\ UNCHANGED <<then, up, tries, casVars, limit, transferVars, ac, ac_age, op, broken, result, begun, cast>>

(* WaitExecution polls until the operation is done or forgotten.            *)
WaitExecution(t) ==
  /\ pc[t] = "wait" /\ op[Act(t)] # "ongoing"
  /\ Goto(t, IF op[Act(t)] = "done" THEN "ok" ELSE "failed")
  /\ UNCHANGED <<then, up, tries, casVars, limit, trouble, transferVars, clientVars>> /\ ServiceUnchanged

-----------------------------------------------------------------------------
Uploads(t) ==
  LET root == InputRoot[Act(t)]
  IN /\ \/ UploadTree(t, root) \/ Available(t, root) \/ Level(t) \/ Node(t) \/ AddNode(t)
        \/ CloseNode(t) \/ Root(t, root)
        \/ Transfer(t) /\ UNCHANGED transferVars
     /\ UNCHANGED <<clientVars>> /\ ServiceUnchanged

Synchronizes(t) ==
  (SyncStep(t) \/ ReadEntries(t) \/ ReadTooLarge(t) \/ Copy(t)) /\ UNCHANGED clientVars /\ ServiceUnchanged

Handles(t, k) == Prepare(t, k) \/ FromCache(t, k) \/ Run(t, k) \/ Respond(t, k)

Client(t) ==
  \/ Uploads(t) \/ Synchronizes(t) \/ GetActionResult(t) \/ Execute(t)
  \/ ReadExecution(t) \/ WaitExecution(t)
  \/ Unavailable(t) /\ HandlerAt(t, attempt[t], "none")

Lost(t) ==
  \/ TransferLost(t) /\ UNCHANGED <<transferVars, clientVars>> /\ ServiceUnchanged
  \/ LookupLost(t)
  \/ Unavailable(t) /\ ~HandlerAt(t, attempt[t], "none")

Next ==
  \/ \E t \in Threads : Begin(t) \/ Client(t) \/ Lost(t)
  \/ \E t \in Threads, k \in 1 .. MaxAttempts : Handles(t, k) \/ Breaks(t, k)
  \/ Collect \/ Restart

(* Threads of the client and handlers of the service are scheduled; nothing *)
(* has to get lost, nobody has to collect, start or restart anything.      *)
Fairness ==
  \A t \in Threads :
    /\ WF_vars(Client(t))
    /\ \A k \in 1 .. MaxAttempts : WF_vars(Handles(t, k))

Spec == Init /\ [][Next]_vars /\ Fairness

-----------------------------------------------------------------------------
(* A tree is in the CAS of the service only with its entries, in whatever  *)
(* order and portions clients upload.                                      *)
ServerTreesComplete ==
  \A o \in Trees : InCas(o) => \A e \in Entries[o] : age[e] <= age[o]

Needs(a) == Leaves[a] \cup Below[InputRoot[a]] \cup Messages[a]

(* How often calls got lost, whether a single lost one may be enough to    *)
(* fail a job, as large blobs are streamed, which is not tried again (if   *)
(* the service accepts no batch of the least size, all are), and whether   *)
(* finished operations may get dropped.                                    *)
LostCalls  == Casts[cast].lost - trouble
Fragile(t) == ServerMax < MinBatch \/ \E o \in Needs(Act(t)) : Size[o] > Min({MaxGrpc, limit})
Crowded    == Cardinality(Casts[cast].executed \cup {Act(u) : u \in Played("build")}) > 2 * Threshold

(* A job only fails for a reason: the connection was lost as often as a    *)
(* call is tried, an execution broke, or the build root was collected so   *)
(* often that not even what was just found is kept; and waiting for an     *)
(* operation, if it got forgotten.                                         *)
Caused(t) ==
  \/ begun[t] - collections >= Generations
  \/ broken > 0
  \/ LostCalls >= IF Fragile(t) THEN 1 ELSE MaxAttempts

FailureHasCause ==
  \A t \in Threads : pc[t] = "failed" => Caused(t) \/ (Role(t) = "wait" /\ (LostCalls > 0 \/ Crowded))

(* What is taken from the cache was a success, and what a build gets is    *)
(* there to be fetched.                                                    *)
ResultIsThere ==
  \A t \in Threads : result[t].exit # "none" =>
    /\ result[t].cached => result[t].exit = "0"
    /\ pc[t] = "ok" /\ (begun[t] - collections < Generations => \A o \in Below[Output[Act(t)]] : InCas(o))

OperationsBounded ==
  Cardinality(Known(op)) <= Max({2 * Threshold + 1, Cardinality(Known(op) \ DoneOps) + 1})

(* Whoever waits for an operation finds it while it is being executed,     *)
(* unless another execution of the same action has finished meanwhile, but *)
(* finished operations do not pile up.                                     *)
RunningIsListed ==
  OperationsBounded /\ \A t \in Threads, k \in 1 .. MaxAttempts : handler[t][k].stage \in Working =>
    \/ op[Act(t)] # "none"
    \/ \E u \in Threads, j \in 1 .. MaxAttempts :
         Act(u) = Act(t) /\ <<u, j>> # <<t, k>> /\ handler[u][j].stage = "ok"

(* What is reported as synchronized is in the local CAS with everything    *)
(* below it, and trees come after their entries, provided that no tree     *)
(* could not be read.                                                      *)
SyncedIsComplete ==
  unread = {} =>
    /\ Closed(local)
    /\ \A t \in Played("sync") : pc[t] = "ok" => Below[InputRoot[Act(t)]] \subseteq local

(* "If a tree is in CAS, then so are its immediate parts"                  *)
LocalTreesComplete == Closed(local)

(* Every job ends, whatever limits the service has and however often it    *)
(* has to be tried; waiting for an operation ends if no execution breaks.  *)
JobEnds ==
  <>[] \A t \in Threads :
    pc[t] \in {"idle", "ok", "failed"} \/ (pc[t] = "wait" /\ broken > 0)
=============================================================================
