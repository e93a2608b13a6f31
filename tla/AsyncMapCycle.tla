---------------------------- MODULE AsyncMapCycle ---------------------------
(***************************************************************************)
(* AsyncMapConsumer::DetectCycle: when the task system has come to rest    *)
(* and a request was not answered, the users of the map look for a cycle   *)
(* in the requests that were recorded while consumers blocked              *)
(* (src/buildtool/multithreading/async_map_consumer.hpp).                  *)
(***************************************************************************)
EXTENDS AsyncMap

(* GetPendingRequests: the recorded requests for nodes that are not ready. *)
GetPendingRequests == {p \in requests : ~node[p[2]].ready}

(* The order in which an unordered_set is walked; any will do. *)
Walk(S) == SetToSeq(S)

(* DetectCycleForCaller: a depth-first search.  calls is the path so far,  *)
(* known the callers from which no cycle is reachable.                     *)
RECURSIVE DetectCycleForCaller(_, _, _, _)
RECURSIVE DetectCycleForDeps(_, _, _, _)

(* Mutant of DetectCycleForDeps: the key that closes the cycle is missing. *)
DetectCycleUnclosed(calls, known, reqs, todo) ==
  IF todo = <<>> THEN [found |-> FALSE, calls |-> calls, known |-> known]
  ELSE IF Contains(calls, Head(todo))
    THEN [found |-> TRUE, calls |-> calls, known |-> known]
    ELSE LET d == DetectCycleForCaller(calls, known, reqs, Head(todo))
         IN IF d.found THEN d ELSE DetectCycleForDeps(calls, d.known, reqs, Tail(todo))

DetectCycleForDeps(calls, known, reqs, todo) ==
  IF todo = <<>> THEN [found |-> FALSE, calls |-> calls, known |-> known]
  ELSE IF Contains(calls, Head(todo))
    THEN [found |-> TRUE, calls |-> Append(calls, Head(todo)), known |-> known]
    ELSE LET d == DetectCycleForCaller(calls, known, reqs, Head(todo))
         IN IF d.found THEN d ELSE DetectCycleForDeps(calls, d.known, reqs, Tail(todo))

DetectCycleForCaller(calls, known, reqs, caller) ==
  LET out == {p[2] : p \in {q \in reqs : q[1] = caller}}
  IN IF caller \in known THEN [found |-> FALSE, calls |-> calls, known |-> known]
     ELSE IF caller \notin {p[1] : p \in reqs}
       THEN [found |-> FALSE, calls |-> calls, known |-> known \cup {caller}]
       ELSE LET d == DetectCycleForDeps(Append(calls, caller), known, reqs, Walk(out))
            IN IF d.found THEN d
               ELSE [found |-> FALSE, calls |-> calls, known |-> d.known \cup {caller}]

(* DetectCycle: the search is started from every caller. *)
RECURSIVE DetectCycleFrom(_, _, _)
DetectCycleFrom(callers, known, reqs) ==
  IF callers = <<>> THEN <<>>
  ELSE LET d == DetectCycleForCaller(<<>>, known, reqs, Head(callers))
       IN IF d.found THEN d.calls ELSE DetectCycleFrom(Tail(callers), d.known, reqs)

DetectCycle ==
  LET reqs == GetPendingRequests
  IN DetectCycleFrom(Walk({p[1] : p \in reqs}), {}, reqs)

-----------------------------------------------------------------------------
Stuck == {k \in Keys : node[k].queued /\ ~node[k].ready /\ ~node[k].failed}

(* If, with nothing left to run, a key is neither ready nor failed, then   *)
(* DetectCycle finds a cycle: no evaluation hangs without a diagnosis.     *)
StuckIsDiagnosed == (Quiescent /\ Stuck # {}) => DetectCycle # <<>>

(* The cycle DetectCycle reports is one: every element asked for the next, *)
(* the last one closes it, and the array of requests.size() + 1 elements   *)
(* the code writes it to is large enough.                                  *)
ReportedCycleIsReal ==
  LET calls == DetectCycle
      n     == Len(calls)
  IN Quiescent /\ calls # <<>> =>
       /\ \A i \in 1 .. n - 1 : calls[i + 1] \in Succ({calls[i]})
       /\ \E i \in 1 .. n - 1 : calls[i] = calls[n]
       /\ n <= Cardinality({p[1] : p \in GetPendingRequests}) + 1
=============================================================================
