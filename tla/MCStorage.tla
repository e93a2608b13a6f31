----------------------------- MODULE MCStorage -----------------------------
(* A small build root: a tree t with an executable b; b and t can be split  *)
(* (into the chunk c).  The action a has the result r, and the export       *)
(* target e implies the export target a.  Another action, d, has two        *)
(* possible results: s has no output, u has the splittable file g.          *)
EXTENDS Storage, TLC

MCEntries == [t \in Trees |-> {<<"x", "b">>}]
MCChunks == [d \in Splittable |-> {"c"}]
MCValueBlob == [v \in Values |-> v]
MCOutputs == [v \in Values |->
                CASE v = "s" -> {} [] v = "u" -> {<<"f", "g">>} [] OTHER -> {<<"t", "t">>}]
MCNothing == [v \in Values |-> {}]
MCLinks == [v \in Values |-> {<<"f", "b">>}]
MCImplied == [v \in Values |-> IF v = "e" THEN {"a"} ELSE {}]
MCWatched == {<<"key", "a">>, <<"f", "b">>}  \* a names t
MCRequests ==
    {<<"read", <<"key", k>>>> : k \in {"a", "e"} \cap Keys}
    \cup {<<"store", kv>> : kv \in {<<"a", "r">>, <<"e", "e">>} \cap (Keys \X Values)}
    \cup {<<"lookup", <<"f", "b">>>>, <<"lookup", <<"t", "t">>>>,
          <<"add", <<"t", "t">>>>, <<"splice", <<"t", "t">>>>, <<"splice", <<"f", "b">>>>,
          <<"split", <<"x", "b">>>>, <<"split", <<"f", "r">>>>}
MCRaces ==
    {<<"read", <<"key", "d">>>>,
     <<"store", <<"d", "u">>>>, <<"store", <<"d", "s">>>>}
MCBoth == MCRequests \cup MCRaces
MCSymmetry == Permutations(Threads)

-----------------------------------------------------------------------------
(* How the builds go: one thread at a time with every request of            *)
(* MCRequests, or two threads that race for the action d.                   *)
VARIABLE load
Loads == {[threads |-> 1, requests |-> MCRequests], [threads |-> 2, requests |-> MCRaces]}

WithinLoad ==
    /\ Cardinality(holds') <= load.threads
    /\ \A p \in Threads : goals[p] = <<>> /\ goals'[p] # <<>> =>
          goals'[p][1] \in {GoalOf(r) : r \in load.requests \cap Requests}

MCInit == Init /\ load \in Loads
MCNext == Next /\ WithinLoad /\ UNCHANGED load
MCSpec == MCInit /\ [][MCNext]_<<vars, load>>
=============================================================================
