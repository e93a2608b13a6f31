---------------------------- MODULE MCCollection ----------------------------
(* Instances of Collection for TLC: s1 and s2 are threads of one process.  *)
EXTENDS Collection

CONSTANTS s1, s2, c, d

MCProcess == [t \in {s1, s2, c, d} |-> IF t \in {s1, s2} THEN "server" ELSE IF t = c THEN "c" ELSE "d"]

Cast(rs1, rs2, rc, rd, asked, generations) ==
  [role |-> [t \in {s1, s2, c, d} |-> CASE t = s1 -> rs1 [] t = s2 -> rs2 [] t = c -> rc [] t = d -> rd],
   asked |-> asked, generations |-> generations]

MCCasts == << Cast("build", "none", "gc", "gc", {"rotate"}, 2),
              Cast("build", "none", "gc", "none", Options, 2),
              Cast("serve", "serve", "gc", "gc-repo", {"rotate"}, 0),
              Cast("serve", "none", "gc-repo", "gc-repo", {}, 2) >>
=============================================================================
