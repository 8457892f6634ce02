--------------------------- MODULE MCStreamCalls ----------------------------
(* Constants for model checking StreamCalls. *)
EXTENDS StreamCalls, TLC

CONSTANTS a1, o1, o2, r1, r2

OneHost == {<<a1>>}
Sym == Permutations({o1, o2}) \cup Permutations({r1, r2})
=============================================================================
