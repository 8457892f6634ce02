-------------------------- MODULE MCConnectionPool --------------------------
(* Constants for model checking ConnectionPool. *)
EXTENDS ConnectionPool, TLC

CONSTANTS a1, a2, o1, o2, o3, r1, r2, r3

OneHost   == {<<a1>>, <<a2>>}
OneOrTwo  == {<<a1>>, <<a2>>, <<a1, a2>>}
TwoHosts  == {<<a2>>, <<a1, a2>>}
Sym2      == Permutations({o1, o2}) \cup Permutations({r1, r2})
Sym3      == Permutations({o1, o2, o3}) \cup Permutations({r1, r2})
=============================================================================
