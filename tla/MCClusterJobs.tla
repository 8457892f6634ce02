--------------------------- MODULE MCClusterJobs ----------------------------
EXTENDS ClusterJobs, TLC

CONSTANTS r1, r2, n1, n2

MCUses == (r1 :> {"register", "apply", "scanApply", "scanInfo"})
       @@ (r2 :> Methods \ {"apply", "scanApply", "scanInfo"})

Sym == Permutations({n1, n2})
=============================================================================
