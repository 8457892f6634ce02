----------------------------- MODULE MCPolicies -----------------------------
EXTENDS Policies, TLC

CONSTANTS r1, r2

\* One request calls all methods, the other one only puts.
MCMethods == r1 :> Kinds @@ r2 :> {"write"}

\* Values that differ between the layers tell them apart.
MCOptions ==
    {NULL, NoArray,
     "READ_TIMEOUT" :> 10 @@ "WRITE_TIMEOUT" :> 20 @@ "SERIALIZER" :> 3
         @@ "POLICY_RETRY" :> 2 @@ "POLICY_REPLICA" :> 3,
     "READ_TIMEOUT" :> Wrong @@ "WRITE_TIMEOUT" :> 21 @@ "POLICY_KEY" :> 2
         @@ "CONNECT_TIMEOUT" :> 30}

MCPhpIni ==
    [connect_timeout |-> 5, read_timeout |-> 6, write_timeout |-> 7,
     key_policy |-> Undefined, serializer_type |-> 1]

\* Only the key policy changes: it is the setting that ends up in most fields,
\* an enumerator and two timeouts.
MCIniValues ==
    [connect_timeout |-> {}, read_timeout |-> {}, write_timeout |-> {},
     key_policy |-> {1}, serializer_type |-> {}]

MCSymmetry == Permutations(Handles)
=============================================================================
