--------------------------- MODULE ShmKeysProofs ----------------------------
(***************************************************************************)
(* With one request at a time, shm_key_list gives every cluster a key of   *)
(* its own and replaces none but -1: DistinctKeys and OnlyMinusOneReplaced *)
(* of ShmKeys for every set of clients, clusters and requested keys and    *)
(* every width of the counter, wrap-around included.                       *)
(***************************************************************************)
EXTENDS ShmKeys, TLAPS

\* At most one constructor is inside verify_shm_key_store_it.
OneAtATime ==
    \A c, d \in Clients : ~Outside(c) /\ ~Outside(d) => c = d

\* What a constructor has found out is still true: its cluster has no key yet,
\* and the key it has chosen is free.
CallOK(c) ==
    /\ ~Outside(c) => cluster[c] \in Clusters
    /\ pc[c] \in {"test", "generate", "take", "store"} =>
          shm_key_list[cluster[c]] \in {NoEntry, MinusOne}
    /\ pc[c] \in {"take", "store"} => IsUniqueShmKey(unique_shm_key[c])
    /\ pc[c] = "take" => shm_key_counter = unique_shm_key[c]

KeyInv ==
    /\ TypeOK
    /\ OneAtATime
    /\ \A c \in Clients : CallOK(c)
    /\ DistinctKeys

LEMMA SuccType ==
    ASSUME NEW k \in Keys
    PROVE  Succ(k) \in Keys
  BY KeysAssumption DEF Succ, Keys

LEMMA InitKeyInv == Init => KeyInv
  BY KeysAssumption DEF Init, KeyInv, TypeOK, OneAtATime, CallOK, DistinctKeys,
     Outside, Keys, MinusOne, DefaultKey

\* Every step of a constructor preserves the invariant.
LEMMA StepKeyInv ==
    ASSUME Serialized, KeyInv, NEW c \in Clients,
           \/ \E a \in Clusters, key \in Requests : Configure(c, a, key)
           \/ Verify(c)
           \/ Gone(c)
    PROVE  KeyInv'
  <1> USE KeysAssumption DEF KeyInv, TypeOK, OneAtATime, CallOK, Outside, Goto
  <1>0. MinusOne \in Keys /\ DefaultKey \in Keys
    BY DEF MinusOne, DefaultKey, Keys
  <1>1. CASE \E a \in Clusters, key \in Requests : Configure(c, a, key)
    BY <1>1 DEF Configure, DistinctKeys, IsUniqueShmKey
  <1>2. CASE Found(c) \/ NotFound(c)
    BY <1>2 DEF Found, NotFound, MissingEntry, DistinctKeys, IsUniqueShmKey
  <1>3. CASE TestRequested(c)
    BY <1>3 DEF TestRequested, DistinctKeys, IsUniqueShmKey
  <1>4. CASE GenerateSkip(c)
    <2>1. shm_key_counter' \in Keys
      BY <1>4, SuccType DEF GenerateSkip
    <2>2. QED
      BY <1>4, <2>1 DEF GenerateSkip, DistinctKeys, IsUniqueShmKey
  <1>5. CASE GenerateTest(c)
    BY <1>5 DEF GenerateTest, DistinctKeys, IsUniqueShmKey
  <1>6. CASE GenerateTake(c)
    <2>1. shm_key_counter = unique_shm_key[c] /\ shm_key_counter \in Keys
      BY <1>6 DEF GenerateTake
    <2>2. PICK key \in {unique_shm_key[c], shm_key_counter},
               base \in {unique_shm_key[c], shm_key_counter} :
             /\ unique_shm_key' = [unique_shm_key EXCEPT ![c] = key]
             /\ shm_key_counter' = Succ(base)
      BY <1>6 DEF GenerateTake
    <2>3. shm_key_counter' \in Keys
      BY <2>1, <2>2, SuccType
    <2>4. unique_shm_key' = unique_shm_key
      BY <2>1, <2>2
    <2>5. QED
      BY <1>6, <2>3, <2>4 DEF GenerateTake, DistinctKeys, IsUniqueShmKey
  <1>7. CASE Store(c)
    <2>1. \A a \in Clusters : shm_key_list[a] # unique_shm_key[c]
      BY <1>7 DEF Store, IsUniqueShmKey
    <2>2. DistinctKeys'
      BY <1>7, <2>1 DEF Store, DistinctKeys
    <2>3. TypeOK'
      BY <1>0, <1>7 DEF Store
    <2>4. OneAtATime' /\ \A d \in Clients : CallOK(d)'
      BY <1>7 DEF Store
    <2>5. QED
      BY <2>2, <2>3, <2>4
  <1>8. CASE Gone(c)
    BY <1>0, <1>8 DEF Gone, DistinctKeys, IsUniqueShmKey
  <1>9. QED
    BY <1>1, <1>2, <1>3, <1>4, <1>5, <1>6, <1>7, <1>8 DEF Verify

LEMMA NextKeyInv ==
    ASSUME Serialized, KeyInv, [Next]_vars
    PROVE  KeyInv'
  <1>1. CASE Next
    BY <1>1, StepKeyInv DEF Next
  <1>2. CASE UNCHANGED vars
    BY <1>2 DEF vars, KeyInv, TypeOK, OneAtATime, CallOK, Outside, IsUniqueShmKey, DistinctKeys
  <1>3. QED
    BY <1>1, <1>2

\* Requests that run one at a time never leave two clusters with one key.
THEOREM KeysDistinct ==
    ASSUME Serialized
    PROVE  Spec => [](TypeOK /\ DistinctKeys)
  <1>1. Init => KeyInv
    BY InitKeyInv
  <1>2. KeyInv /\ [Next]_vars => KeyInv'
    BY NextKeyInv
  <1>3. KeyInv => TypeOK /\ DistinctKeys
    BY DEF KeyInv
  <1>4. QED
    BY <1>1, <1>2, <1>3, PTL DEF Spec

\* What one step does to the key of a cluster.
KeepsKeys ==
    \A a \in Clusters : shm_key_list'[a] # shm_key_list[a] =>
        /\ shm_key_list[a] \in {NoEntry, MinusOne}
        /\ shm_key_list'[a] \in Keys

\* With requests one at a time verify_shm_key_store_it gives a cluster a key only
\* when it has none or has -1, the one key that a cluster does not keep.
THEOREM ReplacesOnlyMinusOne ==
    ASSUME Serialized
    PROVE  Spec => OnlyMinusOneReplaced
  <1>1. Init => KeyInv
    BY InitKeyInv
  <1>2. KeyInv /\ [Next]_vars => KeyInv'
    BY NextKeyInv
  <1>3. KeyInv /\ [Next]_vars => [KeepsKeys]_vars
    <2>1. ASSUME KeyInv, NEW c \in Clients, Store(c) PROVE KeepsKeys
      BY <2>1, KeysAssumption DEF KeyInv, TypeOK, CallOK, Outside, Store, KeepsKeys
    <2>2. QED
      BY <2>1 DEF Next, Verify, Configure, Found, NotFound, TestRequested, GenerateSkip,
         GenerateTest, GenerateTake, Gone, KeepsKeys
  <1>4. QED
    BY <1>1, <1>2, <1>3, PTL DEF Spec, OnlyMinusOneReplaced, KeepsKeys
=============================================================================
