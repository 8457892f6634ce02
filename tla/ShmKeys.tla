------------------------------ MODULE ShmKeys -------------------------------
(***************************************************************************)
(* The shared-memory keys of main/conversions.cpp.  php_config_to_as_config *)
(* ends every successful conversion with verify_shm_key_store_it, which    *)
(* gives each cluster a key of its own in the process-wide shm_key_list.   *)
(* No lock guards shm_key_list and shm_key_counter, and constructors of    *)
(* different requests run concurrently.                                    *)
(*                                                                         *)
(* A cluster stands for the alias string that create_alias and             *)
(* verify_shm_key_store_it put together from all hosts and the user.  Keys *)
(* are the 32-bit values of an int, cut down to 0 .. MaxKey; MaxKey stands *)
(* for the value with all bits set, which is the int -1.                   *)
(***************************************************************************)
EXTENDS Integers, FiniteSets

CONSTANTS
    Clients,     \* constructor calls and the client each leaves behind
    Clusters,    \* the aliases
    MaxKey,      \* the largest key
    Requests,    \* the keys that configurations ask for, the default included
    NoEntry,     \* no cluster, or a cluster that shm_key_list does not hold
    Serialized   \* whether requests run one at a time

Keys == 0 .. MaxKey

\* The value of unique_shm_key that means "not found".
MinusOne == MaxKey

\* 0xA5000000, the default key and the first value of the counter.
DefaultKey == 0

ASSUME KeysAssumption ==
    /\ MaxKey \in Nat \ {0}
    /\ Requests \subseteq Keys
    /\ NoEntry \notin Keys /\ NoEntry \notin Clusters
    /\ Serialized \in BOOLEAN

VARIABLES
    shm_key_list, shm_key_counter,
    \* per client: where its constructor is, its cluster, config.shm_key and
    \* the local unique_shm_key
    pc, cluster, shm_key, unique_shm_key

vars == <<shm_key_list, shm_key_counter, pc, cluster, shm_key, unique_shm_key>>

TypeOK ==
    /\ shm_key_list \in [Clusters -> Keys \cup {NoEntry}]
    /\ shm_key_counter \in Keys
    /\ pc \in [Clients -> {"none", "find", "test", "generate", "take", "store", "open"}]
    /\ cluster \in [Clients -> Clusters \cup {NoEntry}]
    /\ shm_key \in [Clients -> Keys]
    /\ unique_shm_key \in [Clients -> Keys]

Init ==
    /\ shm_key_list = [a \in Clusters |-> NoEntry]
    /\ shm_key_counter = DefaultKey
    /\ pc = [c \in Clients |-> "none"]
    /\ cluster = [c \in Clients |-> NoEntry]
    /\ shm_key = [c \in Clients |-> DefaultKey]
    /\ unique_shm_key = [c \in Clients |-> MinusOne]

\* No constructor is between its first and its last step.
Outside(c) == pc[c] \in {"none", "open"}

Goto(c, step) == pc' = [pc EXCEPT ![c] = step]

\* Mutant: every key is taken to be free.
UniqueAlways(key) == TRUE

\* is_unique_shm_key: no cluster of the list has the key.
IsUniqueShmKey(key) == \A a \in Clusters : shm_key_list[a] # key

\* int addition on the counter.
Succ(key) == (key + 1) % (MaxKey + 1)

\* Mutant: an entry of the list is not looked at.
MissingEntryAlways(a) == TRUE

\* The lookup leaves unique_shm_key at -1: there is no entry, or its key is -1.
MissingEntry(a) == shm_key_list[a] \in {NoEntry, MinusOne}

-----------------------------------------------------------------------------
\* A constructor has converted its hosts and user; check_and_configure_shm has
\* set config.shm_key to the default or to the key of the "shm" array.
Configure(c, a, key) ==
    /\ pc[c] = "none"
    /\ Serialized => \A d \in Clients : Outside(d)
    /\ cluster' = [cluster EXCEPT ![c] = a]
    /\ shm_key' = [shm_key EXCEPT ![c] = key]
    /\ Goto(c, "find")
    /\ UNCHANGED <<shm_key_list, shm_key_counter, unique_shm_key>>

\* The cluster has a key, and it is not -1: config.shm_key stays as requested.
Found(c) ==
    /\ pc[c] = "find"
    /\ ~MissingEntry(cluster[c])
    /\ Goto(c, "open")
    /\ UNCHANGED <<shm_key_list, shm_key_counter, cluster, shm_key, unique_shm_key>>

NotFound(c) ==
    /\ pc[c] = "find"
    /\ MissingEntry(cluster[c])
    /\ Goto(c, "test")
    /\ UNCHANGED <<shm_key_list, shm_key_counter, cluster, shm_key, unique_shm_key>>

\* The requested key is free, or one has to be generated.
TestRequested(c) ==
    /\ pc[c] = "test"
    /\ IF IsUniqueShmKey(shm_key[c])
       THEN /\ unique_shm_key' = [unique_shm_key EXCEPT ![c] = shm_key[c]]
            /\ Goto(c, "store")
       ELSE /\ Goto(c, "generate")
            /\ UNCHANGED unique_shm_key
    /\ UNCHANGED <<shm_key_list, shm_key_counter, cluster, shm_key>>

\* Mutant: the counter stays on a key that is in use.
GenerateSkipStuck(c) ==
    /\ pc[c] = "generate"
    /\ ~IsUniqueShmKey(shm_key_counter)
    /\ UNCHANGED vars

\* generate_unique_shm_key: the counter moves past a key that is in use.
GenerateSkip(c) ==
    /\ pc[c] = "generate"
    /\ ~IsUniqueShmKey(shm_key_counter)
    /\ shm_key_counter' = Succ(shm_key_counter)
    /\ UNCHANGED <<shm_key_list, pc, cluster, shm_key, unique_shm_key>>

GenerateTest(c) ==
    /\ pc[c] = "generate"
    /\ IsUniqueShmKey(shm_key_counter)
    /\ unique_shm_key' = [unique_shm_key EXCEPT ![c] = shm_key_counter]
    /\ Goto(c, "take")
    /\ UNCHANGED <<shm_key_list, shm_key_counter, cluster, shm_key>>

\* The counter is read again to take the key and to increment it; the value is
\* the tested one or what another thread has stored since.
GenerateTake(c) ==
    /\ pc[c] = "take"
    /\ \E key, base \in {unique_shm_key[c], shm_key_counter} :
          /\ unique_shm_key' = [unique_shm_key EXCEPT ![c] = key]
          /\ shm_key_counter' = Succ(base)
    /\ Goto(c, "store")
    /\ UNCHANGED <<shm_key_list, cluster, shm_key>>

\* The key goes into the list and into the configuration.
Store(c) ==
    /\ pc[c] = "store"
    /\ shm_key_list' = [shm_key_list EXCEPT ![cluster[c]] = unique_shm_key[c]]
    /\ shm_key' = [shm_key EXCEPT ![c] = unique_shm_key[c]]
    /\ unique_shm_key' = [unique_shm_key EXCEPT ![c] = MinusOne]
    /\ Goto(c, "open")
    /\ UNCHANGED <<shm_key_counter, cluster>>

\* The client is gone.  Its cluster keeps its key: nothing calls free_shm_key.
Gone(c) ==
    /\ pc[c] = "open"
    /\ Goto(c, "none")
    /\ cluster' = [cluster EXCEPT ![c] = NoEntry]
    /\ shm_key' = [shm_key EXCEPT ![c] = DefaultKey]
    /\ UNCHANGED <<shm_key_list, shm_key_counter, unique_shm_key>>

-----------------------------------------------------------------------------
Verify(c) ==
    \/ Found(c) \/ NotFound(c) \/ TestRequested(c)
    \/ GenerateSkip(c) \/ GenerateTest(c) \/ GenerateTake(c) \/ Store(c)

Next ==
    \E c \in Clients :
        \/ \E a \in Clusters, key \in Requests : Configure(c, a, key)
        \/ Verify(c)
        \/ Gone(c)

Spec == Init /\ [][Next]_vars

\* A constructor that has started keeps running.
FairSpec == Spec /\ \A c \in Clients : WF_vars(Verify(c))

-----------------------------------------------------------------------------
(* Properties *)

\* "generate unique shm_key for the cluster": two clusters of the list never
\* have the same key.
DistinctKeys ==
    \A a, b \in Clusters :
        (a # b /\ shm_key_list[a] # NoEntry) => shm_key_list[a] # shm_key_list[b]

\* A cluster is given a key when it has none, and given another only when its key
\* is -1, which the lookup cannot tell from a missing entry: the client that was
\* given -1 is then left alone on its segment.  Every other key is kept, and since
\* the second key is not -1 again, a cluster's key changes at most once.
OnlyMinusOneReplaced ==
    [][\A a \in Clusters : shm_key_list'[a] # shm_key_list[a] =>
            /\ shm_key_list[a] \in {NoEntry, MinusOne}
            /\ shm_key_list'[a] \in Keys]_vars

\* Every constructor leaves verify_shm_key_store_it, the loop of
\* generate_unique_shm_key included, as long as there are more keys than
\* clusters, one of which can hold the key -1 that the lookup never finds.
VerifyReturns == \A c \in Clients : ~Outside(c) ~> Outside(c)
=============================================================================
