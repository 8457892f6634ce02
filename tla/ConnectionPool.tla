--------------------------- MODULE ConnectionPool ---------------------------
(***************************************************************************)
(* The connection lifecycle of the Aerospike HHVM extension                *)
(* (main/ext_aerospike.cpp): __construct, close, reconnect and sweep of     *)
(* the PHP objects, the process-wide persistent_list behind                *)
(* connection_mutex, and moduleShutdown.                                   *)
(*                                                                         *)
(* Every PHP object lives in one request thread, and different requests    *)
(* run concurrently; an element of Objects is an object together with the  *)
(* thread that uses it.  After its sweep it stands for a fresh object of a *)
(* later request.  A step is one access to shared memory or one critical   *)
(* section.  A section that only writes variables that all other code      *)
(* accesses under the lock is one step (lock, body, unlock); the sections  *)
(* that write ref_php_object, which is also accessed without the lock, are *)
(* two (lock and load; store and unlock).                                  *)
(***************************************************************************)
EXTENDS Integers, Sequences, FiniteSets

CONSTANTS
    Objects,          \* PHP Aerospike objects
    Aliases,          \* the "address:port" keys of persistent_list
    Refs,             \* memory blocks malloc can hand out as aerospike_ref
    Configs,          \* the host lists that callers pass (sequences of aliases)
    Null,             \* a null pointer
    Absent,           \* a key that persistent_list does not hold
    Shutdown,         \* the thread that runs moduleShutdown
    ReconstructModes, \* persistent arguments of a second __construct call
    ConnectMayFail,   \* whether aerospike_connect can fail
    Serialized,       \* whether requests run one at a time
    MaxCount          \* bound: no constructor starts while a counter exceeds it

ASSUME NullAssumption ==
    /\ Null \notin Objects /\ Null \notin Refs
    /\ Absent \notin Refs /\ Absent # Null
    /\ Shutdown \notin Objects /\ Shutdown # Null

\* With an empty hosts array the code goes on: verify_shm_key_store_it with an
\* empty buffer, configure_connection with a std::string made of a NULL alias.
\* That is undefined, and there is no state to go on from.
ASSUME ConfigsAssumption == Configs \subseteq Seq(Aliases) \ {<<>>}

ASSUME AliasesAssumption == IsFiniteSet(Aliases)

ASSUME ObjectsAssumption ==
    /\ IsFiniteSet(Objects)
    /\ "free" \notin Objects /\ "shared" \notin Objects

ASSUME ModesAssumption ==
    /\ ReconstructModes \subseteq BOOLEAN
    /\ ConnectMayFail \in BOOLEAN
    /\ Serialized \in BOOLEAN
    /\ MaxCount \in Nat

VARIABLES
    \* connection_mutex: the holders of the read lock, the holder of the write lock
    readers, writer,
    \* the hash table, and for every memory block whether it is allocated, its
    \* two counters and whether as_p->cluster is set
    persistent_list, live, ref_php_object, ref_host_entry, cluster,
    \* the fields of the PHP objects
    as_ref_p, is_connected, is_persistent, latest_error,
    \* the locals of the call that each object is executing
    pc, hosts, iter_hosts, matched_host_id, loaded,
    \* "up", "closing" (in moduleShutdown) or "down", and the entries left to visit
    module, unvisited

lock   == <<readers, writer>>
refs   == <<live, ref_php_object, ref_host_entry, cluster>>
fields == <<as_ref_p, is_connected, is_persistent, latest_error>>
locals == <<hosts, iter_hosts, matched_host_id, loaded>>
main   == <<module, unvisited>>
vars   == <<lock, persistent_list, refs, fields, pc, locals, main>>

\* The error codes: AEROSPIKE_OK, ERR_PARAM, ERR_CLIENT and ERR_CLUSTER.
Errors == {"OK", "PARAM", "CLIENT", "CLUSTER"}

Steps == {"idle", "scan", "read", "match", "create", "publish", "hosts",
          "check", "connect", "undo", "undo_store", "close", "reconnect",
          "sweep"}

TypeOK ==
    /\ readers \subseteq Objects
    /\ writer \in Objects \cup {Null, Shutdown}
    /\ persistent_list \in [Aliases -> Refs \cup {Null, Absent}]
    /\ live \subseteq Refs
    /\ ref_php_object \in [Refs -> Int]
    /\ ref_host_entry \in [Refs -> Nat]
    /\ cluster \in [Refs -> BOOLEAN]
    /\ as_ref_p \in [Objects -> Refs \cup {Null}]
    /\ is_connected \in [Objects -> BOOLEAN]
    /\ is_persistent \in [Objects -> BOOLEAN]
    /\ latest_error \in [Objects -> Errors]
    /\ pc \in [Objects -> Steps]
    /\ hosts \in [Objects -> Configs \cup {<<>>}]
    /\ iter_hosts \in [Objects -> Nat]
    /\ matched_host_id \in [Objects -> Nat]
    /\ loaded \in [Objects -> Int]
    /\ module \in {"up", "closing", "down"}
    /\ unvisited \subseteq Aliases

Init ==
    /\ readers = {}
    /\ writer = Null
    /\ persistent_list = [a \in Aliases |-> Absent]
    /\ live = {}
    /\ ref_php_object = [r \in Refs |-> 0]
    /\ ref_host_entry = [r \in Refs |-> 0]
    /\ cluster = [r \in Refs |-> FALSE]
    /\ as_ref_p = [o \in Objects |-> Null]
    /\ is_connected = [o \in Objects |-> FALSE]
    /\ is_persistent = [o \in Objects |-> FALSE]
    /\ latest_error = [o \in Objects |-> "OK"]
    /\ pc = [o \in Objects |-> "idle"]
    /\ hosts = [o \in Objects |-> <<>>]
    /\ iter_hosts = [o \in Objects |-> 0]
    /\ matched_host_id = [o \in Objects |-> 0]
    /\ loaded = [o \in Objects |-> 0]
    /\ module = "up"
    /\ unvisited = {}

-----------------------------------------------------------------------------
(* Helpers *)

\* The object can start a call.  With Serialized, no other call is in progress.
CanCall(o) ==
    /\ module = "up"
    /\ pc[o] = "idle"
    /\ Serialized => \A q \in Objects : pc[q] = "idle"

\* The counters of an entry can drift from what they count without limit; the
\* model stops constructing objects when one has drifted by MaxCount.
WithinBounds ==
    \A r \in live : /\ ref_host_entry[r] <= MaxCount
                   /\ ref_php_object[r] \in -MaxCount .. MaxCount

\* pthread_rwlock_wrlock would not block.
WriteLockFree == readers = {} /\ writer = Null

\* The call returns: setError records its error and its locals are gone.
Return(o, error) ==
    /\ pc' = [pc EXCEPT ![o] = "idle"]
    /\ latest_error' = [latest_error EXCEPT ![o] = error]
    /\ hosts' = [hosts EXCEPT ![o] = <<>>]
    /\ iter_hosts' = [iter_hosts EXCEPT ![o] = 0]
    /\ matched_host_id' = [matched_host_id EXCEPT ![o] = 0]
    /\ loaded' = [loaded EXCEPT ![o] = 0]

Goto(o, step) == pc' = [pc EXCEPT ![o] = step]

Alias(o) == hosts[o][iter_hosts[o]]

\* Mutant: the hosts before the matched one are skipped too, as if the lookup
\* that passed them by had pointed them to the entry.
NextHostPastMatch(i, matched) == IF i <= matched THEN matched + 1 ELSE i

\* The host that iterate_hosts_add_entry visits at or after i: all but the
\* matched one.
NextHost(i, matched) == IF i = matched THEN i + 1 ELSE i

\* Continue iterate_hosts_add_entry with host i, or leave it after the last one.
VisitHost(o, i, matched) ==
    /\ iter_hosts' = [iter_hosts EXCEPT ![o] = i]
    /\ matched_host_id' = [matched_host_id EXCEPT ![o] = matched]
    /\ Goto(o, IF i > Len(hosts[o]) THEN "check" ELSE "hosts")

\* pthread_rwlock_unlock of a reader.  Mutant: it is forgotten.
ReadUnlockMissing(o) == UNCHANGED readers
ReadUnlock(o) == readers' = readers \ {o}

\* ref_host_entry of a new entry: for a persistent object it is incremented
\* before the entry is published.  Mutants: the memory is not initialised; the
\* increment is missing.
NewHostEntriesGarbage(o) == -1
NewHostEntriesUncounted(o) == 0
NewHostEntries(o) == IF is_persistent[o] THEN 1 ELSE 0

\* ref_host_entry++.  Mutant: it is missing.
CountHostEntryMissing(r) == UNCHANGED ref_host_entry
CountHostEntry(r) == ref_host_entry' = [ref_host_entry EXCEPT ![r] = @ + 1]

\* The test of __construct for connecting.  Mutants: no test; off by one.
FirstUserAlways(o) == TRUE
FirstUserBelow(o) == ref_php_object[as_ref_p[o]] < 1
FirstUser(o) == ref_php_object[as_ref_p[o]] <= 1

\* close has something to close, reconnect something to reconnect.
Closable(o) == is_connected[o] /\ ref_php_object[as_ref_p[o]] >= 1
Reopenable(o) == ~is_connected[o] /\ ref_php_object[as_ref_p[o]] < 1

\* close closes the handle itself.  Mutant: for persistent objects as well.
OwnsHandleAlways(o) == TRUE
OwnsHandle(o) == ~is_persistent[o]

\* close resets the flag.  Mutant: it does not.
DisconnectMissing(o) == UNCHANGED is_connected
Disconnect(o) == is_connected' = [is_connected EXCEPT ![o] = FALSE]

\* aerospike_close, aerospike_destroy and free.
Release(r) ==
    /\ live' = live \ {r}
    /\ cluster' = [cluster EXCEPT ![r] = FALSE]

\* sweep releases the handle of a non-persistent object.  Mutant: of every object.
SweepHandleAlways(o) == Release(as_ref_p[o])
SweepHandle(o) ==
    IF is_persistent[o] THEN UNCHANGED <<live, cluster>> ELSE Release(as_ref_p[o])

-----------------------------------------------------------------------------
(* Aerospike::__construct *)

\* The entry of __construct.  is_persistent is assigned before the object is
\* looked at, so it changes even in a call that is refused.
Construct(o, config, persistent) ==
    /\ CanCall(o)
    /\ WithinBounds
    /\ as_ref_p[o] = Null
    /\ is_persistent' = [is_persistent EXCEPT ![o] = persistent]
    /\ hosts' = [hosts EXCEPT ![o] = config]
    /\ iter_hosts' = [iter_hosts EXCEPT ![o] = 1]
    /\ Goto(o, IF persistent THEN "scan" ELSE "create")
    /\ UNCHANGED <<lock, persistent_list, refs, as_ref_p, is_connected,
                   latest_error, matched_host_id, loaded, main>>

\* php_config_to_as_config or set_global_defaults refuses the arguments.
ConstructBadConfig(o, persistent) ==
    /\ CanCall(o)
    /\ as_ref_p[o] = Null
    /\ is_persistent' = [is_persistent EXCEPT ![o] = persistent]
    /\ Return(o, "PARAM")
    /\ UNCHANGED <<lock, persistent_list, refs, as_ref_p, is_connected, main>>

\* A second __construct on the same object: "Connection already exists!".
ConstructAgain(o, persistent) ==
    /\ CanCall(o)
    /\ as_ref_p[o] # Null
    /\ is_persistent' = [is_persistent EXCEPT ![o] = persistent]
    /\ Return(o, "CLIENT")
    /\ UNCHANGED <<lock, persistent_list, refs, as_ref_p, is_connected, main>>

\* configure_connection: take the read lock to look up the current host.
ScanLock(o) ==
    /\ pc[o] = "scan"
    /\ writer = Null
    /\ readers' = readers \cup {o}
    /\ Goto(o, "read")
    /\ UNCHANGED <<writer, persistent_list, refs, fields, locals, main>>

\* The lookup finds an entry: the object adopts it and the lock is released.
ScanHit(o) ==
    /\ pc[o] = "read"
    /\ persistent_list[Alias(o)] \in Refs
    /\ as_ref_p' = [as_ref_p EXCEPT ![o] = persistent_list[Alias(o)]]
    /\ is_connected' = [is_connected EXCEPT ![o] = TRUE]
    /\ ReadUnlock(o)
    /\ Goto(o, "match")
    /\ UNCHANGED <<writer, persistent_list, refs, is_persistent, latest_error,
                   locals, main>>

\* The lookup finds none.  operator[] has inserted a null entry for an absent
\* key.  Try the next host, or go on to create an entry.
ScanMiss(o) ==
    /\ pc[o] = "read"
    /\ persistent_list[Alias(o)] \notin Refs
    /\ persistent_list' = [persistent_list EXCEPT ![Alias(o)] = Null]
    /\ ReadUnlock(o)
    /\ iter_hosts' = [iter_hosts EXCEPT ![o] = @ + 1]
    /\ Goto(o, IF iter_hosts[o] < Len(hosts[o]) THEN "scan" ELSE "create")
    /\ UNCHANGED <<writer, refs, fields, hosts, matched_host_id, loaded, main>>

\* wrlock; load ref_php_object.  The first half of the four locked updates.
LockAndLoad(o) ==
    /\ pc[o] \in {"match", "close", "reconnect", "sweep"}
    /\ WriteLockFree
    /\ writer' = o
    /\ loaded' = [loaded EXCEPT ![o] = ref_php_object[as_ref_p[o]]]
    /\ UNCHANGED <<readers, persistent_list, refs, fields, pc, hosts,
                   iter_hosts, matched_host_id, main>>

\* Mutant: the counter is stored as it was loaded.
StoreAndUnlockLost(o, delta) ==
    /\ writer = o
    /\ writer' = Null
    /\ UNCHANGED ref_php_object

\* Store the counter changed by delta; unlock.
StoreAndUnlock(o, delta) ==
    /\ writer = o
    /\ writer' = Null
    /\ ref_php_object' = [ref_php_object EXCEPT ![as_ref_p[o]] = loaded[o] + delta]

\* ref_php_object++ for the matched entry; the other hosts follow.
MatchStore(o) ==
    /\ pc[o] = "match"
    /\ StoreAndUnlock(o, 1)
    /\ VisitHost(o, NextHost(1, iter_hosts[o]), iter_hosts[o])
    /\ loaded' = [loaded EXCEPT ![o] = 0]
    /\ UNCHANGED <<readers, persistent_list, live, ref_host_entry, cluster,
                   fields, hosts, main>>

\* create_new_host_entry: malloc and aerospike_new.  For a persistent object
\* ref_host_entry is incremented while the entry is still private.
CreateHostEntry(o, r) ==
    /\ pc[o] = "create"
    /\ r \in Refs \ live
    /\ live' = live \cup {r}
    /\ as_ref_p' = [as_ref_p EXCEPT ![o] = r]
    /\ ref_php_object' = [ref_php_object EXCEPT ![r] = 1]
    /\ ref_host_entry' = [ref_host_entry EXCEPT ![r] = NewHostEntries(o)]
    /\ cluster' = [cluster EXCEPT ![r] = FALSE]
    /\ Goto(o, IF is_persistent[o] THEN "publish" ELSE "check")
    /\ UNCHANGED <<lock, persistent_list, is_connected, is_persistent,
                   latest_error, locals, main>>

\* create_new_host_entry: malloc fails.
CreateFails(o) ==
    /\ pc[o] = "create"
    /\ live = Refs
    /\ Return(o, "CLIENT")
    /\ UNCHANGED <<lock, persistent_list, refs, as_ref_p, is_connected,
                   is_persistent, main>>

\* The new entry becomes visible under the first host, whatever is there now.
Publish(o) ==
    /\ pc[o] = "publish"
    /\ WriteLockFree
    /\ persistent_list' = [persistent_list EXCEPT ![hosts[o][1]] = as_ref_p[o]]
    /\ VisitHost(o, NextHost(1, 1), 1)
    /\ UNCHANGED <<lock, refs, fields, hosts, loaded, main>>

\* One round of iterate_hosts_add_entry.
AddHostEntry(o) ==
    /\ pc[o] = "hosts"
    /\ WriteLockFree
    /\ CountHostEntry(as_ref_p[o])
    /\ persistent_list' = [persistent_list EXCEPT ![Alias(o)] = as_ref_p[o]]
    /\ VisitHost(o, NextHost(iter_hosts[o] + 1, matched_host_id[o]), matched_host_id[o])
    /\ UNCHANGED <<lock, live, ref_php_object, cluster, fields, hosts, loaded, main>>

\* The unlocked test ref_php_object <= 1 decides whether to connect.
CheckFirst(o) ==
    /\ pc[o] = "check"
    /\ FirstUser(o)
    /\ Goto(o, "connect")
    /\ UNCHANGED <<lock, persistent_list, refs, fields, locals, main>>

CheckShared(o) ==
    /\ pc[o] = "check"
    /\ ~FirstUser(o)
    /\ Return(o, "OK")
    /\ UNCHANGED <<lock, persistent_list, refs, as_ref_p, is_connected,
                   is_persistent, main>>

\* aerospike_connect succeeds; on a handle that has a cluster it does nothing.
ConnectOK(o) ==
    /\ pc[o] = "connect"
    /\ cluster' = [cluster EXCEPT ![as_ref_p[o]] = TRUE]
    /\ is_connected' = [is_connected EXCEPT ![o] = TRUE]
    /\ Return(o, "OK")
    /\ UNCHANGED <<lock, persistent_list, live, ref_php_object, ref_host_entry,
                   as_ref_p, is_persistent, main>>

\* aerospike_connect fails; ref_php_object-- follows, outside the lock.
ConnectFails(o) ==
    /\ pc[o] = "connect"
    /\ ConnectMayFail
    /\ ~cluster[as_ref_p[o]]
    /\ Goto(o, "undo")
    /\ UNCHANGED <<lock, persistent_list, refs, fields, locals, main>>

UndoLoad(o) ==
    /\ pc[o] = "undo"
    /\ loaded' = [loaded EXCEPT ![o] = ref_php_object[as_ref_p[o]]]
    /\ Goto(o, "undo_store")
    /\ UNCHANGED <<lock, persistent_list, refs, fields, hosts, iter_hosts,
                   matched_host_id, main>>

UndoStore(o) ==
    /\ pc[o] = "undo_store"
    /\ ref_php_object' = [ref_php_object EXCEPT ![as_ref_p[o]] = loaded[o] - 1]
    /\ Return(o, "CLUSTER")
    /\ UNCHANGED <<lock, persistent_list, live, ref_host_entry, cluster,
                   as_ref_p, is_connected, is_persistent, main>>

-----------------------------------------------------------------------------
(* Aerospike::close *)

CloseRefused(o) ==
    /\ CanCall(o)
    /\ \/ as_ref_p[o] = Null /\ Return(o, "CLIENT")
       \/ /\ as_ref_p[o] # Null
          /\ ~Closable(o)
          /\ Return(o, "CLIENT")
    /\ UNCHANGED <<lock, persistent_list, refs, as_ref_p, is_connected,
                   is_persistent, main>>

ClosePrivate(o) ==
    /\ CanCall(o)
    /\ as_ref_p[o] # Null
    /\ Closable(o) /\ OwnsHandle(o)
    /\ cluster' = [cluster EXCEPT ![as_ref_p[o]] = FALSE]
    /\ ref_php_object' = [ref_php_object EXCEPT ![as_ref_p[o]] = 0]
    /\ Disconnect(o)
    /\ Return(o, "OK")
    /\ UNCHANGED <<lock, persistent_list, live, ref_host_entry, as_ref_p,
                   is_persistent, main>>

ClosePersistent(o) ==
    /\ CanCall(o)
    /\ as_ref_p[o] # Null
    /\ Closable(o) /\ ~OwnsHandle(o)
    /\ Goto(o, "close")
    /\ UNCHANGED <<lock, persistent_list, refs, fields, locals, main>>

CloseStore(o) ==
    /\ pc[o] = "close"
    /\ StoreAndUnlock(o, -1)
    /\ Disconnect(o)
    /\ Return(o, "OK")
    /\ UNCHANGED <<readers, persistent_list, live, ref_host_entry, cluster,
                   as_ref_p, is_persistent, main>>

-----------------------------------------------------------------------------
(* Aerospike::reconnect *)

ReconnectRefused(o) ==
    /\ CanCall(o)
    /\ \/ as_ref_p[o] = Null /\ Return(o, "CLIENT")
       \/ /\ as_ref_p[o] # Null
          /\ ~Reopenable(o)
          /\ Return(o, "CLIENT")
       \/ /\ as_ref_p[o] # Null
          /\ Reopenable(o) /\ is_persistent[o] /\ ~cluster[as_ref_p[o]]
          /\ Return(o, "CLIENT")
       \/ /\ as_ref_p[o] # Null
          /\ Reopenable(o) /\ ~is_persistent[o]
          /\ ConnectMayFail /\ ~cluster[as_ref_p[o]]
          /\ Return(o, "CLUSTER")
    /\ UNCHANGED <<lock, persistent_list, refs, as_ref_p, is_connected,
                   is_persistent, main>>

ReconnectPrivate(o) ==
    /\ CanCall(o)
    /\ as_ref_p[o] # Null
    /\ Reopenable(o) /\ ~is_persistent[o]
    /\ cluster' = [cluster EXCEPT ![as_ref_p[o]] = TRUE]
    /\ ref_php_object' = [ref_php_object EXCEPT ![as_ref_p[o]] = 1]
    /\ is_connected' = [is_connected EXCEPT ![o] = TRUE]
    /\ Return(o, "OK")
    /\ UNCHANGED <<lock, persistent_list, live, ref_host_entry, as_ref_p,
                   is_persistent, main>>

ReconnectPersistent(o) ==
    /\ CanCall(o)
    /\ as_ref_p[o] # Null
    /\ Reopenable(o) /\ is_persistent[o] /\ cluster[as_ref_p[o]]
    /\ Goto(o, "reconnect")
    /\ UNCHANGED <<lock, persistent_list, refs, fields, locals, main>>

ReconnectStore(o) ==
    /\ pc[o] = "reconnect"
    /\ StoreAndUnlock(o, 1)
    /\ is_connected' = [is_connected EXCEPT ![o] = TRUE]
    /\ Return(o, "OK")
    /\ UNCHANGED <<readers, persistent_list, live, ref_host_entry, cluster,
                   as_ref_p, is_persistent, main>>

-----------------------------------------------------------------------------
(* Aerospike::sweep, at the end of the request or from the destructor *)

\* The object is gone; the next one starts with the initial field values.
Gone(o) ==
    /\ as_ref_p' = [as_ref_p EXCEPT ![o] = Null]
    /\ is_connected' = [is_connected EXCEPT ![o] = FALSE]
    /\ is_persistent' = [is_persistent EXCEPT ![o] = FALSE]
    /\ Return(o, "OK")

SweepConnected(o) ==
    /\ CanCall(o)
    /\ as_ref_p[o] # Null
    /\ is_connected[o]
    /\ Goto(o, "sweep")
    /\ UNCHANGED <<lock, persistent_list, refs, fields, locals, main>>

SweepStore(o) ==
    /\ pc[o] = "sweep"
    /\ StoreAndUnlock(o, -1)
    /\ SweepHandle(o)
    /\ Gone(o)
    /\ UNCHANGED <<readers, persistent_list, ref_host_entry, main>>

SweepDisconnected(o) ==
    /\ CanCall(o)
    /\ as_ref_p[o] # Null
    /\ ~is_connected[o]
    /\ SweepHandle(o)
    /\ Gone(o)
    /\ UNCHANGED <<lock, persistent_list, ref_php_object, ref_host_entry, main>>

-----------------------------------------------------------------------------
(* AerospikeExtension::moduleShutdown, when the last request has ended *)

ShutdownStart ==
    /\ module = "up"
    /\ \A o \in Objects : pc[o] = "idle" /\ as_ref_p[o] = Null
    /\ WriteLockFree
    /\ writer' = Shutdown
    /\ module' = "closing"
    /\ unvisited' = {a \in Aliases : persistent_list[a] # Absent}
    /\ UNCHANGED <<readers, persistent_list, refs, fields, pc, locals>>

\* The test of moduleShutdown for the last entry.  Mutant: off by one.
LastEntryBelow(r) == ref_host_entry[r] < 1
LastEntry(r) == ref_host_entry[r] <= 1

\* Advance the iterator.  Mutant: not past a null entry.
AdvancePastLive(a) ==
    unvisited' = IF persistent_list[a] \in Refs THEN unvisited \ {a} ELSE unvisited
AdvancePast(a) == unvisited' = unvisited \ {a}

\* An entry that other aliases share is counted down, the last one released.
\* The order in which an unordered_map is traversed is not specified.
ShutdownVisit(a) ==
    /\ module = "closing"
    /\ a \in unvisited
    /\ AdvancePast(a)
    /\ LET r == persistent_list[a] IN
       \/ /\ r \notin Refs
          /\ UNCHANGED refs
       \/ /\ r \in Refs /\ ~LastEntry(r)
          /\ ref_host_entry' = [ref_host_entry EXCEPT ![r] = @ - 1]
          /\ UNCHANGED <<live, ref_php_object, cluster>>
       \/ /\ r \in Refs /\ LastEntry(r)
          /\ ref_host_entry' = [ref_host_entry EXCEPT ![r] = 0]
          /\ Release(r)
          /\ UNCHANGED ref_php_object
    /\ UNCHANGED <<lock, persistent_list, fields, pc, locals, module>>

\* The table is emptied.  The closing call is a second wrlock, not an unlock.
ShutdownEnd ==
    /\ module = "closing"
    /\ unvisited = {}
    /\ persistent_list' = [a \in Aliases |-> Absent]
    /\ module' = "down"
    /\ UNCHANGED <<lock, refs, fields, pc, locals, unvisited>>

\* The process has ended.
Ended == module = "down" /\ UNCHANGED vars

-----------------------------------------------------------------------------
ConstructStep(o) ==
    \/ \E config \in Configs, p \in BOOLEAN : Construct(o, config, p)
    \/ \E p \in BOOLEAN : ConstructBadConfig(o, p)
    \/ \E p \in ReconstructModes : ConstructAgain(o, p)
    \/ ScanLock(o) \/ ScanHit(o) \/ ScanMiss(o) \/ MatchStore(o)
    \/ \E r \in Refs : CreateHostEntry(o, r)
    \/ CreateFails(o) \/ Publish(o) \/ AddHostEntry(o)
    \/ CheckFirst(o) \/ CheckShared(o)
    \/ ConnectOK(o) \/ ConnectFails(o) \/ UndoLoad(o) \/ UndoStore(o)

CloseStep(o) ==
    CloseRefused(o) \/ ClosePrivate(o) \/ ClosePersistent(o) \/ CloseStore(o)

ReconnectStep(o) ==
    ReconnectRefused(o) \/ ReconnectPrivate(o) \/ ReconnectPersistent(o)
    \/ ReconnectStore(o)

SweepStep(o) == SweepConnected(o) \/ SweepStore(o) \/ SweepDisconnected(o)

ShutdownStep ==
    ShutdownStart \/ (\E a \in Aliases : ShutdownVisit(a)) \/ ShutdownEnd

Next ==
    \/ \E o \in Objects : ConstructStep(o) \/ LockAndLoad(o) \/ CloseStep(o)
                          \/ ReconnectStep(o) \/ SweepStep(o)
    \/ ShutdownStep
    \/ Ended

Spec == Init /\ [][Next]_vars

\* Steps of a call in progress that do not wait for connection_mutex, and those
\* that do.
Advance(o) ==
    \/ ScanHit(o) \/ ScanMiss(o) \/ MatchStore(o) \/ CreateFails(o)
    \/ (\E r \in Refs : CreateHostEntry(o, r))
    \/ CheckFirst(o) \/ CheckShared(o) \/ ConnectOK(o) \/ ConnectFails(o)
    \/ UndoLoad(o) \/ UndoStore(o) \/ CloseStore(o) \/ ReconnectStore(o)
    \/ SweepStore(o)

Acquire(o) == ScanLock(o) \/ LockAndLoad(o) \/ Publish(o) \/ AddHostEntry(o)

\* A thread inside a call keeps running (weak fairness), and a thread that waits
\* for the lock gets it if the lock is free again and again (strong fairness).
\* Nothing makes a caller start another call.
Fairness ==
    /\ \A o \in Objects : WF_vars(Advance(o)) /\ SF_vars(Acquire(o))
    /\ WF_vars(\E a \in Aliases : ShutdownVisit(a))
    /\ WF_vars(ShutdownEnd)

FairSpec == Spec /\ Fairness

-----------------------------------------------------------------------------
(* Properties *)

\* The refinement mapping: an aerospike_ref that some alias was pointed to is
\* shared, any other belongs to the object that points to it.
FreeHandle == "free"
SharedHandle == "shared"

Owner(r) ==
    IF r \notin live THEN FreeHandle
    ELSE IF ref_host_entry[r] > 0 THEN SharedHandle
    ELSE CHOOSE o \in Objects : as_ref_p[o] = r

Handles == INSTANCE HandleOwnership WITH
    Handles <- Refs, Clients <- Objects, Free <- FreeHandle, Shared <- SharedHandle,
    owner <- [r \in Refs |-> Owner(r)], open <- cluster, stopped <- (module # "up")

\* The lifecycle keeps the ownership discipline of HandleOwnership: handles never
\* change hands between objects, a shared one is never closed or taken back
\* before moduleShutdown, which starts when no private one is left.
ImplementsOwnership == Handles!Spec

\* The table entries that moduleShutdown has not dealt with yet.
Entries(r) ==
    {a \in Aliases : persistent_list[a] = r /\ (module = "up" \/ a \in unvisited)}

\* No use after free: the entry an object points to, and every entry that a
\* lookup or moduleShutdown can still reach, is allocated.
NoDangling ==
    /\ \A o \in Objects : as_ref_p[o] # Null => as_ref_p[o] \in live
    /\ \A r \in Refs : Entries(r) # {} => r \in live

\* ref_host_entry is never smaller than the number of table entries that share
\* the aerospike_ref, although aliases are re-pointed by later constructors in
\* any interleaving: moduleShutdown cannot free an entry that it visits again.
HostEntriesCovered ==
    \A r \in Refs : Cardinality(Entries(r)) <= ref_host_entry[r]

\* isConnected of a non-persistent object between two calls tells the truth,
\* and its counter agrees, whatever mix of failed connects, close and reconnect
\* came before.
PrivateStateAgrees ==
    \A o \in Objects : (pc[o] = "idle" /\ as_ref_p[o] # Null /\ ~is_persistent[o]) =>
        /\ is_connected[o] = cluster[as_ref_p[o]]
        /\ ref_php_object[as_ref_p[o]] = IF is_connected[o] THEN 1 ELSE 0

\* A handle is closed only when no other object that believes to be connected
\* uses it, be it by close, which is documented for "instances created with
\* non-persistent connections" only (doc/aerospike_construct.md:52-54), or by
\* sweep, "when ref count reaches 0" (the comment above it).
ClosedOnlyByLastUser ==
    [][\A r \in Refs : cluster[r] /\ ~cluster'[r] =>
            Cardinality({o \in Objects : as_ref_p[o] = r /\ is_connected[o]}) <= 1]_vars

\* A persistent handle, once connected, stays connected until the module is
\* shut down: close, reconnect and sweep of any object leave it alone.
PersistentStaysOpen ==
    [][\A r \in Refs :
          (module = "up" /\ r \in live /\ ref_host_entry[r] > 0 /\ cluster[r])
             => (r \in live' /\ cluster'[r])]_vars

\* The object is one of those that ref_php_object stands for.
Counted(o) ==
    \/ is_connected[o] /\ pc[o] # "match"
    \/ pc[o] \in {"publish", "hosts", "check", "connect", "undo", "undo_store"}

\* When connecting does not fail, ref_php_object is never below the number of
\* objects that use the handle, at any point of any interleaving.
CountCoversUsers ==
    \A r \in live :
        Cardinality({o \in Objects : as_ref_p[o] = r /\ Counted(o)}) <= ref_php_object[r]

\* Two constructors never run aerospike_connect on one handle at the same time:
\* the unlocked test of ref_php_object lets only one of them pass.
NoConcurrentConnect ==
    \A o, q \in Objects :
        (o # q /\ pc[o] = "connect" /\ pc[q] = "connect") => as_ref_p[o] # as_ref_p[q]

Quiet == \A o \in Objects : pc[o] = "idle"

\* Between calls ref_php_object is the number of objects that hold the handle
\* (the comment on the field in ext_aerospike.h).
PhpObjectsExact ==
    Quiet => \A r \in live :
        ref_php_object[r] = Cardinality({o \in Objects : as_ref_p[o] = r /\ is_connected[o]})

\* isConnected tells whether the connection succeeded: between its calls an
\* object that reports a connection has a handle with a cluster.
ConnectedMeansCluster ==
    \A o \in Objects : (pc[o] = "idle" /\ is_connected[o]) => cluster[as_ref_p[o]]

\* When requests run one at a time, a persistent constructor that is done with
\* its hosts has made every one of them lead to its handle, wherever in the list
\* the lookup found a match and whatever its other hosts led to before: later
\* constructors that name any of them share the connection.
HostsFindHandle ==
    \A o \in Objects :
        (is_persistent[o] /\ pc[o] \in {"check", "connect", "undo", "undo_store"}) =>
            \A i \in DOMAIN hosts[o] : persistent_list[hosts[o][i]] = as_ref_p[o]

\* moduleShutdown frees every aerospike_ref whose ref_host_entry is the number of
\* its table entries: each step of the walk frees it, or keeps the two numbers
\* equal with an entry left to visit.  It leaks only those whose counter had
\* drifted before, when constructors re-pointed aliases.
ShutdownReleasesCounted ==
    [][module = "closing" =>
          \A r \in live : ref_host_entry[r] = Cardinality(Entries(r)) =>
              \/ r \notin live'
              \/ /\ ref_host_entry'[r] = Cardinality(Entries(r)')
                 /\ Entries(r)' # {}]_vars

\* Every call returns: no lock is left held and no two threads wait for each
\* other.
CallsReturn == \A o \in Objects : (pc[o] # "idle") ~> (pc[o] = "idle")

\* moduleShutdown visits every entry of the table and ends.
ShutdownFinishes == (module = "closing") ~> (module = "down")
=============================================================================
