# A TLA+ verification of the Aerospike client for HHVM

The repository is an extension of the HHVM runtime. It gives PHP programs a
class `Aerospike` whose methods wrap the Aerospike C client. The extension runs
inside a web server: every HTTP request has a thread of its own, the PHP objects
of a request belong to that thread, and what the extension keeps per process
(open connections, shared-memory keys, INI settings) is shared by all of them.

This directory holds TLA+ modules translated from the C++ source, the TLC
configurations that check them on small instances, and TLAPS proofs of the most
important results for instances of any size. `PROJECT.json` maps each definition
to the source lines it models and lists runs, mutants, findings, hazards and
theorems. Paths below are relative to `src/aerospike/` of the repository unless
they start with `doc/`.

## 1. Inventory

| Component | State it keeps | Operations | What makes it correct |
|---|---|---|---|
| Connection lifecycle (`main/ext_aerospike.cpp`, `include/ext_aerospike.h`) | process: `persistent_list`, `connection_mutex`; per handle: `as_p`, `ref_php_object`, `ref_host_entry`; per object: `as_ref_p`, `is_connected`, `is_persistent`, `latest_error` | `__construct`, `isConnected`, `close`, `reconnect`, `sweep`, `moduleShutdown` | no use of a freed handle, no handle closed under its users, no two connects of one handle, true `isConnected`, exact counters, everything freed at shutdown, no deadlock |
| Shared-memory keys (`main/conversions.cpp`) | process: `shm_key_list`, `shm_key_counter` (no lock) | `check_and_configure_shm`, `verify_shm_key_store_it`, `generate_unique_shm_key` | clusters have different and stable keys; the generator ends |
| Single-record calls (`main/ext_aerospike.cpp`) | per call: the key, record and policy; per object: `latest_error`; the caller's variable | `put`, `get`, `operate`, `remove`, `removeBin`, `exists` | a status that agrees with what happened, the optimistic lock of `POLICY_GEN_EQ`, no stale result |
| Batch calls (`main/batch_op_manager.cpp`) | per call: `as_batch`, the result array, one `as_error` | `getMany`, `existsMany` | one result per key, whatever the order of the answers; an error is not lost |
| Scan, query, aggregate (`main/scan_operation.cpp`) | per call: the callback and its error | `scan`, `query`, `aggregate`, the `predicate...` helpers | records delivered until the callback returns false; errors not lost; the callback may use the same object; a predicate means what the helper was asked for |
| UDF, index and background-scan calls (`main/udf_operations.cpp`, `main/ext_aerospike.cpp`) | none beyond the call; in the cluster: modules, indexes, scans | `register`, `deregister`, `getRegistered`, `listRegistered`, `apply`, `addIndex`, `dropIndex`, `scanApply`, `scanInfo` | OK means that the cluster has done it, not only accepted it |
| Policies (`main/policy.cpp`) | the handle's `config.policies`; per call: a policy structure | `set_global_defaults`, `set_config_policies`, `set_policy`, `set_generation_value`, `set_ttl_value` | a call's option over the constructor's over the INI entry; a call changes only its own policy |
| Value conversion (`main/conversions.cpp`) | per call: `StaticPoolManager`, five pools of 4096 | PHP values to and from `as_val`, PHP and user serializers | `get` returns what `put` stored; a full pool is an error |
| Key digest and helpers (`main/helper.cpp`) | none | `getKeyDigest`, `set_nil_bins`, `process_filter_bins` | bounds of the bin arrays |
| Serializer callbacks (`main/ext_aerospike.cpp`) | request-local: two PHP callables | `setSerializer`, `setDeserializer` | used by the request that set them |
| Module registration, constants | none that changes | `moduleInit`, `threadInit` | |
| PHP code (`ext_aerospike.php`, `src/LDT/*.php`, `src/Bytes.php`) | LDT: a key, a bin name, an `Aerospike` object | `initKey`, `append`, `prepend`, `increment`, `touch`; the LDT methods | one call of the extension each, errors handed on |

**Interactions.** Every method reaches the cluster through
`data->as_ref_p->as_p`, the handle the lifecycle installed, guarded only by
`as_ref_p` and `is_connected`. The constructor calls the configuration
conversion, which calls the shared-memory key registry, then the policies, and
then `configure_connection`. Record methods call key conversion, policy, value
conversion, the C client and the conversion back, in that order. Scan and query
call back into PHP from inside the C client (`StreamCalls` composes them with the
lifecycle for that reason), and so do the serializers. `sweep` runs at the end of the
request or from the destructor; `moduleShutdown` when all requests are over.

**What is hard.** (1) Threads that construct, close and end objects on one handle,
with a reader-writer lock around parts of it and tests outside it. (2) Counters
that have to agree with pointers held elsewhere. (3) Lost and delayed messages
with a retry below the extension, against a generation check. (4) Errors in the
middle of a call: what has been applied, what is reported, what is left in the
caller's variable. (5) Callbacks that re-enter. (6) Narrow integers: a 16-bit
generation, a 16-bit loop index, the key `-1`. (7) Pools of a fixed size that a
nested value fills in an order nobody chose. (8) Policies that requests share
through a handle. (9) Work that the cluster accepts now and carries out later. The
`hazards` of `PROJECT.json` give each at its line with the properties that would
catch it.

## 2. Modules

| Module | Stands for |
|---|---|
| `ConnectionPool` | the connection lifecycle, thread by thread |
| `HandleOwnership` | what the lifecycle promises about handles, without counters, table or lock |
| `ShmKeys` | the shared-memory key registry |
| `RecordCalls` | the single-record calls, with an external cluster and network |
| `BatchCalls` | `getMany` and `existsMany` |
| `StreamCalls` | `scan`, `query` and `aggregate`, composed with `ConnectionPool` |
| `Predicates` | the where argument of `query` and `aggregate` |
| `Policies` | INI settings, constructor options and call options |
| `Conversions` | PHP values to and from `as_val`, pools, serializers and their callbacks |
| `ClusterJobs` | UDF modules, indexes and background scans, with an external cluster |
| `MC...` | constants for TLC, one module for each of the above |
| `...Proofs` | theorems and proofs, one module for each of the above but `HandleOwnership`; those about `StreamCalls` are in `ConnectionPoolProofs`, whose invariant they extend |

### ConnectionPool

The variables carry the names of the code. `persistent_list` maps an alias
(`address:port`) to a block, to `Null` (an entry that `operator[]` inserted
during a lookup) or to `Absent`. `live` is the set of allocated blocks and
`cluster[r]` says whether `as_p->cluster` is set. `readers` and `writer` are
`connection_mutex`. `pc` and the locals (`hosts`, `iter_hosts`,
`matched_host_id`, `loaded`) belong to the call that an object is executing.

A step is one access to shared memory or one critical section. Where the code
changes `ref_php_object`, which is also accessed without the lock, the section is
two steps (`LockAndLoad`, then `MatchStore`, `CloseStore`, `ReconnectStore` or
`SweepStore`), so that an unlocked access can fall between them; the unlocked
decrement after a failed connect is `UndoLoad` and `UndoStore`. Constructing goes
through `Construct`, per host `ScanLock` with `ScanHit` or `ScanMiss`, then either
`MatchStore` or `CreateHostEntry` and `Publish`, then `AddHostEntry` for each
further host, `CheckFirst` or `CheckShared`, and `ConnectOK` or `ConnectFails`.
`ConstructAgain` and `ConstructBadConfig` are the refused calls, which have
assigned `is_persistent` already. An object whose `sweep` is over stands for a
fresh object of a later request.

Assumptions: `aerospike_new` never returns NULL; `aerospike_connect` on a handle
that has a cluster returns OK and does nothing; `moduleShutdown` runs when every
object has been swept; a lookup in the unordered map is one step, although two
lookups that insert under the read lock race in the code; the second
`pthread_rwlock_wrlock` at the end of `moduleShutdown` returns with an error
instead of blocking. The hosts array is not empty (`ConfigsAssumption`): the code
accepts an empty one and goes on with an alias buffer of length 0
(`main/conversions.cpp:413`) and with a `std::string` made of a NULL alias
(`main/ext_aerospike.cpp:215-221`), which is undefined and leaves no state to go on from.

### HandleOwnership

A handle is free, private to one client, or shared. A private handle is opened,
closed and discarded for its owner; a shared one is closed and reclaimed only
after the module has stopped. `ConnectionPool` implements it with `Owner(r)` as
the mapping: a live block with `ref_host_entry = 0` belongs to the object that
points to it, any other live block is shared.

### ShmKeys

A cluster is the alias string that the code builds from all hosts and the user.
Keys are `0 .. MaxKey`, `MaxKey` standing for the integer -1, which is also the
code's "not found". Each access to the list or the counter is a step.
`GenerateTake` reads the counter again, so it may see another thread's value.
`Gone` ends a client; `free_shm_key` exists but nothing calls it. The constant
`Serialized` restricts the model to one constructor at a time.

### RecordCalls

Several clients call the six methods on one record. An argument list is the
method, the generation option, whether `OPT_POLICY_RETRY` is set, and the set of
defects that the checks of the code can tell apart. `ArgumentChecks(m)` is the
sequence of checks of method `m` in the order of the code; the first one that
fails gives the error, one of those that its conversion can return. `put` and
`remove` call `set_generation_value` without looking at the result, so for
them a malformed generation is no early return: 0 is sent. `SetGenerationValue`
cuts the value to the 16 bits of the field.

`error` is the local `as_error` during a call and `latest_error` between calls;
`out` is the variable passed by reference: null, an empty array, the bins
converted before a failure (`partial`), or a result.

The cluster is external: a record is its generation, 0 if there is none; a write
raises it, and removing the record or its last bin ends it. An absent record
counts as generation 0 in the generation check. A request can be served, its
answer lost, the request lost, or delayed until after the caller has given up;
with a retry the C client sends it once more. `applied` counts the writes of the
current call, `wins[v]` the writes guarded by `POLICY_GEN_EQ` that met generation
`v` in the current life of the record. Both are history variables.

Generations are bounded by `MaxGen = GenModulus - 1`: the wrap-around of the
cluster's own counter is not followed. A delayed request counts in `wins` but no
longer in `applied`, as its call may be over: an `ERR_TIMEOUT` promises nothing,
and `ReportAgrees` says nothing about it.

### BatchCalls

One call after another. `Begin` reserves the batch, `AddKey` copies one key (the
constructor of `BatchOpManager`), `RejectKey`, `RejectOptions` and `RejectFilter`
are the early returns in the order of the code, with what each leaves in the
caller's variable. The C client (external) fails as a whole or hands one result
per key to the callback, which visits them one by one. `index` is `batch_iter`
and then the `i` of the callback, both `uint16_t` (`IndexModulus`). The PHP array
is indexed by the key's value or digest (`Label`), not by namespace and set, so
two keys may have one label. `error` is the one `as_error` that the call, the C
client and the callback share.

The callback stops at a result that is neither a record nor `NOT_FOUND` without
setting an error. Whether the C client then reports one of its own is left open
(`ReturnStopped`), so `OkIsComplete` and `BadRecordReported` make that case an
explicit exception. `SizeAssumption` says that the key list fits the index.

### StreamCalls

Extends `ConnectionPool` with one variable: per object the stream it executes,
the handle it had when the call began, whether that handle was open, whether a
conversion failed, and the call's `as_error`. `scan` and `query` have the same
callback and are one kind; `aggregate` collects values. A delivered record resets
the error, as the conversion does. The callback of `scan` and `query` runs
the script, which may construct, close and reconnect the same object
(`ScriptStep`); at the same time other objects take every step of
`ConnectionPool`. A callback that throws leaves the method without `setError`.
While a call runs its object is referenced and is not swept (`EndObject`).

Bounds and assumptions: a callback starts no second stream on its own object, and
the C client calls back from one thread at a time (`OPT_SCAN_CONCURRENTLY` is not
modelled).

### Predicates

A PHP value carries its type. The four helpers build an array, return NULL, or
the script writes the array itself; `Query` is `isPredicate` and
`initialize_where_predicate`, and gives a clause, a refusal or `"all"`, the query
without a clause that returns the whole set. `asked` remembers the helper's
arguments.

### Policies

A request has one object. `ini` is `ini_entry`, one structure for the whole process:
an `ini_set` of one request (`IniSet`) changes what the constructors of all
requests read, the binding of a new worker thread (`ThreadInit`) puts the values of
`php.ini` back, and so may the end of a request (external). A constructor
reads its settings in one step; it makes several reads in the code, but an `ini_set`
changes one setting, so another order of the steps gives the same configuration
unless two settings change during one constructor. `config` holds the `as_config` of
each handle, filled from the settings and the constructor's options by `ConfigOf`; a
constructor that finds a shared handle drops its own configuration. The constructor's
enumerators (`OPT_POLICY_KEY`, ...) become `global`, the defaults of all types;
the C client takes them where the policy of a call is left undefined
(`Undefined` and `Resolved`, external: 0 is undefined to it). `CallPolicy` copies the
handle's policy of the call's type and applies the call's options by the tables
`EnumsOf` and `TimeoutsOf`, one row per branch of `set_policy`. Some types refuse a
timeout that is no integer and others ignore it (`Strict`). A call also writes
`OPT_CONNECT_TIMEOUT` into the shared handle (`StoredInHandle`). `maker` remembers
how a handle was created. `OPT_POLICY_GEN` and `OPT_TTL` are in `RecordCalls`;
milliseconds and enumerators are integers without a width. `scanApply` waits with
the defaults of `as_policy_info`, since its options go to the policy manager of
the scan. The serializer of a call is modelled, but has no property of its own: it
is the option of the call or what the object has, and a refused second constructor
resets the latter.

### Conversions

A PHP value is the sequence of its elements in the order in which the code meets
them, depth first: each has the index of the array it is in, a key and a value.
What `put` makes of it, and what `get` makes of that, are functions on the same
indices. The recursion of the code is thereby a walk, one action per thing that can
fail: `CheckName`, `ConvertKey`, `ConvertValue`, `SetBin` and `EndWrite` for
`php_record_to_as_record` and the functions under it; `NextBin`, `ReadElement`,
`LeaveContainer` and `EndGet` for `bins_to_php_bins`, with `dec.stack` for the nested
foreach loops. On the way in a container is attached before its elements, which
shows nowhere, as a failure discards it all. A map entry replaces one
whose key is the same C string (`Attach`).

`PoolMax` stands for 4096 and `CountModulus` for 2^16, the width of the counter in
`is_assoc`. `Cut` is what is left of a string when it passes through `c_str()`.
`serialize_based_on_serializer_policy` with the PHP and the user's serializer is
there with every failure, `CRASH` being the null pointer that the user's path
dereferences. `Chances` are the outcomes the code leaves open when it reads a blob:
whether the C string ends where the blob does, and what the deserializer makes of
it. Registered callbacks belong to the request (`registered`) and are dropped at its
end; a call uses those that are set when it begins (a callback that replaces itself
is left out).

Bounds: one call is in progress at a time, since calls share nothing but the record
and the cluster applies a write at once; a record is created by `put` and changed by
`operate` with one write operation. Map keys are integers and strings, as in PHP
arrays; the order of a map is not kept.

On the way back a key is converted once more: `data.set(php_key, php_value)` makes
the integer 5 of the string `"5"` (`Decimal`, `ArrayKey`), the empty string of null, an
integer of a bool or double, and sets nothing for a key of another type (`IsOffset`),
so that elements of a map can replace each other (`SetElement`). PHP arrays never
have `"5"` for a key (`IsArrayKey`), but the cluster may: from another client, from a string
that was cut at a NUL, or as the bin name of an `operate`. `put` looks at the length of a
name before the value; `operate` leaves it to `as_operations_add_write`, whose refusal
(`ERR_PARAM`) is in `SetBin`. The reference definitions (`IsList`, `Fits`, `Plain`) are
written without walk, pools or error passing.

### ClusterJobs

The cluster (external) accepts a module in `wanted` and `Propagate` brings it to the
nodes one at a time; a scan runs until `ScanEnds`. `register` waits by the name of the
module and `scanApply` by the id of the scan; `deregister` and `addIndex` do not
wait. Every request may be refused, or accepted with its answer lost.
`read_udf_file_contents` frees the buffer that the request still points to, so
what is sent is the file or `Freed`. `Crash` ends the process where the code uses
an uninitialised task or buffer. `assured` and `clean` are history: the modules a
successful `register` vouches for, and the registering requests whose module
nobody has removed meanwhile. Of finished calls only the results of `apply` and
`scanApply` are kept, which the properties ask for.

## 3. Runs

States are distinct states; each run takes between seconds and three minutes.

| Run | Instance | Shows |
|---|---|---|
| `concurrent` | 2 objects, 2 blocks, host lists `<<a2>>` and `<<a1, a2>>`, failing connects and mallocs, `MaxCount` 2; 2.3 million | `TypeOK`, `NoDangling`, `HostEntriesCovered`, `PrivateStateAgrees`, `ClosedOnlyByLastUser`, `PersistentStaysOpen`, `ImplementsOwnership` |
| `progress` | the same with a reachable cluster, refused second constructors, and fairness; 305 thousand | `CountCoversUsers`, `NoConcurrentConnect`, `CallsReturn`, `ShutdownFinishes` |
| `serial` | 3 objects, 3 blocks, host lists `<<a1>>`, `<<a2>>` and `<<a1, a2>>`, one request at a time; 297 thousand | `PhpObjectsExact`, `ConnectedMeansCluster`, `HostsFindHandle`, `ShutdownReleasesCounted` |
| `shm_serial` | 2 clients, 3 clusters, keys 0..4, one request at a time; 20 thousand | `DistinctKeys`, `OnlyMinusOneReplaced`, `VerifyReturns` |
| `record` | 2 clients, `GenModulus` 3, one delayed request, 7 well-formed calls and every argument defect; 674 thousand | `TypeOK`, `OneWinner`, `ReportAgrees`, `NoStaleRecord` |
| `batch` | 3 keys, 2 labels, `IndexModulus` 4, every list of up to 3 keys, every combination of results; 116 thousand | `AnswersMatchKeys`, `OkIsComplete`, `BadRecordReported`, `CallReturns` |
| `stream` | 2 objects, 2 blocks, one host, failing connects, refused second constructors; 1.6 million | `StreamHandleAllocated`, `SharedStreamStaysOpen`, `OnlyCallbackCloses`, `AggregateReportsFailure` |
| `policies` | 2 requests, 2 handles, options of the right and the wrong type, `key_policy` changed at any time; 377 thousand | `CallPolicies`, `HandlePoliciesFixed` |
| `conversions` | 2 requests, `PoolMax` 2, `CountModulus` 10, nested values at and above the pool limits, long and numeric names, every serializer, foreign records; 1.9 million | `AcceptedExactly`, `ListsStayLists`, `RoundTrip`, `OkIsWhole` |
| `jobs` | 2 requests with different methods, 2 nodes, 1 module, 1 file, 2 scans; 699 thousand | `RegisteredIsFound`, `ScanApplyHonest` |
| `predicates` | helper arguments of every PHP type, every subset of the keys of a hand-written array; 10 thousand | `PredicatesMeanWhatIsAsked` |
| `construct_again_private` | 2 objects, one request at a time, `ReconstructModes` `{FALSE}` | violation of `ClosedOnlyByLastUser` |

What the runs show in words. `serial`: a constructor makes every host of its list
lead to its handle, and `moduleShutdown` frees every handle whose host counter is
exact. `shm_serial`: a cluster keeps its key, unless it is -1, which the code takes for
no key and replaces at the next client. `batch`: no record appears under the label of
another key, and OK means a complete and fresh array. `stream`: the handle a
stream works on stays allocated and, if persistent, open; a non-persistent one can
be closed only by the stream's own callback. `policies`: a request is sent with its own
options, or else with what the options of the handle's creator and the INI settings of
that moment gave, and no later call, constructor or `ini_set` of any request changes
that; nothing but the connect timeout leaks through a shared handle. `conversions`: `put` and `operate`
accept exactly the values that fit, `get` returns plain ones unchanged, and OK from
`get` means that nothing is missing but elements of a map whose keys PHP cannot tell apart or
cannot have.
`jobs`: OK from `register` makes a module usable on all nodes until someone
removes it; OK from `scanApply` means that the scan has ended. `predicates`: the
helpers and the reader of their arrays agree.

**Bounds.** Two objects suffice for a race of two calls, and the overlapping host
lists make a constructor find an entry at its first host, at its second, or
nowhere, and re-point an alias of another handle. Three objects in `serial` let
two of them outlive a third, and its lists of one or two hosts let a constructor
raise `ref_host_entry` of a handle it has found and re-point an alias of another. `MaxCount` stops constructors once a counter has
drifted that far; the calls that are running still finish. Two blocks are as many as two
objects can own, so that `malloc` fails exactly when a lost handle or two shared
ones have used them up. Three clusters and five keys let the counter meet keys in
use and wrap around through -1. Two clients, a retry and a delayed
request give up to four copies of guarded writes of one generation; a `GenModulus`
of 3 has an absent record, two generations and, in the inputs, a value above
the modulus. Three keys with two labels have a pair that collides and one that does
not, and an index of modulus 4 is full with three keys. Two objects on one host
are enough for a stream and a request that disturbs it; a second alias adds
nothing to the handle a stream has. Two pool objects per type make a nested
array run out at either level and in either order; `CountModulus` 10 keeps the
relation of the real sizes, 5 * 4096 < 65536. Two nodes let a module be on one and
not on the other. Symmetry over objects, blocks or clients is used in runs without
liveness properties.

**Fairness.** Only `progress`, `shm_serial` and `batch` need it. A thread inside a
call keeps running (weak fairness of its steps, the generator loop included). A
thread that waits for `connection_mutex` gets it if it is free again and again
(strong fairness): without it other requests could overtake a waiting constructor
forever. In `batch` a call that has begun
goes on: it waits for nobody but the C client, which has a timeout.
No fairness makes a caller start a call or ends the process.
`VerifyReturns` needs more keys than clusters, which holds for 32-bit keys; with
fewer the loop of `generate_unique_shm_key` does not end.

**Disagreements with the documentation.** `construct_again_private` ends in a
counterexample: an object with a persistent handle calls `__construct` again with
`persistent_connection = false`; the call is refused but has changed `is_persistent`. A
second object finds the handle and uses it. Then `close()` of the first takes the branch
for non-persistent objects (`main/ext_aerospike.cpp:335-337`) and closes the
handle under the second, which believes to be connected. doc/aerospike_construct.md:52-54
gives `close()` to "instances created with non-persistent connections" only, and
this one was created with a persistent one. A sweep in the place of `close()` would
free the handle as well.

The other disagreements met while modelling are in the models, as what the code
does, and the properties are stated around them.

Connections and keys:
- a constructor publishes its entry before it connects; a second one raises the
  counter and both skip `aerospike_connect`, the second with `is_connected` true
  (`ConnectedMeansCluster` is therefore checked for one request at a time);
- two constructors that look up before either publishes give an alias two
  handles, and nobody finds or frees the first again;
- after a failed connect on a reused entry `is_connected` stays true and
  `ref_php_object` is decremented again by `sweep`;
- constructing a two-host configuration twice raises `ref_host_entry` above the
  number of aliases, and `moduleShutdown` never frees the handle
  (`ShutdownReleasesCounted` says that this is the only way to leak one);
- `reconnect` of a closed persistent object is refused while another object holds
  the handle (doc/aerospike_reconnect.md shows it as possible);
- the lookup inserts into the map under the read lock;
- a later client of a cluster with a generated shared-memory key keeps the
  default key, that of another cluster; with concurrent constructors two clusters
  can get one key;
- a cluster whose key is -1 gets another one with its next client
  (`OnlyMinusOneReplaced`), while its first client stays attached to -1.

Records and batches:
- `exists` leaves the metadata of an earlier call in the variable when the record
  is not found (`NoStaleRecord` leaves it out);
- a generation option is cut to 16 bits, so a value that equals the generation
  modulo 65536 passes `POLICY_GEN_EQ`;
- with more than 65535 keys the loops over a batch do not end;
- a result of another status stops the batch callback without an error.

Policies:
- the INI entry `key_policy` overwrites the timeouts of `operate` and `remove`
  (`main/policy.cpp:121-126`; doc/aerospike_config.md:28-32 describes the
  two settings as independent); `CallPolicies` states what the code does;
- where `key_policy` is not 0 it beats the `OPT_POLICY_KEY` of the constructor for
  reads and writes;
- `ini_set` of one request changes the settings of all;
- a constructor's timeouts reach only the read and write policies; a constructor
  that reuses a handle loses its policies; a refused second `__construct` resets
  the serializer of the object.

Streams, predicates and conversions:
- `scan` and `query` return OK over a record they could not convert if another one
  follows;
- NULL as where, which the helpers return for bad arguments, and an unknown
  operator query the whole set (doc/aerospike_query.md:19 asks for an empty
  array); `CONTAINS` and `RANGE` without `index_type` are refused though the
  documentation shows them; a `RANGE` of strings is built by the helper and
  refused by `query`;
- the user's serializer crashes the process when the bytes pool is used up, and
  the user's deserializer gets a blob without its size;
- a blob without a registered deserializer makes `get` fail with `ERR_PARAM`, where
  doc/README.md:69 says "otherwise place it in a PHP string";
- `get` makes one element of the keys `"5"` and `5` of a map, and returns OK
  (`OkIsWhole` excepts such elements);
- of two bins whose names are the same C string (`"a"` and `"a\0x"`) only the later
  one is stored, and `put` returns OK (`ListsStayLists` is about bins that are
  alone with their C string, `RoundTrip` about strings without NUL).

Cluster jobs:
- `addIndex` waits only when the cluster has refused the index, on a task that
  is not initialised; `register` sends and copies a buffer that has been freed, and
  destroys one that was never set when the file cannot be read.

## 4. Proofs

All theorems hold for any values of the constants that satisfy the named
`ASSUME`s; nothing is assumed beyond them and what is stated here.

**ConnectionPool.** Every safety property of the lifecycle is a theorem. What each
needs of the constants, beside the named assumptions (`NullAssumption`,
`ConfigsAssumption`, `AliasesAssumption` and `ObjectsAssumption`: the sets of aliases and of
objects are finite, and the special values are none of their members):

| Theorem | Property | Condition | Invariant |
|---|---|---|---|
| `TypeCorrect` | `TypeOK` | none | `TypeInv` |
| `NoUseAfterFree` | `NoDangling` | no second `__construct` with `false` | `SafeInv` |
| `HostEntriesNeverMissed` | `HostEntriesCovered` | the same | `SafeInv` |
| `PersistentHandlesStayOpen` | `PersistentStaysOpen` | the same | `SafeInv` |
| `HandlesClosedByLastUser` | `ClosedOnlyByLastUser` | the same | `SafeInv` |
| `PrivateStateHolds` | `PrivateStateAgrees` | the same | `PrivateInv` |
| `CountNeverBelowUsers` | `CountCoversUsers` | the same, and connecting does not fail | `CountInv` |
| `ConnectsAreExclusive` | `NoConcurrentConnect` | the same, and connecting does not fail | `CountInv` |
| `PhpObjectsCounted` | `PhpObjectsExact` | the same, and one request at a time | `SerialInv` |
| `ConnectedHasCluster` | `ConnectedMeansCluster` | the same, and one request at a time | `SerialInv` |
| `HostsLeadToHandle` | `HostsFindHandle` | one request at a time | `FindInv` |
| `OwnershipImplemented` | `ImplementsOwnership` | no second `__construct` | `OwnInv` |
| `ShutdownFreesCounted` | `ShutdownReleasesCounted` | no second `__construct` | `OwnInv` |

The conditions are what the code needs. On small instances without them TLC
finds:

- with a second `__construct(.., false)`, `NoDangling` and `ClosedOnlyByLastUser` fail
  (the latter is the run `construct_again_private`);
- with a second `__construct(.., true)`, `ImplementsOwnership` and `ShutdownReleasesCounted`
  fail: the sweep then leaves a private block allocated;
- with a failing connect, `CountCoversUsers` and `NoConcurrentConnect` fail: the
  unlocked decrement overwrites an increment made between its load and its
  store. `PhpObjectsExact` fails even with one request at a time: an object that adopted
  the block keeps `is_connected` when its own connect fails;
- with two requests at once, `PhpObjectsExact`, `ConnectedMeansCluster` and
  `HostsFindHandle` fail.

The argument. `TypeInv` adds to the types what the control state says of the
pointer, the host index and the phase of the module. `NoDangling` is not
inductive: that a sweep frees nothing in use needs to know who may point to the
block. `SafeInv` is

- `TypeInv`;
- `ObjectSafe(o)`: the pointer is to an allocated block; a non-persistent object
  has one with `ref_host_entry = 0`, a persistent one past its lookup one that is
  counted; an entry about to be published is not in the table;
- `PairSafe(o, q)`: two objects share only a published block;
- `TableSafe`: a block that a lookup or the shutdown can reach is allocated;
- `HostEntriesCovered`: there are at most `ref_host_entry` aliases of a block.
  With `EntryCounted` and `LastEntryAlone` this makes the block of a
  non-persistent object unreachable from the table, and makes the visit
  at which `moduleShutdown` frees a block the last one of that block.

The later invariants rest on a frame lemma, `ObjectFrame`: a step of one object
changes neither the fields of another nor an allocated block it does not point to
(`OwnBlockOnly`). With `PairSafe` a non-persistent block is therefore touched by its one
object only, and `PrivateSafe` follows that object through its own steps.
For `CountInv`, `CountSafe` says that the holder of the write lock is between its load
and its store and that what it loaded is still in the counter, since without a
failing connect nothing writes the counter of a shared block outside the lock.
Each step is one of five effects on the set
`Users(r)` (`Keeps`, `Enters`, `Leaves`, `Creates`, `SetsOwn`), and one case per effect
carries `Cardinality(Users(r)) <= ref_php_object[r]` over it. `SerialInv` adds
`OneCall` and makes the inequality an equality; `FindInv` follows a
constructor through its list: the host it found or published leads to its handle, and
so does each one that `iterate_hosts_add_entry` has passed. `OwnInv` says
that a block outside the table has an object and an unallocated one has no
cluster; from it each step maps to a step of `HandleOwnership` or to a stutter, under
the mapping of `ConnectionPool`. It also gives `ShutdownFreesCounted`: a visit takes one
entry and one count, or, at the last count, frees the block, and a block without
entries that is still allocated would need an object.

**ShmKeys.** `KeysDistinct` and `ReplacesOnlyMinusOne`, assuming `Serialized`. `KeyInv`
adds that one constructor is inside, that its cluster still has no key other than
-1, and that the key it has chosen is still free.

**RecordCalls.** `RecordTypes`, `GenerationHasOneWinner` (`Spec => []OneWinner`),
`ReportsAgree` (`Spec => ReportAgrees`) and `NoRecordIsStale` (`Spec => NoStaleRecord`); the
last two rest on `ReturnsByReturn`, that only the last step of a call ends it. The invariant `IInv` is the types,
`WinsBelow` (a generation that has a winner is below the current one: a
winning write moves the record on, and ending the record clears the history) and
`CallAgrees` (while a request is out fewer writes have been applied than attempts
sent; with an answer OK, at least one; with a refusal and no retry, none).

**BatchCalls.** `AnswersHold`, `OkHolds` and `BadRecordsReported`, for any keys,
labels, key lists and index width. `BatchInv` ties the three phases together:
while keys are copied the first `index` slots of the batch are the keys of the
call; when it is sent all of them are; while the callback runs, the array holds
the answers to the first `index` results, none of which was unconvertible; when it
has stopped, the result it stopped at says why and whether there is an error.

**StreamCalls.** `StreamsUseLiveHandles`, `SharedStreamsStayOpen`,
`ClosedOnlyInCallback` and `AggregateFailuresReported`, again for
`FALSE \notin ReconstructModes`. `StreamInv` is `SafeInv` of `ConnectionPool` with
`StreamSafe` (the object of a stream still points to the stream's handle: nothing
but a sweep takes it away), `OpenSafe` and `FailureSafe` (an aggregate that failed
has the error and reads no further). The proof reuses the lemmas about the
steps of `ConnectionPool` as they are and stands behind them in one module.

**Predicates.** `HelpersAndQueryAgree`: `Spec => []PredicatesMeanWhatIsAsked`, for
arguments of any PHP type and with no assumption. `PredicateInv` says that between
the helper and the query the predicate is what the helper built for the arguments
that `asked` remembers, and that the query was computed from it. It needs
`FreshAsksNothing`: no helper returns the empty array, so a script that writes its own
array has no helper call behind it. One lemma per helper (`EqualsMeant`, ...) reads
the array back; `FourOperators` shows that no operator of a helper is passed over.

**Policies.** `PolicyTypes`, `PoliciesOfCalls` and `PoliciesStay`. `PolicyInv` says that a handle's policies are those its maker's
settings and options give (`Configured`), that every object's handle exists (`Shape`) and a
private one has a single user (`Sharing`), and that a prepared call has the
policy computed from them (`Prepared`), although other requests may have used the
handle since.

**ClusterJobs.** `ScanAppliesHonest` and `RegisteredModulesFound`. `JobsInv` adds to
the types that an assured module is wanted and is on every node (so that a
propagation that is still under way cannot take it away), that a request which is
still clean has its module wanted, and that a waiting `scanApply` has handed out
its id.

**Conversions.** `Accepted`, `Lists`, `Trip` and `Whole` are `Spec => []P` for the four
properties of the run, for values of any depth and size, any strings, callbacks and
foreign records. Assumed is `SizeAssumption`, `5 * PoolMax <= CountModulus` (in the code
20480 and 65536), that `Cut` and `UserString` map strings to strings
(`StringAssumption`) and that the inputs are PHP values (`ValueAssumption`). `Invariant`
is the inductive invariant behind all four; TLC checks it on the run too. Its
parts:

- `EncOK`: the walk has come to an element, the count of each pool is the number of
  keys and values before it that come from that pool (`PoolsCount`), each of these could
  be converted (`Checked`), and the value so far is `Encoded`: an element
  that no later one replaces is there. The count is exact, so a pool that is used up at
  an element means that the whole value does not fit (`ExhaustedNoFit`), and the end of the
  walk means that it does (`EncDone`).
- The count is about the lists that `is_assoc` sees, `Fits` about the real ones.
  `FitsByCode` shows that it is the same: every element of an array takes an object, so
  an array in a value that fits, by either count, has at most `5 * PoolMax`
  elements (`PooledSized`), and the 16-bit counter is right about it (`SmallArrays`).
- `StoredOK`: each bin in the record whose name is alone with its C string is the
  encoding of what was written last. `MergeStep` carries this over a write of some of
  the bins.
- `DecOK`: an element whose container has been read has been read too, or the container
  is on the stack. `OutOK`: the finished bins are read to their end, and an error
  means that something in the record could not be read.

`Trip` joins the two directions: in a plain value `AsKey` is the own key of each element
(`OwnKeys`), so that nothing is replaced (`PlainComplete`); the smallest element not yet
read would be in a container that has been read, so all are (`PlainRead`); and each
reads as it was written (`PlainElement`).

Two things came out of the proof. Two definitions had overlapping `CASE` arms, whose
value TLA+ leaves open where TLC takes the first; they are `IF`s now. And `ListsStayLists`
is false without `Alone`, for two bins with the same C string.

**Only model-checked.** Liveness under fairness (`CallsReturn`, `ShutdownFinishes`,
`VerifyReturns`, `CallReturns`) is out of the prover's reach. Every other property of
a passing run is a theorem.

## 5. Not modelled

- Module registration and the constant tables: they run once and hold no state
  that changes; the constants appear in the modules that use them.
- `getKeyDigest`: a hash of its arguments by the C client, without state of ours.
- `process_filter_bins` writes a terminator one past an array of the exact size;
  the damage depends on what the stack holds there, which would have to be
  arbitrary memory. The same goes for a racing rehash of `persistent_list`.
- `OPT_SCAN_CONCURRENTLY`: the C client may then run callbacks of one scan in several
  threads of its own; what the PHP runtime makes of a callback on such a thread is
  not in this code.
- `initKey` of `ext_aerospike.php` builds an array; `append`, `prepend`, `increment`
  and `touch` are one `operate` call each, `Bytes.php` is a string in an object, and the
  LDT classes make one `apply` call per method. None keeps state between calls that
  could go wrong beyond the call they make.
- An empty `hosts` array: what the code does with it is undefined (section 2).
- `as_rec` values (`main/conversions.cpp:1350`): records inside records, which no
  call of this client can write.
- Build files and tests are not part of the running program.

## 6. Plan

Done, in this order because everything else rests on a live handle and then on
single calls: `ConnectionPool` with `HandleOwnership`, `ShmKeys`, `RecordCalls`,
then `BatchCalls`, `StreamCalls`, `Policies`, `Conversions`, `ClusterJobs` and
`Predicates`.

Left:

1. Theorems: the types of `ShmKeys`, `BatchCalls`, `StreamCalls` and `ClusterJobs` as
   theorems of their own.
2. `Policies` composed with `ConnectionPool`, so that the handle whose policies a
   call copies is the one the lifecycle gives it. Today `Policies` has its own
   short lifecycle.
3. A callback that starts a second stream on its own object.
