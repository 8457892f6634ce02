------------------------------ MODULE Policies ------------------------------
(***************************************************************************)
(* The policies of policy.cpp: where the timeouts, the key, retry and      *)
(* other policies and the serializer of a call come from.                  *)
(*                                                                         *)
(* There are three layers: the INI settings, the options of the            *)
(* __construct call that created the handle, and the options of the call.  *)
(* set_global_defaults puts the first two into an as_config, which becomes *)
(* that of the handle if a new one is created; set_policy copies the       *)
(* policy of the handle and lets the options of the call override it.  The *)
(* settings are one structure for the whole process, so that ini_set of a  *)
(* request changes what the constructors of the others read, and requests  *)
(* share persistent handles: a request may send policies that another one  *)
(* configured.                                                             *)
(*                                                                         *)
(* A request has one Aerospike object here.  An options argument is NULL,  *)
(* no array, or a function on the OPT_ constants it contains whose values  *)
(* are integers or Wrong (another type).  OPT_POLICY_GEN and OPT_TTL,      *)
(* which set fields of the record too, are in RecordCalls.  Milliseconds   *)
(* and enumerators are plain integers: their widths are not modelled.      *)
(***************************************************************************)
EXTENDS Integers, Sequences, FiniteSets

CONSTANTS
    Requests,     \* requests of HHVM worker threads, with one object each
    Methods,      \* request -> the types of policy that its method calls use
    Handles,      \* as_config blocks inside handles (bound on handles created)
    Options,      \* options arguments that scripts pass
    IniValues,    \* setting -> the values that ini_set gives it
    PhpIni,       \* the settings of php.ini
    Default,      \* default of the C client where nothing is configured (external)
    Wrong,        \* an option value that is no integer
    NULL, NoArray, None

VARIABLES
    ini,      \* the INI settings: ini_entry, one for all requests
    config,   \* handle -> its as_config, for the handles that exist
    shared,   \* the handle in persistent_list, or None
    object,   \* request -> handle and serializer_value of its object
    call,     \* request -> the call it is making
    maker     \* handle -> how it was created: INI settings and options (history)

vars == <<ini, config, shared, object, call, maker>>

-----------------------------------------------------------------------------
(* The tables of set_policy: for each type of policy, the options that set *)
(* a field, in the order of the code (the last one given wins).            *)

SERIALIZER_PHP == 1

\* The value that as_config_init leaves in the fields of a type of policy; the
\* C client then takes the default for all types (external).
Undefined == 0

Kinds == {"read", "write", "operate", "remove", "batch", "scan", "query",
          "info", "apply"}

Enums == {"key", "retry", "exists", "replica", "consistency_level",
          "commit_level"}

OptionOf ==
    [key |-> "POLICY_KEY", retry |-> "POLICY_RETRY", exists |-> "POLICY_EXISTS",
     replica |-> "POLICY_REPLICA", consistency_level |-> "POLICY_CONSISTENCY",
     commit_level |-> "POLICY_COMMIT_LEVEL"]

EnumsOf ==
    [read    |-> {"key", "replica", "consistency_level"},
     write   |-> {"key", "retry", "exists", "commit_level"},
     operate |-> {"key", "retry", "replica", "consistency_level", "commit_level"},
     remove  |-> {"key", "retry", "commit_level"},
     batch   |-> {}, scan |-> {}, query |-> {}, info |-> {}, apply |-> {}]

TimeoutsOf ==
    [read    |-> <<"READ_TIMEOUT">>,  write  |-> <<"WRITE_TIMEOUT">>,
     operate |-> <<"WRITE_TIMEOUT">>, remove |-> <<"WRITE_TIMEOUT">>,
     batch   |-> <<"READ_TIMEOUT">>,  query  |-> <<"READ_TIMEOUT">>,
     scan    |-> <<"READ_TIMEOUT", "WRITE_TIMEOUT">>,
     info    |-> <<"READ_TIMEOUT", "WRITE_TIMEOUT">>,
     apply   |-> <<"WRITE_TIMEOUT">>]

\* The types that refuse a timeout of another type; the others ignore it.
Strict == {"scan", "query", "info", "apply"}

\* The types whose branch of set_policy sets the serializer of the call.
Serializing == {"write", "operate"}

Settings == {"connect_timeout", "read_timeout", "write_timeout", "key_policy",
             "serializer_type"}

ASSUME MethodsAssumption == Methods \in [Requests -> SUBSET Kinds]
ASSUME IniAssumption == /\ PhpIni \in [Settings -> Int]
                        /\ IniValues \in [Settings -> SUBSET Int]
ASSUME ValueAssumption == /\ Default \in Int
                          /\ Wrong \notin Int
                          /\ None \notin Handles

FieldsOf(kind) == EnumsOf[kind] \cup {"timeout"}

SourcesOf(kind, field) ==
    IF field = "timeout" THEN TimeoutsOf[kind] ELSE <<OptionOf[field]>>

-----------------------------------------------------------------------------
(* Options. *)

\* options.exists(o) && options[o].isInteger()
Gives(options, o) ==
    /\ options \notin {NULL, NoArray}
    /\ o \in DOMAIN options
    /\ options[o] \in Int

\* options.exists(o) && !options[o].isInteger()
Misgives(options, o) ==
    /\ options \notin {NULL, NoArray}
    /\ o \in DOMAIN options
    /\ options[o] \notin Int

Given(options, o, otherwise) == IF Gives(options, o) THEN options[o] ELSE otherwise

\* The value that assignments from the options in sources leave in a field.
Assigned(options, sources, before) ==
    IF Len(sources) = 1
    THEN Given(options, sources[1], before)
    ELSE Given(options, sources[2], Given(options, sources[1], before))

-----------------------------------------------------------------------------
(* set_global_defaults: the as_config of a new handle. *)

\* copy_INI_entries_to_config.  All settings are bound in threadInit and so
\* always present.  The key policy is stored last, and for operate and remove
\* it is stored in the timeout.
IniTimeout(settings, kind) ==
    IF kind \in {"write", "apply"} THEN settings.write_timeout
    ELSE IF kind \in {"operate", "remove"} THEN settings.key_policy
    ELSE settings.read_timeout

IniEnum(settings, kind, field) ==
    IF field = "key" /\ kind \in {"read", "write"} THEN settings.key_policy
                                                   ELSE Undefined

\* Bug: the constructor's timeouts are stored before the INI settings.
ConfiguredTimeoutEarly(settings, options, kind) == IniTimeout(settings, kind)

\* set_config_policies: the constructor's timeouts reach only two types.
ConfiguredTimeout(settings, options, kind) ==
    IF kind \in {"read", "write"}
    THEN Given(options, TimeoutsOf[kind][1], IniTimeout(settings, kind))
    ELSE IniTimeout(settings, kind)

\* The constructor's other options become defaults for all types of policy.
GlobalDefault(options, field) ==
    IF field = "timeout" THEN Default ELSE Given(options, OptionOf[field], Default)

ConfigOf(settings, options) ==
    [conn   |-> Given(options, "CONNECT_TIMEOUT", settings.connect_timeout),
     global |-> [field \in Enums \cup {"timeout"} |-> GlobalDefault(options, field)],
     policy |-> [kind \in Kinds |-> [field \in FieldsOf(kind) |->
                     IF field = "timeout"
                     THEN ConfiguredTimeout(settings, options, kind)
                     ELSE IniEnum(settings, kind, field)]]]

GlobalSerializer(settings, options) ==
    Given(options, "SERIALIZER", settings.serializer_type)

-----------------------------------------------------------------------------
(* set_policy. *)

Copied(h, kind) == config[h].policy[kind]

CallPolicy(h, kind, options) ==
    [field \in FieldsOf(kind) |->
        Assigned(options, SourcesOf(kind, field), Copied(h, kind)[field])]

CallSerializer(r, kind, options) ==
    IF kind \in Serializing THEN Given(options, "SERIALIZER", object[r].serializer)
                            ELSE SERIALIZER_PHP

Refused(kind, options) ==
    \/ options = NoArray
    \/ /\ kind \in Strict
       /\ \E i \in DOMAIN TimeoutsOf[kind] : Misgives(options, TimeoutsOf[kind][i])

\* Bug: the options of the call are written to the policies of the handle.
StoredInHandlePolicy(h, kind, options) ==
    [config[h] EXCEPT !.policy[kind] = CallPolicy(h, kind, options)]

\* The connect timeout of a call is stored in the handle, which others share,
\* also when a timeout of the call has been refused.
StoredInHandle(h, kind, options) ==
    [config[h] EXCEPT !.conn = Given(options, "CONNECT_TIMEOUT", @)]

\* What the C client makes of the policy of a call: a field that is undefined
\* has the default of the handle (external).
Resolved(h, policy) ==
    [field \in DOMAIN policy |->
        IF policy[field] = Undefined THEN config[h].global[field] ELSE policy[field]]

-----------------------------------------------------------------------------
\* Nothing is being called.  new is the as_config that a constructor has
\* prepared, from the settings and options in made.
Idle == [pc |-> "idle", kind |-> "read", options |-> NULL,
         policy |-> [field \in FieldsOf("read") |-> Undefined],
         serializer |-> SERIALIZER_PHP, new |-> None, made |-> None]

NoObject == [handle |-> None, serializer |-> SERIALIZER_PHP]

FreeHandles == Handles \ DOMAIN config

\* The function f with value v at x, and the function f without x.
With(f, x, v) == [y \in DOMAIN f \cup {x} |-> IF y = x THEN v ELSE f[y]]
Without(f, x) == [y \in DOMAIN f \ {x} |-> f[y]]

Creating == {r \in Requests : call[r].pc \in {"publish", "create"}}

Init ==
    /\ ini = PhpIni
    /\ config = [h \in {} |-> None]
    /\ shared = None
    /\ object = [r \in Requests |-> NoObject]
    /\ call = [r \in Requests |-> Idle]
    /\ maker = [h \in {} |-> None]

\* ini_set in a script writes ini_entry, under the other requests as well.
IniSet(r, setting, value) ==
    /\ call[r].pc = "idle"
    /\ ini' = [ini EXCEPT ![setting] = value]
    /\ UNCHANGED <<config, shared, object, call, maker>>

\* threadInit of a new worker thread binds the settings, which gives them the
\* values of php.ini again.
ThreadInit ==
    /\ ini' = PhpIni
    /\ UNCHANGED <<config, shared, object, call, maker>>

\* __construct on an object that has a handle: refused, but serializer_value
\* has been reset before.  (ConnectionPool has what a changed
\* persistent_connection argument does; here it stays the same.)
ConstructAgain(r) ==
    /\ call[r].pc = "idle"
    /\ object[r].handle # None
    /\ object' = [object EXCEPT ![r].serializer = SERIALIZER_PHP]
    /\ UNCHANGED <<ini, config, shared, call, maker>>

\* __construct of a persistent object finds a handle: its config is dropped.
ConstructReuses(r, options) ==
    /\ call[r].pc = "idle"
    /\ object[r].handle = None
    /\ options # NoArray
    /\ shared # None
    /\ object' = [object EXCEPT ![r] =
                    [handle |-> shared, serializer |-> GlobalSerializer(ini, options)]]
    /\ UNCHANGED <<ini, config, shared, call, maker>>

\* __construct reads the settings and then finds no handle, or does not look
\* for one.  (With options that are no array it fails and leaves the object
\* without a handle, as it was.)
ConstructMisses(r, options, persistent) ==
    /\ call[r].pc = "idle"
    /\ object[r].handle = None
    /\ options # NoArray
    /\ persistent => shared = None
    /\ Cardinality(FreeHandles) > Cardinality(Creating)     \* the bound
    /\ object' = [object EXCEPT ![r].serializer = GlobalSerializer(ini, options)]
    /\ call' = [call EXCEPT ![r] =
                  [Idle EXCEPT !.pc = IF persistent THEN "publish" ELSE "create",
                               !.new = ConfigOf(ini, options),
                               !.made = [ini |-> ini, options |-> options,
                                         persistent |-> persistent]]]
    /\ UNCHANGED <<ini, config, shared, maker>>

\* create_new_host_entry; a persistent handle is put into persistent_list, in
\* place of one that another constructor may have put there meanwhile.
Create(r) ==
    /\ call[r].pc \in {"publish", "create"}
    /\ \E h \in FreeHandles :
        /\ config' = With(config, h, call[r].new)
        /\ maker' = With(maker, h, call[r].made)
        /\ object' = [object EXCEPT ![r].handle = h]
        /\ shared' = IF call[r].pc = "publish" THEN h ELSE shared
    /\ call' = [call EXCEPT ![r] = Idle]
    /\ UNCHANGED ini

\* A method up to its request: initPolicyManager and set_policy succeed.
Prepare(r, kind, options) ==
    /\ call[r].pc = "idle"
    /\ object[r].handle # None
    /\ ~Refused(kind, options)
    /\ LET h == object[r].handle IN
        /\ call' = [call EXCEPT ![r] =
                      [Idle EXCEPT !.pc = "send", !.kind = kind, !.options = options,
                                   !.policy = CallPolicy(h, kind, options),
                                   !.serializer = CallSerializer(r, kind, options)]]
        /\ config' = [config EXCEPT ![h] = StoredInHandle(h, kind, options)]
    /\ UNCHANGED <<ini, shared, object, maker>>

\* set_policy fails: nothing is sent.
Refuse(r, kind, options) ==
    /\ call[r].pc = "idle"
    /\ object[r].handle # None
    /\ Refused(kind, options)
    /\ LET h == object[r].handle IN
        config' = [config EXCEPT ![h] = StoredInHandle(h, kind, options)]
    /\ UNCHANGED <<ini, shared, object, call, maker>>

\* The request goes out with the policy on the stack of the call.
Send(r) ==
    /\ call[r].pc = "send"
    /\ call' = [call EXCEPT ![r] = Idle]
    /\ UNCHANGED <<ini, config, shared, object, maker>>

\* The request ends.  The runtime restores the settings that its script has
\* changed (external; the model leaves open whether it had changed any), and a
\* private handle is freed.
EndRequest(r) ==
    LET h == object[r].handle IN
    /\ call[r].pc = "idle"
    /\ object' = [object EXCEPT ![r] = NoObject]
    /\ ini' \in {ini, PhpIni}
    /\ IF h # None /\ ~maker[h].persistent
       THEN /\ config' = Without(config, h)
            /\ maker' = Without(maker, h)
       ELSE UNCHANGED <<config, maker>>
    /\ UNCHANGED <<shared, call>>

RequestStep(r) ==
    \/ \E setting \in Settings : \E value \in IniValues[setting] : IniSet(r, setting, value)
    \/ ConstructAgain(r)
    \/ Create(r)
    \/ Send(r)
    \/ EndRequest(r)
    \/ \E options \in Options :
        \/ ConstructReuses(r, options)
        \/ \E persistent \in BOOLEAN : ConstructMisses(r, options, persistent)
        \/ \E kind \in Methods[r] : Prepare(r, kind, options) \/ Refuse(r, kind, options)

Next == ThreadInit \/ \E r \in Requests : RequestStep(r)

Spec == Init /\ [][Next]_vars

-----------------------------------------------------------------------------
(* Properties. *)

PolicyType(kind) == [FieldsOf(kind) -> Int]

ConfigType(c) ==
    /\ DOMAIN c = {"conn", "global", "policy"}
    /\ c.conn \in Int
    /\ c.global \in [Enums \cup {"timeout"} -> Int]
    /\ DOMAIN c.policy = Kinds
    /\ \A kind \in Kinds : c.policy[kind] \in PolicyType(kind)

\* Every handle has a complete configuration and every object a handle that
\* exists; the policies of a call are integers, for exactly the fields that its
\* type has.
TypeOK ==
    /\ ini \in [Settings -> Int]
    /\ DOMAIN config \subseteq Handles
    /\ \A h \in DOMAIN config : ConfigType(config[h])
    /\ DOMAIN maker = DOMAIN config
    /\ shared \in DOMAIN config \cup {None}
    /\ object \in [Requests -> [handle : DOMAIN config \cup {None}, serializer : Int]]
    /\ DOMAIN call = Requests
    /\ \A r \in Requests :
        /\ call[r].pc \in {"idle", "publish", "create", "send"}
        /\ call[r].policy \in PolicyType(call[r].kind)

\* The timeout that the layers ask for: the options of the call, then the
\* options of the constructor that created the handle, which configure read and
\* write only, then the INI settings that this constructor read.  For operate
\* and remove the code has put the key policy in the place of the write timeout.
Readers == {"read", "batch", "query", "scan", "info"}
Writers == {"write", "operate", "remove", "apply", "scan", "info"}

TimeoutAsked(kind, options, m) ==
    IF kind \in Writers /\ Gives(options, "WRITE_TIMEOUT")
    THEN options["WRITE_TIMEOUT"]
    ELSE IF kind \in Readers /\ Gives(options, "READ_TIMEOUT")
    THEN options["READ_TIMEOUT"]
    ELSE IF kind = "write"
    THEN Given(m.options, "WRITE_TIMEOUT", m.ini.write_timeout)
    ELSE IF kind = "read"
    THEN Given(m.options, "READ_TIMEOUT", m.ini.read_timeout)
    ELSE IF kind \in {"operate", "remove"} THEN m.ini.key_policy
    ELSE IF kind \in Readers THEN m.ini.read_timeout ELSE m.ini.write_timeout

\* The other policies: the options of the call, then for the key policy of read
\* and write the INI setting.
EnumAsked(kind, field, options, m) ==
    Given(options, OptionOf[field],
          IF field = "key" /\ kind \in {"read", "write"} THEN m.ini.key_policy
                                                         ELSE Undefined)

\* A value, or where it is undefined the option of the constructor that created
\* the handle, or else the default of the C client.
OrGlobal(value, field, m) ==
    IF value # Undefined THEN value
    ELSE IF field = "timeout" THEN Default ELSE Given(m.options, OptionOf[field], Default)

\* A request goes out with the policies that its own options ask for, or else
\* with those that the creator of the handle configured from its options and the
\* INI settings of that time: options of other calls, constructors that reused
\* the handle and later ini_set calls, in whatever request, have no part in it.
CallPolicies ==
    \A r \in Requests : call[r].pc = "send" =>
        LET kind == call[r].kind
            m == maker[object[r].handle]
            sent == Resolved(object[r].handle, call[r].policy)
        IN /\ sent["timeout"] =
                OrGlobal(TimeoutAsked(kind, call[r].options, m), "timeout", m)
           /\ \A field \in EnumsOf[kind] :
                sent[field] = OrGlobal(EnumAsked(kind, field, call[r].options, m), field, m)

\* While a handle exists no call and no constructor changes the policies in it:
\* the connect timeout is the only part of it that leaks between the users.
HandlePoliciesFixed ==
    [][\A h \in DOMAIN config \cap DOMAIN config' :
          config'[h] = [config[h] EXCEPT !.conn = config'[h].conn]]_vars
=============================================================================
