--------------------------- MODULE PoliciesProofs ---------------------------
(***************************************************************************)
(* What a call sends depends on its own options and on the creator of its  *)
(* handle only, for any number of requests, handles and option arguments.  *)
(*                                                                         *)
(* The invariant says of every handle that its policies are still those    *)
(* that ConfigOf computed for its creator, from the settings of the time   *)
(* when it read them, of a constructor that has found no handle that its   *)
(* as_config is of that kind, and of every prepared call that its policy   *)
(* is the one that set_policy computes from the handle.  Freeing a private *)
(* handle preserves it because no other object can have it.                *)
(***************************************************************************)
EXTENDS Policies, TLAPS

MadePolicy(h, kind) == ConfigOf(maker[h].ini, maker[h].options).policy[kind]

Shape ==
    /\ ini \in [Settings -> Int]
    /\ DOMAIN config \subseteq Handles
    /\ DOMAIN maker = DOMAIN config
    /\ shared \in DOMAIN config \cup {None}
    /\ object \in [Requests -> [handle : DOMAIN config \cup {None}, serializer : Int]]
    /\ DOMAIN call = Requests

\* Only persistent handles are shared.
Sharing ==
    /\ shared # None => maker[shared].persistent
    /\ \A r, q \in Requests :
        r # q /\ object[r].handle = object[q].handle /\ object[r].handle # None =>
            maker[object[r].handle].persistent

\* A handle still has the policies it was created with.
Configured ==
    \A h \in DOMAIN config :
        /\ config[h] = [conn |-> config[h].conn, global |-> config[h].global,
                        policy |-> config[h].policy]
        /\ config[h].conn \in Int
        /\ maker[h].ini \in [Settings -> Int]
        /\ config[h].global = ConfigOf(maker[h].ini, maker[h].options).global
        /\ config[h].policy = ConfigOf(maker[h].ini, maker[h].options).policy

\* A call before its request carries what set_policy computes.
Prepared(r) ==
    /\ call[r].pc \in {"idle", "publish", "create", "send"}
    /\ call[r].pc # "send" => call[r].kind = "read" /\ call[r].policy = Idle.policy
    /\ call[r].pc \in {"publish", "create"} =>
        /\ call[r].made.ini \in [Settings -> Int]
        /\ call[r].new = ConfigOf(call[r].made.ini, call[r].made.options)
    /\ call[r].pc = "publish" => call[r].made.persistent
    /\ call[r].pc = "send" =>
        /\ object[r].handle # None
        /\ call[r].kind \in Kinds
        /\ call[r].policy =
             [field \in FieldsOf(call[r].kind) |->
                Assigned(call[r].options, SourcesOf(call[r].kind, field),
                         MadePolicy(object[r].handle, call[r].kind)[field])]

PolicyInv == Shape /\ Sharing /\ Configured /\ (\A r \in Requests : Prepared(r))

-----------------------------------------------------------------------------
(* Lemmas about the operators. *)

\* Given returns the option or the other value.
LEMMA GivenInt ==
    ASSUME NEW options, NEW o, NEW v \in Int
    PROVE  Given(options, o, v) \in Int
BY DEF Given, Gives

\* Kinds have the tables' fields.
LEMMA KindFields ==
    ASSUME NEW kind \in Kinds
    PROVE  /\ EnumsOf[kind] \subseteq Enums
           /\ "timeout" \in FieldsOf(kind)
           /\ "timeout" \notin Enums
BY DEF Kinds, EnumsOf, Enums, FieldsOf

\* The configuration of a new handle is a record whose policies are integers.
LEMMA ConfigShape ==
    ASSUME NEW settings \in [Settings -> Int], NEW options
    PROVE  /\ ConfigOf(settings, options) =
                [conn |-> ConfigOf(settings, options).conn,
                 global |-> ConfigOf(settings, options).global,
                 policy |-> ConfigOf(settings, options).policy]
           /\ ConfigOf(settings, options).conn \in Int
           /\ ConfigOf(settings, options).global \in [Enums \cup {"timeout"} -> Int]
           /\ DOMAIN ConfigOf(settings, options).policy = Kinds
           /\ \A kind \in Kinds : ConfigOf(settings, options).policy[kind] \in PolicyType(kind)
<1>1. /\ settings.connect_timeout \in Int /\ settings.read_timeout \in Int
      /\ settings.write_timeout \in Int /\ settings.key_policy \in Int
  BY DEF Settings
<1>2. Default \in Int /\ Undefined \in Int
  BY ValueAssumption DEF Undefined
<1>3. \A kind : IniTimeout(settings, kind) \in Int
  BY <1>1 DEF IniTimeout
<1>4. \A kind, field : IniEnum(settings, kind, field) \in Int
  BY <1>1, <1>2 DEF IniEnum
<1>5. \A kind : ConfiguredTimeout(settings, options, kind) \in Int
  BY <1>3, GivenInt DEF ConfiguredTimeout
<1>6. \A field : GlobalDefault(options, field) \in Int
  BY <1>2, GivenInt DEF GlobalDefault
<1>7. Given(options, "CONNECT_TIMEOUT", settings.connect_timeout) \in Int
  BY <1>1, GivenInt
<1>8. QED
  BY <1>4, <1>5, <1>6, <1>7 DEF ConfigOf, PolicyType

\* Assignments from options keep an integer field an integer.
LEMMA AssignedInt ==
    ASSUME NEW options, NEW sources, NEW v \in Int
    PROVE  Assigned(options, sources, v) \in Int
BY GivenInt DEF Assigned

-----------------------------------------------------------------------------
\* The invariant holds initially.
LEMMA InitInv == Init => PolicyInv
<1> SUFFICES ASSUME Init PROVE PolicyInv
  OBVIOUS
<1>1. Shape
  BY IniAssumption, ValueAssumption DEF Init, Shape, NoObject, SERIALIZER_PHP
<1>2. Sharing
  BY DEF Init, Sharing, NoObject
<1>3. Configured
  BY DEF Init, Configured
<1>4. \A r \in Requests : Prepared(r)
  BY Zenon DEF Init, Prepared, Idle
<1>5. QED
  BY <1>1, <1>2, <1>3, <1>4 DEF PolicyInv

\* A call that did not change stays prepared as long as its object and the
\* creation record of its handle are unchanged.
LEMMA PreparedKept ==
    ASSUME NEW r \in Requests, Prepared(r), call'[r] = call[r],
           call[r].pc = "send" =>
               /\ object'[r] = object[r]
               /\ maker'[object[r].handle] = maker[object[r].handle]
    PROVE  Prepared(r)'
<1>1. CASE call[r].pc = "send"
  <2>1. MadePolicy(object[r].handle, call[r].kind)' = MadePolicy(object[r].handle, call[r].kind)
    BY <1>1 DEF MadePolicy
  <2>2. QED
    BY <1>1, <2>1 DEF Prepared
<1>2. CASE call[r].pc # "send"
  BY <1>2 DEF Prepared
<1>3. QED
  BY <1>1, <1>2

-----------------------------------------------------------------------------
\* Every step of a request preserves the invariant.
LEMMA SettingsInv ==
    ASSUME PolicyInv, ini' \in [Settings -> Int],
           UNCHANGED <<config, shared, object, call, maker>>
    PROVE  PolicyInv'
<1>1. Shape' /\ Sharing' /\ Configured'
  BY DEF PolicyInv, Shape, Sharing, Configured
<1>2. \A q \in Requests : Prepared(q)'
  BY PreparedKept DEF PolicyInv
<1>3. QED
  BY <1>1, <1>2 DEF PolicyInv

LEMMA IniSetInv ==
    ASSUME PolicyInv, NEW r \in Requests, NEW setting \in Settings,
           NEW value \in IniValues[setting], IniSet(r, setting, value)
    PROVE  PolicyInv'
<1>1. value \in Int
  BY IniAssumption
<1>2. ini' \in [Settings -> Int]
  BY <1>1 DEF IniSet, PolicyInv, Shape
<1>3. QED
  BY <1>2, SettingsInv DEF IniSet

LEMMA ThreadInitInv == ASSUME PolicyInv, ThreadInit PROVE PolicyInv'
BY SettingsInv, IniAssumption DEF ThreadInit

LEMMA ConstructAgainInv ==
    ASSUME PolicyInv, NEW r \in Requests, ConstructAgain(r) PROVE PolicyInv'
<1> USE DEF ConstructAgain
<1>1. Shape'
  BY DEF PolicyInv, Shape, SERIALIZER_PHP
<1>2. \A q \in Requests : object'[q].handle = object[q].handle
  BY DEF PolicyInv, Shape
<1>3. Sharing' /\ Configured'
  BY <1>2 DEF PolicyInv, Sharing, Configured
<1>4. \A q \in Requests : Prepared(q)'
  BY PreparedKept DEF PolicyInv, Shape
<1>5. QED
  BY <1>1, <1>3, <1>4 DEF PolicyInv

\* The serializer of a constructor.
LEMMA SerializerInt ==
    ASSUME Shape, NEW options PROVE GlobalSerializer(ini, options) \in Int
<1>1. ini.serializer_type \in Int
  BY DEF Shape, Settings
<1>2. QED
  BY <1>1, GivenInt DEF GlobalSerializer

LEMMA ReusesInv ==
    ASSUME PolicyInv, NEW r \in Requests, NEW options, ConstructReuses(r, options)
    PROVE  PolicyInv'
<1> USE DEF ConstructReuses
<1>0. shared \in DOMAIN config
  BY DEF PolicyInv, Shape
<1>1. Shape'
  BY <1>0, SerializerInt DEF PolicyInv, Shape
<1>2. Sharing'
  <2>1. object'[r].handle = shared /\ maker[shared].persistent
    BY DEF PolicyInv, Shape, Sharing
  <2>2. \A q \in Requests \ {r} : object'[q] = object[q]
    BY DEF PolicyInv, Shape
  <2>3. QED
    BY <2>1, <2>2 DEF PolicyInv, Sharing
<1>3. Configured'
  BY DEF PolicyInv, Configured
<1>4. \A q \in Requests : Prepared(q)'
  BY PreparedKept DEF PolicyInv, Shape
<1>5. QED
  BY <1>1, <1>2, <1>3, <1>4 DEF PolicyInv

LEMMA MissesInv ==
    ASSUME PolicyInv, NEW r \in Requests, NEW options, NEW persistent \in BOOLEAN,
           ConstructMisses(r, options, persistent)
    PROVE  PolicyInv'
<1> USE DEF ConstructMisses
<1>1. Shape'
  BY SerializerInt DEF PolicyInv, Shape
<1>2. \A q \in Requests : object'[q].handle = object[q].handle
  BY DEF PolicyInv, Shape
<1>3. Sharing' /\ Configured'
  BY <1>2 DEF PolicyInv, Sharing, Configured
<1>4. Prepared(r)'
  <2>1. /\ call'[r].pc = IF persistent THEN "publish" ELSE "create"
        /\ call'[r].kind = "read" /\ call'[r].policy = Idle.policy
        /\ call'[r].new = ConfigOf(ini, options)
        /\ call'[r].made = [ini |-> ini, options |-> options, persistent |-> persistent]
    BY DEF PolicyInv, Shape, Idle
  <2>2. ini \in [Settings -> Int]
    BY DEF PolicyInv, Shape
  <2>3. call'[r].pc = "publish" => call'[r].made.persistent
    <3>1. call'[r].pc = "publish" => persistent
      BY <2>1
    <3>2. call'[r].made.persistent = persistent
      BY <2>1
    <3>3. QED
      BY <3>1, <3>2, Zenon
  <2>4. call'[r].pc \in {"publish", "create"}
    BY <2>1
  <2>5. /\ call'[r].made.ini \in [Settings -> Int]
        /\ call'[r].new = ConfigOf(call'[r].made.ini, call'[r].made.options)
    BY <2>1, <2>2
  <2>6. QED
    BY <2>1, <2>3, <2>4, <2>5 DEF Prepared
<1>5. \A q \in Requests \ {r} : Prepared(q)'
  BY PreparedKept DEF PolicyInv, Shape
<1>6. QED
  BY <1>1, <1>3, <1>4, <1>5 DEF PolicyInv

LEMMA CreateInv == ASSUME PolicyInv, NEW r \in Requests, Create(r) PROVE PolicyInv'
<1>1. PICK h \in FreeHandles :
        /\ config' = With(config, h, call[r].new)
        /\ maker' = With(maker, h, call[r].made)
        /\ object' = [object EXCEPT ![r].handle = h]
        /\ shared' = IF call[r].pc = "publish" THEN h ELSE shared
  BY DEF Create
<1> DEFINE made == call[r].made
<1>2. /\ call' = [call EXCEPT ![r] = Idle] /\ UNCHANGED ini
      /\ call[r].pc \in {"publish", "create"}
  BY DEF Create
<1>3. /\ h \in Handles /\ h \notin DOMAIN config /\ h # None
      /\ DOMAIN config' = DOMAIN config \cup {h}
      /\ DOMAIN maker' = DOMAIN maker \cup {h}
      /\ config'[h] = call[r].new
      /\ maker'[h] = made
      /\ \A x \in DOMAIN config : config'[x] = config[x] /\ maker'[x] = maker[x]
  BY <1>1, ValueAssumption DEF FreeHandles, With, PolicyInv, Shape
<1>0. /\ made.ini \in [Settings -> Int]
      /\ call[r].new = ConfigOf(made.ini, made.options)
      /\ call[r].pc = "publish" => made.persistent
  BY <1>2, Zenon DEF PolicyInv, Prepared
<1> HIDE DEF made
<1>4. Shape'
  BY <1>1, <1>2, <1>3 DEF PolicyInv, Shape
<1>5. \A q \in Requests \ {r} : object'[q] = object[q] /\ object[q].handle # h
  BY <1>1, <1>3 DEF PolicyInv, Shape
<1>6. object'[r].handle = h
  BY <1>1 DEF PolicyInv, Shape
<1>7. Sharing'
  <2>1. shared' # None => maker'[shared'].persistent
    <3>1. CASE call[r].pc = "publish"
      BY <1>0, <1>1, <1>3, <3>1, Zenon
    <3>2. CASE call[r].pc # "publish"
      BY <1>1, <1>3, <3>2 DEF PolicyInv, Sharing, Shape
    <3>3. QED
      BY <3>1, <3>2
  <2>2. \A q \in Requests \ {r} :
          object'[q].handle # None => object'[q].handle \in DOMAIN config
    BY <1>5 DEF PolicyInv, Shape
  <2>3. ASSUME NEW p \in Requests, NEW q \in Requests, p # q,
               object'[p].handle = object'[q].handle, object'[p].handle # None
        PROVE  maker'[object'[p].handle].persistent
    <3>1. p # r /\ q # r
      BY <2>2, <2>3, <1>3, <1>6
    <3>2. object[p].handle = object[q].handle /\ object[p].handle \in DOMAIN config
          /\ object[p].handle # None /\ object'[p].handle = object[p].handle
      BY <1>5, <2>2, <2>3, <3>1
    <3>3. maker[object[p].handle].persistent
      BY <2>3, <3>2 DEF PolicyInv, Sharing
    <3>4. QED
      BY <1>3, <3>2, <3>3
  <2>4. QED
    BY <2>1, <2>3 DEF Sharing
<1>8. Configured'
  BY <1>0, <1>3, ConfigShape DEF PolicyInv, Configured
<1>10. Prepared(r)'
  BY <1>2 DEF PolicyInv, Shape, Prepared, Idle
<1>11. \A q \in Requests \ {r} : Prepared(q)'
  <2> SUFFICES ASSUME NEW q \in Requests \ {r} PROVE Prepared(q)'
    OBVIOUS
  <2>1. Prepared(q) /\ call'[q] = call[q] /\ object'[q] = object[q]
    BY <1>2, <1>5 DEF PolicyInv, Shape
  <2>2. call[q].pc = "send" => object[q].handle \in DOMAIN config
    BY <2>1 DEF Prepared, PolicyInv, Shape
  <2>3. QED
    BY <2>1, <2>2, <1>3, PreparedKept
<1>12. QED
  BY <1>4, <1>7, <1>8, <1>10, <1>11 DEF PolicyInv

\* set_policy leaves the policies of the handle as they are.
LEMMA StoredInv ==
    ASSUME PolicyInv, NEW h \in DOMAIN config, NEW kind, NEW options,
           config' = [config EXCEPT ![h] = StoredInHandle(h, kind, options)],
           UNCHANGED <<shared, object, maker, ini>>, DOMAIN call' = Requests
    PROVE  Shape' /\ Sharing' /\ Configured'
<1>1. Given(options, "CONNECT_TIMEOUT", config[h].conn) \in Int
  BY GivenInt DEF PolicyInv, Configured
<1>2. /\ config'[h].conn \in Int
      /\ config'[h].global = config[h].global
      /\ config'[h].policy = config[h].policy
      /\ config'[h] = [conn |-> config'[h].conn, global |-> config'[h].global,
                       policy |-> config'[h].policy]
  BY <1>1 DEF StoredInHandle, PolicyInv, Configured
<1>3. DOMAIN config' = DOMAIN config /\ \A x \in DOMAIN config : x # h => config'[x] = config[x]
  OBVIOUS
<1>4. Configured'
  BY <1>2, <1>3 DEF PolicyInv, Configured
<1>5. QED
  BY <1>3, <1>4 DEF PolicyInv, Shape, Sharing

LEMMA PrepareInv ==
    ASSUME PolicyInv, NEW r \in Requests, NEW kind \in Kinds, NEW options,
           Prepare(r, kind, options)
    PROVE  PolicyInv'
<1> DEFINE h == object[r].handle
<1>1. h \in DOMAIN config /\ UNCHANGED <<shared, object, maker, ini>> /\ call[r].pc = "idle"
  BY DEF Prepare, PolicyInv, Shape
<1>2. /\ config' = [config EXCEPT ![h] = StoredInHandle(h, kind, options)]
      /\ call' = [call EXCEPT ![r] =
                    [Idle EXCEPT !.pc = "send", !.kind = kind, !.options = options,
                                 !.policy = CallPolicy(h, kind, options),
                                 !.serializer = CallSerializer(r, kind, options)]]
  BY DEF Prepare
<1>3. DOMAIN call' = Requests
  BY <1>2 DEF PolicyInv, Shape
<1>4. Shape' /\ Sharing' /\ Configured'
  BY <1>1, <1>2, <1>3, StoredInv
<1>5. /\ call'[r].pc = "send" /\ call'[r].kind = kind /\ call'[r].options = options
      /\ call'[r].policy = CallPolicy(h, kind, options)
  BY <1>2 DEF PolicyInv, Shape, Idle
<1>6. CallPolicy(h, kind, options) =
        [field \in FieldsOf(kind) |->
           Assigned(options, SourcesOf(kind, field), MadePolicy(h, kind)[field])]
  BY <1>1 DEF CallPolicy, Copied, MadePolicy, PolicyInv, Configured
<1>8. Prepared(r)'
  <2>1. object'[r] = object[r] /\ MadePolicy(h, kind)' = MadePolicy(h, kind)
    BY <1>1 DEF MadePolicy
  <2>2. h # None
    BY DEF Prepare
  <2>4. object'[r].handle = h
    BY <2>1
  <2>5. MadePolicy(object[r].handle, call[r].kind)' = MadePolicy(h, kind)
    BY <1>1, <1>5, <2>1, <2>4 DEF MadePolicy
  <2>6. QED
    BY <1>5, <1>6, <2>1, <2>2, <2>4, <2>5 DEF Prepared
<1>9. \A q \in Requests \ {r} : Prepared(q)'
  BY <1>1, <1>2, PreparedKept DEF PolicyInv, Shape
<1>10. QED
  BY <1>4, <1>8, <1>9 DEF PolicyInv

LEMMA RefuseInv ==
    ASSUME PolicyInv, NEW r \in Requests, NEW kind, NEW options, Refuse(r, kind, options)
    PROVE  PolicyInv'
<1>1. object[r].handle \in DOMAIN config /\ DOMAIN call' = Requests
  BY DEF Refuse, PolicyInv, Shape
<1>2. Shape' /\ Sharing' /\ Configured'
  BY <1>1, StoredInv DEF Refuse
<1>3. \A q \in Requests : Prepared(q)'
  BY PreparedKept DEF PolicyInv, Refuse
<1>4. QED
  BY <1>2, <1>3 DEF PolicyInv

LEMMA SendInv == ASSUME PolicyInv, NEW r \in Requests, Send(r) PROVE PolicyInv'
<1> USE DEF Send
<1>1. Shape' /\ Sharing' /\ Configured'
  BY DEF PolicyInv, Shape, Sharing, Configured
<1>2. Prepared(r)'
  BY DEF PolicyInv, Shape, Prepared, Idle
<1>3. \A q \in Requests \ {r} : Prepared(q)'
  BY PreparedKept DEF PolicyInv, Shape
<1>4. QED
  BY <1>1, <1>2, <1>3 DEF PolicyInv

LEMMA EndRequestInv == ASSUME PolicyInv, NEW r \in Requests, EndRequest(r) PROVE PolicyInv'
<1> DEFINE h == object[r].handle
<1>1. /\ object' = [object EXCEPT ![r] = NoObject]
      /\ ini' \in {ini, PhpIni}
      /\ UNCHANGED <<shared, call>> /\ call[r].pc = "idle"
  BY DEF EndRequest
<1>2. /\ object'[r] = NoObject
      /\ \A q \in Requests \ {r} : object'[q] = object[q]
  BY <1>1 DEF PolicyInv, Shape
<1>3. NoObject \in [handle : {None}, serializer : Int]
  BY DEF NoObject, SERIALIZER_PHP
<1>5. CASE h # None /\ ~maker[h].persistent
  <2>1. config' = Without(config, h) /\ maker' = Without(maker, h)
    BY <1>5 DEF EndRequest
  <2>2. h \in DOMAIN config /\ shared # h
    BY <1>5 DEF PolicyInv, Shape, Sharing
  <2>3. \A q \in Requests \ {r} : object[q].handle # h
    BY <1>5 DEF PolicyInv, Sharing
  <2>4. /\ DOMAIN config' = DOMAIN config \ {h} /\ DOMAIN maker' = DOMAIN config \ {h}
        /\ \A x \in DOMAIN config \ {h} : config'[x] = config[x] /\ maker'[x] = maker[x]
    BY <2>1 DEF Without, PolicyInv, Shape
  <2>5. Shape'
    <3>1. \A q \in Requests : object'[q] \in [handle : DOMAIN config' \cup {None},
                                            serializer : Int]
      BY <1>2, <1>3, <2>3, <2>4 DEF PolicyInv, Shape
    <3>2. QED
      BY <1>1, <2>2, <2>4, <3>1, IniAssumption DEF PolicyInv, Shape
  <2>6. Sharing'
    <3>1. \A q \in Requests \ {r} : object[q].handle # None => object[q].handle \in DOMAIN config \ {h}
      BY <2>3 DEF PolicyInv, Shape
    <3>2. object'[r].handle = None
      BY <1>2 DEF NoObject
    <3>3. shared # None => shared \in DOMAIN config \ {h}
      BY <2>2 DEF PolicyInv, Shape
    <3>4. QED
      BY <1>1, <1>2, <2>4, <3>1, <3>2, <3>3 DEF PolicyInv, Sharing
  <2>7. Configured'
    BY <2>4 DEF PolicyInv, Configured
  <2>8. \A q \in Requests : Prepared(q)'
    <3> SUFFICES ASSUME NEW q \in Requests PROVE Prepared(q)'
      OBVIOUS
    <3>1. CASE q = r
      BY <1>1, <3>1, PreparedKept DEF PolicyInv
    <3>2. CASE q # r
      <4>1. call[q].pc = "send" => object[q].handle \in DOMAIN config \ {h}
        BY <2>3, <3>2 DEF PolicyInv, Prepared, Shape
      <4>2. QED
        BY <1>1, <1>2, <2>4, <3>2, <4>1, PreparedKept DEF PolicyInv
    <3>3. QED
      BY <3>1, <3>2
  <2>9. QED
    BY <2>5, <2>6, <2>7, <2>8 DEF PolicyInv
<1>6. CASE ~(h # None /\ ~maker[h].persistent)
  <2>1. UNCHANGED <<config, maker>>
    BY <1>6 DEF EndRequest
  <2>2. Shape'
    BY <1>1, <1>3, <2>1, IniAssumption DEF PolicyInv, Shape
  <2>3. Sharing' /\ Configured'
    BY <1>1, <1>2, <2>1 DEF PolicyInv, Sharing, Configured, NoObject
  <2>4. \A q \in Requests : Prepared(q)'
    BY <1>1, <1>2, <2>1, PreparedKept DEF PolicyInv
  <2>5. QED
    BY <2>2, <2>3, <2>4 DEF PolicyInv
<1>7. QED
  BY <1>5, <1>6

\* The invariant is inductive.
LEMMA NextInv == PolicyInv /\ [Next]_vars => PolicyInv'
<1> SUFFICES ASSUME PolicyInv, [Next]_vars PROVE PolicyInv'
  OBVIOUS
<1>1. CASE UNCHANGED vars
  <2>1. Shape' /\ Sharing' /\ Configured'
    BY <1>1 DEF vars, PolicyInv, Shape, Sharing, Configured
  <2>2. \A q \in Requests : Prepared(q)'
    BY <1>1, PreparedKept DEF vars, PolicyInv
  <2>3. QED
    BY <2>1, <2>2 DEF PolicyInv
<1>2. CASE ThreadInit
  BY <1>2, ThreadInitInv
<1>3. CASE \E r \in Requests : RequestStep(r)
  <2>1. PICK r \in Requests : RequestStep(r)
    BY <1>3
  <2>2. Methods[r] \subseteq Kinds
    BY MethodsAssumption
  <2>3. QED
    BY <2>1, <2>2, IniSetInv, ConstructAgainInv, CreateInv, SendInv, EndRequestInv,
       ReusesInv, MissesInv, PrepareInv, RefuseInv DEF RequestStep
<1>4. QED
  BY <1>1, <1>2, <1>3 DEF Next

\* The invariant holds in every reachable state.
LEMMA AlwaysInv == Spec => []PolicyInv
<1>1. Init => PolicyInv
  BY InitInv
<1>2. PolicyInv /\ [Next]_vars => PolicyInv'
  BY NextInv
<1>3. QED
  BY <1>1, <1>2, PTL DEF Spec

-----------------------------------------------------------------------------
(* The theorems. *)

\* The policy of a handle, as its creator configured it, is an integer for
\* every field.
LEMMA MadePolicyType ==
    ASSUME PolicyInv, NEW h \in DOMAIN config, NEW kind \in Kinds
    PROVE  MadePolicy(h, kind) \in PolicyType(kind)
BY ConfigShape DEF PolicyInv, Configured, MadePolicy

\* Types.  The configuration of a handle and the policy of a call have an
\* integer in every field, whatever types the options of scripts have.
THEOREM PolicyTypes == Spec => []TypeOK
<1>1. ASSUME PolicyInv PROVE TypeOK
  <2>1. ASSUME NEW h \in DOMAIN config PROVE ConfigType(config[h])
    <3>1. maker[h].ini \in [Settings -> Int]
          /\ config[h].global = ConfigOf(maker[h].ini, maker[h].options).global
          /\ config[h].policy = ConfigOf(maker[h].ini, maker[h].options).policy
      BY <1>1, <2>1 DEF PolicyInv, Configured
    <3>2. /\ config[h].global \in [Enums \cup {"timeout"} -> Int]
          /\ DOMAIN config[h].policy = Kinds
          /\ \A kind \in Kinds : config[h].policy[kind] \in PolicyType(kind)
      BY <3>1, ConfigShape
    <3>3. /\ DOMAIN config[h] = {"conn", "global", "policy"}
          /\ config[h].conn \in Int
      BY <1>1, <2>1 DEF PolicyInv, Configured
    <3>4. QED
      BY <3>2, <3>3 DEF ConfigType
  <2>2. ASSUME NEW r \in Requests
        PROVE  call[r].policy \in PolicyType(call[r].kind)
    <3>0. Prepared(r)
      BY <1>1 DEF PolicyInv
    <3>1. CASE call[r].pc # "send"
      <4>1. Idle.policy \in PolicyType("read")
        BY DEF Idle, PolicyType, Undefined
      <4>2. QED
        BY <3>0, <3>1, <4>1 DEF Prepared
    <3>2. CASE call[r].pc = "send"
      <4> DEFINE h == object[r].handle
                 kind == call[r].kind
                 made == MadePolicy(h, kind)
      <4>1. h \in DOMAIN config /\ kind \in Kinds
        BY <1>1, <3>0, <3>2 DEF PolicyInv, Prepared, Shape
      <4>2. made \in PolicyType(kind)
        BY <1>1, <4>1, MadePolicyType
      <4>3. \A field \in FieldsOf(kind) : made[field] \in Int
        BY <4>2 DEF PolicyType
      <4>4. \A field \in FieldsOf(kind) :
              Assigned(call[r].options, SourcesOf(kind, field), made[field]) \in Int
        BY <4>3, AssignedInt
      <4>5. call[r].policy = [field \in FieldsOf(kind) |->
              Assigned(call[r].options, SourcesOf(kind, field), made[field])]
        BY <3>0, <3>2 DEF Prepared
      <4> HIDE DEF kind, made, h
      <4>6. call[r].policy \in PolicyType(kind)
        BY <4>4, <4>5 DEF PolicyType
      <4>7. QED
        BY <4>6 DEF kind
    <3>3. QED
      BY <3>1, <3>2
  <2>3. \A r \in Requests : call[r].pc \in {"idle", "publish", "create", "send"}
    BY <1>1 DEF PolicyInv, Prepared
  <2>4. QED
    BY <1>1, <2>1, <2>2, <2>3 DEF PolicyInv, Shape, TypeOK
<1>2. QED
  BY <1>1, AlwaysInv, PTL

\* What set_policy computes for the timeout from the creator's configuration
\* is what the three layers ask for.
LEMMA TimeoutLayers ==
    ASSUME NEW kind \in Kinds, NEW options, NEW m
    PROVE  Assigned(options, SourcesOf(kind, "timeout"),
                    ConfigOf(m.ini, m.options).policy[kind]["timeout"])
           = TimeoutAsked(kind, options, m)
<1>1. ConfigOf(m.ini, m.options).policy[kind]["timeout"] =
        ConfiguredTimeout(m.ini, m.options, kind)
  BY KindFields DEF ConfigOf
<1>2. SourcesOf(kind, "timeout") = TimeoutsOf[kind]
  BY DEF SourcesOf
<1>3. CASE kind = "read"
  BY <1>1, <1>2, <1>3 DEF Assigned, Given, TimeoutsOf, TimeoutAsked, Readers, Writers,
     ConfiguredTimeout, IniTimeout
<1>4. CASE kind = "write"
  BY <1>1, <1>2, <1>4 DEF Assigned, Given, TimeoutsOf, TimeoutAsked, Readers, Writers,
     ConfiguredTimeout, IniTimeout
<1>5. CASE kind = "apply"
  BY <1>1, <1>2, <1>5 DEF Assigned, Given, TimeoutsOf, TimeoutAsked, Readers, Writers,
     ConfiguredTimeout, IniTimeout
<1>6. CASE kind \in {"batch", "query"}
  BY <1>1, <1>2, <1>6 DEF Assigned, Given, TimeoutsOf, TimeoutAsked, Readers, Writers,
     ConfiguredTimeout, IniTimeout
<1>7. CASE kind \in {"scan", "info"}
  BY <1>1, <1>2, <1>7 DEF Assigned, Given, TimeoutsOf, TimeoutAsked, Readers, Writers,
     ConfiguredTimeout, IniTimeout
<1>8. CASE kind \in {"operate", "remove"}
  BY <1>1, <1>2, <1>8 DEF Assigned, Given, TimeoutsOf, TimeoutAsked, Readers, Writers,
     ConfiguredTimeout, IniTimeout
<1>9. QED
  BY <1>3, <1>4, <1>5, <1>6, <1>7, <1>8 DEF Kinds

\* The same for the other policies.
LEMMA EnumLayers ==
    ASSUME NEW kind \in Kinds, NEW field \in EnumsOf[kind], NEW options, NEW m
    PROVE  Assigned(options, SourcesOf(kind, field),
                    ConfigOf(m.ini, m.options).policy[kind][field])
           = EnumAsked(kind, field, options, m)
<1>1. field \in FieldsOf(kind) /\ field # "timeout"
  BY KindFields DEF FieldsOf
<1>2. ConfigOf(m.ini, m.options).policy[kind][field] = IniEnum(m.ini, kind, field)
  BY <1>1 DEF ConfigOf
<1>3. SourcesOf(kind, field) = <<OptionOf[field]>>
  BY <1>1 DEF SourcesOf
<1>4. QED
  BY <1>2, <1>3 DEF Assigned, EnumAsked, IniEnum

\* What the C client makes of a field is the value asked for, or the default
\* that the creator of the handle configured.
LEMMA ResolvedLayers ==
    ASSUME PolicyInv, NEW h \in DOMAIN config, NEW policy, NEW field \in DOMAIN policy,
           field \in Enums \cup {"timeout"}
    PROVE  Resolved(h, policy)[field] = OrGlobal(policy[field], field, maker[h])
<1>1. config[h].global[field] = GlobalDefault(maker[h].options, field)
  BY DEF PolicyInv, Configured, ConfigOf
<1>2. QED
  BY <1>1 DEF Resolved, OrGlobal, GlobalDefault

\* A request goes out with the policies that its own options ask for, or else
\* with those that the creator of the handle configured from its options and
\* the process-wide settings of that time, whatever other requests do between
\* set_policy and the request.
THEOREM PoliciesOfCalls == Spec => []CallPolicies
<1>1. ASSUME PolicyInv PROVE CallPolicies
  <2> SUFFICES ASSUME NEW r \in Requests, call[r].pc = "send"
               PROVE  LET kind == call[r].kind
                          m == maker[object[r].handle]
                          sent == Resolved(object[r].handle, call[r].policy)
                      IN /\ sent["timeout"] =
                              OrGlobal(TimeoutAsked(kind, call[r].options, m), "timeout", m)
                         /\ \A field \in EnumsOf[kind] :
                              sent[field] = OrGlobal(EnumAsked(kind, field, call[r].options, m),
                                                     field, m)
    BY Zenon DEF CallPolicies
  <2> DEFINE kind == call[r].kind
             h == object[r].handle
             m == maker[h]
  <2>1. /\ kind \in Kinds
        /\ call[r].policy = [field \in FieldsOf(kind) |->
             Assigned(call[r].options, SourcesOf(kind, field),
                      ConfigOf(m.ini, m.options).policy[kind][field])]
    BY <1>1, Zenon DEF PolicyInv, Prepared, MadePolicy
  <2>2. h \in DOMAIN config
    BY <1>1 DEF PolicyInv, Prepared, Shape
  <2> HIDE DEF kind, m, h
  <2>3. \A field \in FieldsOf(kind) :
          Resolved(h, call[r].policy)[field] = OrGlobal(call[r].policy[field], field, m)
    <3>1. DOMAIN call[r].policy = FieldsOf(kind)
      BY <2>1
    <3>2. FieldsOf(kind) \subseteq Enums \cup {"timeout"}
      BY <2>1, KindFields DEF FieldsOf
    <3>3. QED
      BY <1>1, <2>2, <3>1, <3>2, ResolvedLayers DEF m
  <2>4. call[r].policy["timeout"] = TimeoutAsked(kind, call[r].options, m)
    BY <2>1, KindFields, TimeoutLayers
  <2>5. \A field \in EnumsOf[kind] :
          call[r].policy[field] = EnumAsked(kind, field, call[r].options, m)
    BY <2>1, EnumLayers DEF FieldsOf
  <2>6. Resolved(h, call[r].policy)["timeout"] =
          OrGlobal(TimeoutAsked(kind, call[r].options, m), "timeout", m)
    BY <2>1, <2>3, <2>4, KindFields
  <2>7. \A field \in EnumsOf[kind] : Resolved(h, call[r].policy)[field] =
          OrGlobal(EnumAsked(kind, field, call[r].options, m), field, m)
    BY <2>3, <2>5, Zenon DEF FieldsOf
  <2>8. QED
    BY <2>6, <2>7, Zenon DEF kind, m, h
<1>2. QED
  BY <1>1, AlwaysInv, PTL

\* Nobody changes the policies of a handle while it exists; only the connect
\* timeout leaks from one user of the handle to the others.
THEOREM PoliciesStay == Spec => HandlePoliciesFixed
<1>1. ASSUME PolicyInv, [Next]_vars
      PROVE  [\A h \in DOMAIN config \cap DOMAIN config' :
                config'[h] = [config[h] EXCEPT !.conn = config'[h].conn]]_vars
  <2> SUFFICES ASSUME NEW h \in DOMAIN config, h \in DOMAIN config', Next
               PROVE  config'[h] = [config[h] EXCEPT !.conn = config'[h].conn]
    BY <1>1
  <2>1. config[h] = [conn |-> config[h].conn, global |-> config[h].global,
                     policy |-> config[h].policy]
    BY <1>1 DEF PolicyInv, Configured
  <2>2. ThreadInit => config' = config
    BY DEF ThreadInit
  <2>3. ASSUME NEW r \in Requests, RequestStep(r)
        PROVE  config'[h] = config[h] \/ \E v : config'[h] = [config[h] EXCEPT !.conn = v]
    <3>1. ASSUME \/ \E setting \in Settings : \E value \in IniValues[setting] :
                      IniSet(r, setting, value)
                 \/ ConstructAgain(r) \/ Send(r)
                 \/ \E options \in Options :
                      \/ ConstructReuses(r, options)
                      \/ \E persistent \in BOOLEAN : ConstructMisses(r, options, persistent)
          PROVE  config' = config
      <4>0. \A setting, value : IniSet(r, setting, value) => UNCHANGED config
        BY DEF IniSet
      <4>1. ConstructAgain(r) \/ Send(r) => UNCHANGED config
        BY DEF ConstructAgain, Send
      <4>2. \A options : ConstructReuses(r, options) => UNCHANGED config
        BY DEF ConstructReuses
      <4>3. \A options, persistent : ConstructMisses(r, options, persistent) => UNCHANGED config
        BY DEF ConstructMisses
      <4>4. QED
        BY <3>1, <4>0, <4>1, <4>2, <4>3
    <3>2. ASSUME Create(r) PROVE config'[h] = config[h]
      <4>1. PICK x \in FreeHandles :
              config' = With(config, x, call[r].new)
        BY <3>2 DEF Create
      <4>2. x # h
        BY DEF FreeHandles
      <4>3. QED
        BY <4>1, <4>2 DEF With
    <3>3. ASSUME EndRequest(r) PROVE config'[h] = config[h]
      <4>1. \/ config' = config
            \/ config' = [y \in DOMAIN config \ {object[r].handle} |-> config[y]]
        BY <3>3 DEF EndRequest, Without
      <4>2. QED
        BY <4>1
    <3>4. ASSUME NEW options, NEW kind, Prepare(r, kind, options) \/ Refuse(r, kind, options)
          PROVE  config'[h] = config[h] \/ \E v : config'[h] = [config[h] EXCEPT !.conn = v]
      <4>1. config' = [config EXCEPT ![object[r].handle] =
                         StoredInHandle(object[r].handle, kind, options)]
        BY <3>4 DEF Prepare, Refuse
      <4>2. QED
        BY <4>1 DEF StoredInHandle
    <3>5. QED
      <4>1. CASE \E options \in Options : \E kind \in Methods[r] :
                   Prepare(r, kind, options) \/ Refuse(r, kind, options)
        BY <4>1, <3>4
      <4>2. CASE ~\E options \in Options : \E kind \in Methods[r] :
                   Prepare(r, kind, options) \/ Refuse(r, kind, options)
        <5>1. \/ \E setting \in Settings : \E value \in IniValues[setting] :
                   IniSet(r, setting, value)
              \/ ConstructAgain(r) \/ Send(r) \/ Create(r) \/ EndRequest(r)
              \/ \E options \in Options :
                   \/ ConstructReuses(r, options)
                   \/ \E persistent \in BOOLEAN : ConstructMisses(r, options, persistent)
          BY <2>3, <4>2, Zenon DEF RequestStep
        <5>2. QED
          BY <5>1, <3>1, <3>2, <3>3
      <4>3. QED
        BY <4>1, <4>2
  <2>4. config'[h] = config[h] \/ \E v : config'[h] = [config[h] EXCEPT !.conn = v]
    BY <2>2, <2>3 DEF Next
  <2>5. QED
    BY <2>1, <2>4
<1>2. QED
  BY <1>1, AlwaysInv, PTL DEF Spec, HandlePoliciesFixed
=============================================================================
