------------------------ MODULE ConnectionPoolProofs ------------------------
(***************************************************************************)
(* Proofs about ConnectionPool, and about StreamCalls, which extends it,   *)
(* for every set of objects, aliases, blocks and configurations and every  *)
(* interleaving of their calls.                                            *)
(*                                                                         *)
(* The invariants, each with what it is built on:                          *)
(*                                                                         *)
(*   TypeInv     types, and what the control state says of an object       *)
(*   SafeInv     TypeInv; who may point to an aerospike_ref, and what its  *)
(*               ref_host_entry then is                                    *)
(*   PrivateInv  SafeInv; the flags and the counter of an object without a *)
(*               persistent connection                                     *)
(*   CountInv    PrivateInv; ref_php_object between its locked steps       *)
(*   OwnInv      SafeInv; every block has an owner                         *)
(*   SerialInv   CountInv; the exact count, for one request at a time      *)
(*   FindInv     TypeInv; the hosts that lead to a constructor's block,    *)
(*               for one request at a time                                 *)
(*   StreamInv   SafeInv; the handles of running scans and queries         *)
(*                                                                         *)
(* TypeInv always holds.  The others say what they need of the constants:  *)
(* a second __construct of an object, a failing connect or two requests at *)
(* once each break some of them.                                           *)
(***************************************************************************)
EXTENDS StreamCalls, FiniteSetTheorems, TLAPS

USE DEF lock, refs, fields, locals, main

-----------------------------------------------------------------------------
(* Types and control: TypeCorrect *)

\* The steps of a call that has found or created its entry.
Attached == {"match", "publish", "hosts", "check", "connect", "undo",
             "undo_store", "close", "reconnect", "sweep"}

\* What the control state of an object says of its pointer, of the local
\* variables it still needs and of the phase of the module.
StepOK(o) ==
    /\ pc[o] \in Attached => as_ref_p[o] # Null
    /\ pc[o] \in {"scan", "read", "create"} => as_ref_p[o] = Null
    /\ pc[o] \in {"scan", "read", "match"} => is_persistent[o]
    /\ pc[o] \in {"scan", "read", "match", "create", "publish", "hosts"}
          => hosts[o] \in Configs
    /\ pc[o] \in {"scan", "read", "match", "hosts"} => iter_hosts[o] \in 1 .. Len(hosts[o])
    /\ pc[o] # "idle" => module = "up"
    /\ module # "up" => as_ref_p[o] = Null

ControlInv == \A o \in Objects : StepOK(o)

TypeInv == TypeOK /\ ControlInv

\* A host list is a non-empty sequence of aliases.
LEMMA ConfigType ==
    ASSUME NEW c \in Configs
    PROVE  /\ c \in Seq(Aliases) /\ Len(c) \in Nat /\ Len(c) >= 1
           /\ \A i \in 1 .. Len(c) : c[i] \in Aliases
  <1>1. c \in Seq(Aliases) /\ c # <<>>
    BY ConfigsAssumption
  <1>2. QED
    BY <1>1

\* Every initial state is well typed.
LEMMA InitTypeInv == Init => TypeInv
  BY NullAssumption DEF Init, TypeInv, TypeOK, ControlInv, StepOK, Attached, Steps, Errors

\* Every step of a constructor preserves the typing invariant.
LEMMA ConstructTypeInv ==
    ASSUME TypeInv, NEW o \in Objects, ConstructStep(o)
    PROVE  TypeInv'
  <1> USE DEF TypeInv, TypeOK, ControlInv, StepOK, Attached, Steps, Errors, Goto, CanCall, Return
  <1>1. CASE \E config \in Configs, p \in BOOLEAN : Construct(o, config, p)
    BY <1>1, ConfigType DEF Construct
  <1>2. CASE \E p \in BOOLEAN : ConstructBadConfig(o, p)
    BY <1>2 DEF ConstructBadConfig
  <1>3. CASE \E p \in ReconstructModes : ConstructAgain(o, p)
    BY <1>3, ModesAssumption DEF ConstructAgain
  <1>4. CASE ScanLock(o)
    BY <1>4 DEF ScanLock
  <1>5. CASE ScanHit(o)
    BY <1>5, NullAssumption DEF ScanHit, ReadUnlock
  <1>6. CASE ScanMiss(o)
    <2>1. /\ hosts[o] \in Configs /\ Len(hosts[o]) \in Nat
          /\ iter_hosts[o] \in 1 .. Len(hosts[o])
      BY <1>6, ConfigType DEF ScanMiss
    <2>a. persistent_list' \in [Aliases -> Refs \cup {Null, Absent}]
      BY <1>6 DEF ScanMiss
    <2>b. pc' \in [Objects -> Steps] /\ iter_hosts' \in [Objects -> Nat]
      BY <1>6, <2>1 DEF ScanMiss
    <2>2. TypeOK'
      BY <1>6, <2>a, <2>b DEF ScanMiss, ReadUnlock
    <2>3. ControlInv'
      BY <1>6, <2>1 DEF ScanMiss
    <2>4. QED
      BY <2>2, <2>3
  <1>7. CASE MatchStore(o)
    BY <1>7, ConfigType, NullAssumption DEF MatchStore, StoreAndUnlock, VisitHost, NextHost
  <1>8. CASE \E r \in Refs : CreateHostEntry(o, r)
    BY <1>8, NullAssumption DEF CreateHostEntry, NewHostEntries
  <1>9. CASE CreateFails(o)
    BY <1>9 DEF CreateFails
  <1>10. CASE Publish(o)
    BY <1>10, ConfigType DEF Publish, VisitHost, NextHost
  <1>11. CASE AddHostEntry(o)
    <2>1. /\ hosts[o] \in Configs /\ Len(hosts[o]) \in Nat
          /\ iter_hosts[o] \in 1 .. Len(hosts[o])
      BY <1>11, ConfigType DEF AddHostEntry
    <2>a. persistent_list' \in [Aliases -> Refs \cup {Null, Absent}]
      BY <1>11 DEF AddHostEntry
    <2>c. as_ref_p[o] \in Refs
      BY <1>11 DEF AddHostEntry
    <2>d. ref_host_entry' \in [Refs -> Nat]
      BY <1>11, <2>c DEF AddHostEntry, CountHostEntry
    <2>b. /\ pc' \in [Objects -> Steps]
          /\ iter_hosts' \in [Objects -> Nat]
          /\ matched_host_id' \in [Objects -> Nat]
      BY <1>11, <2>1 DEF AddHostEntry, VisitHost, NextHost
    <2>2. TypeOK'
      BY <1>11, <2>a, <2>b, <2>d DEF AddHostEntry
    <2>3. ControlInv'
      BY <1>11, <2>1 DEF AddHostEntry, VisitHost, NextHost
    <2>4. QED
      BY <2>2, <2>3
  <1>12. CASE CheckFirst(o)
    BY <1>12 DEF CheckFirst
  <1>13. CASE CheckShared(o)
    BY <1>13 DEF CheckShared
  <1>14. CASE ConnectOK(o)
    BY <1>14 DEF ConnectOK
  <1>15. CASE ConnectFails(o)
    BY <1>15 DEF ConnectFails
  <1>16. CASE UndoLoad(o)
    BY <1>16 DEF UndoLoad
  <1>17. CASE UndoStore(o)
    BY <1>17 DEF UndoStore
  <1>18. QED
    BY <1>1, <1>2, <1>3, <1>4, <1>5, <1>6, <1>7, <1>8, <1>9, <1>10, <1>11,
       <1>12, <1>13, <1>14, <1>15, <1>16, <1>17 DEF ConstructStep

\* So do the locked loads and every step of close, reconnect and sweep.
LEMMA ObjectTypeInv ==
    ASSUME TypeInv, NEW o \in Objects,
           LockAndLoad(o) \/ CloseStep(o) \/ ReconnectStep(o) \/ SweepStep(o)
    PROVE  TypeInv'
  <1> USE DEF TypeInv, TypeOK, ControlInv, StepOK, Attached, Steps, Errors, Goto, CanCall, Return
  <1>1. CASE LockAndLoad(o)
    BY <1>1 DEF LockAndLoad
  <1>2. CASE CloseRefused(o)
    <2>1. \E e \in Errors : Return(o, e)
      BY <1>2 DEF CloseRefused
    <2>2. QED
      BY <1>2, <2>1 DEF CloseRefused
  <1>3. CASE ClosePrivate(o)
    BY <1>3 DEF ClosePrivate, Disconnect
  <1>4. CASE ClosePersistent(o)
    BY <1>4 DEF ClosePersistent
  <1>5. CASE CloseStore(o)
    BY <1>5 DEF CloseStore, StoreAndUnlock, Disconnect
  <1>6. CASE ReconnectRefused(o)
    <2>1. \E e \in Errors : Return(o, e)
      BY <1>6 DEF ReconnectRefused
    <2>2. QED
      BY <1>6, <2>1 DEF ReconnectRefused
  <1>7. CASE ReconnectPrivate(o)
    BY <1>7 DEF ReconnectPrivate
  <1>8. CASE ReconnectPersistent(o)
    BY <1>8 DEF ReconnectPersistent
  <1>9. CASE ReconnectStore(o)
    BY <1>9 DEF ReconnectStore, StoreAndUnlock
  <1>10. CASE SweepConnected(o)
    BY <1>10 DEF SweepConnected
  <1>11. CASE SweepStore(o)
    <2>1. live' \subseteq Refs /\ cluster' \in [Refs -> BOOLEAN]
      BY <1>11 DEF SweepStore, SweepHandle, Release
    <2>2. ref_php_object' \in [Refs -> Int] /\ writer' = Null
      BY <1>11 DEF SweepStore, StoreAndUnlock
    <2>3. TypeOK'
      BY <1>11, <2>1, <2>2 DEF SweepStore, Gone
    <2>4. ControlInv'
      BY <1>11 DEF SweepStore, Gone
    <2>5. QED
      BY <2>3, <2>4
  <1>12. CASE SweepDisconnected(o)
    <2>1. live' \subseteq Refs /\ cluster' \in [Refs -> BOOLEAN]
      BY <1>12 DEF SweepDisconnected, SweepHandle, Release
    <2>2. QED
      BY <1>12, <2>1 DEF SweepDisconnected, Gone
  <1>13. QED
    BY <1>1, <1>2, <1>3, <1>4, <1>5, <1>6, <1>7, <1>8, <1>9, <1>10, <1>11, <1>12
       DEF CloseStep, ReconnectStep, SweepStep

\* And moduleShutdown.
LEMMA ShutdownTypeInv ==
    ASSUME TypeInv, ShutdownStep
    PROVE  TypeInv'
  <1> USE DEF TypeInv, TypeOK, ControlInv, StepOK, Attached, Steps, Errors
  <1>1. CASE ShutdownStart
    BY <1>1 DEF ShutdownStart
  <1>2. CASE \E a \in Aliases : ShutdownVisit(a)
    <2>1. /\ live' \subseteq Refs
          /\ cluster' \in [Refs -> BOOLEAN]
          /\ ref_host_entry' \in [Refs -> Nat]
          /\ ref_php_object' \in [Refs -> Int]
      <3> PICK a \in Aliases : ShutdownVisit(a)
        BY <1>2
      <3> DEFINE r == persistent_list[a]
      <3>1. CASE r \notin Refs
        BY <3>1 DEF ShutdownVisit
      <3>2. CASE r \in Refs /\ ~LastEntry(r)
        <4>1. /\ ref_host_entry' = [ref_host_entry EXCEPT ![r] = @ - 1]
              /\ UNCHANGED <<live, ref_php_object, cluster>>
          BY <3>2 DEF ShutdownVisit
        <4>2. ref_host_entry[r] \in Nat /\ ref_host_entry[r] > 1
          BY <3>2 DEF LastEntry
        <4>3. QED
          BY <3>2, <4>1, <4>2
      <3>3. CASE r \in Refs /\ LastEntry(r)
        <4>1. /\ ref_host_entry' = [ref_host_entry EXCEPT ![r] = 0]
              /\ Release(r)
              /\ UNCHANGED ref_php_object
          BY <3>3 DEF ShutdownVisit
        <4>2. QED
          BY <4>1 DEF Release
      <3>4. QED
        BY <3>1, <3>2, <3>3
    <2>2. QED
      BY <1>2, <2>1 DEF ShutdownVisit, AdvancePast
  <1>3. CASE ShutdownEnd
    BY <1>3 DEF ShutdownEnd
  <1>4. QED
    BY <1>1, <1>2, <1>3 DEF ShutdownStep

LEMMA StutterTypeInv ==
    ASSUME TypeInv, UNCHANGED vars
    PROVE  TypeInv'
  BY DEF TypeInv, TypeOK, ControlInv, StepOK, vars

\* The typing invariant of the lifecycle holds in every reachable state.
THEOREM TypeCorrect == Spec => []TypeOK
  <1>1. Init => TypeInv
    BY InitTypeInv
  <1>2. TypeInv /\ [Next]_vars => TypeInv'
    BY ConstructTypeInv, ObjectTypeInv, ShutdownTypeInv, StutterTypeInv DEF Next, Ended
  <1>3. TypeInv => TypeOK
    BY DEF TypeInv
  <1>4. QED
    BY <1>1, <1>2, <1>3, PTL DEF Spec

-----------------------------------------------------------------------------
(* SafeInv: NoDangling, HostEntriesCovered and PersistentStaysOpen *)

\* An object's entry is allocated.  Between the lookup or the allocation and the
\* last alias it has a positive ref_host_entry; the entry of a non-persistent
\* object has none; an entry about to be published is in no slot of the table.
ObjectSafe(o) ==
    /\ as_ref_p[o] # Null => as_ref_p[o] \in live
    /\ pc[o] \in {"match", "publish", "hosts"} => ref_host_entry[as_ref_p[o]] > 0
    /\ (as_ref_p[o] # Null /\ ~is_persistent[o]) => ref_host_entry[as_ref_p[o]] = 0
    /\ pc[o] = "publish" => \A a \in Aliases : persistent_list[a] # as_ref_p[o]

\* Two objects share an entry only if it has been published.
PairSafe(o, q) ==
    (o # q /\ as_ref_p[o] = as_ref_p[q] /\ as_ref_p[o] # Null) =>
        /\ ref_host_entry[as_ref_p[o]] > 0
        /\ pc[o] # "publish"

\* An entry that a lookup or moduleShutdown can reach is allocated.
TableSafe ==
    \A r \in Refs : Entries(r) # {} => r \in live

SafeInv ==
    /\ TypeInv
    /\ \A o \in Objects : ObjectSafe(o)
    /\ \A o, q \in Objects : PairSafe(o, q)
    /\ TableSafe
    /\ HostEntriesCovered

-----------------------------------------------------------------------------
(* The table and its counters *)

LEMMA EntriesFinite ==
    ASSUME NEW r
    PROVE  /\ IsFiniteSet(Entries(r))
           /\ Cardinality(Entries(r)) \in Nat
  <1>1. Entries(r) \in SUBSET Aliases
    BY DEF Entries
  <1>2. IsFiniteSet(Entries(r))
    BY <1>1, AliasesAssumption, FS_Subset
  <1>3. QED
    BY <1>2, FS_CardinalityType

\* An entry with an alias has a positive counter.
LEMMA EntryCounted ==
    ASSUME TypeOK, HostEntriesCovered, NEW r \in Refs, Entries(r) # {}
    PROVE  ref_host_entry[r] > 0
  <1>1. Cardinality(Entries(r)) # 0
    BY EntriesFinite, FS_EmptySet
  <1>2. Cardinality(Entries(r)) <= ref_host_entry[r] /\ ref_host_entry[r] \in Nat
    BY DEF HostEntriesCovered, TypeOK
  <1>3. QED
    BY <1>1, <1>2, EntriesFinite

\* The counter of an entry that is at most 1 stands for at most one alias.
LEMMA LastEntryAlone ==
    ASSUME TypeOK, HostEntriesCovered, NEW r \in Refs, ref_host_entry[r] <= 1,
           NEW a \in Entries(r)
    PROVE  Entries(r) = {a}
  <1>1. Cardinality(Entries(r)) <= 1
    BY EntriesFinite DEF HostEntriesCovered, TypeOK
  <1>2. Cardinality(Entries(r)) # 0
    BY EntriesFinite, FS_EmptySet
  <1>3. Cardinality(Entries(r)) = 1
    BY <1>1, <1>2, EntriesFinite
  <1>4. PICK b : Entries(r) = {b}
    BY <1>3, EntriesFinite, FS_Singleton
  <1>5. QED
    BY <1>4

\* A step that leaves the table and its counters alone keeps them in order.
LEMMA TableFrame ==
    ASSUME TypeOK, TableSafe, HostEntriesCovered,
           UNCHANGED <<persistent_list, ref_host_entry, module, unvisited>>,
           live \subseteq live'
    PROVE  TableSafe' /\ HostEntriesCovered'
  <1>1. ASSUME NEW r \in Refs PROVE Entries(r)' = Entries(r)
    BY DEF Entries
  <1>2. TableSafe'
    BY <1>1 DEF TableSafe
  <1>3. HostEntriesCovered'
    <2>1. ASSUME NEW r \in Refs
          PROVE  Cardinality(Entries(r)') <= ref_host_entry'[r]
      BY <1>1 DEF HostEntriesCovered
    <2>2. QED
      BY <2>1 DEF HostEntriesCovered
  <1>4. QED
    BY <1>2, <1>3

-----------------------------------------------------------------------------
(* One lemma per kind of step *)

\* A step of one object that touches neither the table nor the pointers, does
\* not bring the object to a step that needs a counted entry, and does not turn
\* a persistent object with an entry into a non-persistent one.
Plain(o) ==
    /\ UNCHANGED <<persistent_list, live, ref_host_entry, module, unvisited, as_ref_p>>
    /\ \A q \in Objects : q # o =>
          pc'[q] = pc[q] /\ is_persistent'[q] = is_persistent[q]
    /\ pc'[o] # "publish"
    /\ pc'[o] \in {"match", "hosts"} => pc[o] \in {"match", "hosts"}
    /\ (as_ref_p[o] # Null /\ is_persistent[o]) => is_persistent'[o]

LEMMA PlainSafe ==
    ASSUME SafeInv, TypeInv', NEW o \in Objects, Plain(o)
    PROVE  SafeInv'
  <1>1. TableSafe' /\ HostEntriesCovered'
    BY TableFrame DEF SafeInv, TypeInv, Plain
  <1>2. ASSUME NEW q \in Objects PROVE ObjectSafe(q)'
    BY DEF SafeInv, ObjectSafe, Plain
  <1>3. ASSUME NEW q \in Objects, NEW p \in Objects PROVE PairSafe(q, p)'
    BY DEF SafeInv, PairSafe, Plain
  <1>4. QED
    BY <1>1, <1>2, <1>3 DEF SafeInv

\* The object adopts an entry of the table.
LEMMA ScanHitSafe ==
    ASSUME SafeInv, TypeInv', NEW o \in Objects, ScanHit(o)
    PROVE  SafeInv'
  <1> DEFINE r == persistent_list[Alias(o)]
  <1>1. /\ r \in Refs /\ Alias(o) \in Aliases /\ module = "up"
        /\ as_ref_p' = [as_ref_p EXCEPT ![o] = r]
        /\ pc' = [pc EXCEPT ![o] = "match"] /\ pc[o] = "read"
        /\ is_persistent[o]
        /\ UNCHANGED <<persistent_list, live, ref_host_entry, module, unvisited, is_persistent>>
    BY ConfigType DEF ScanHit, Goto, Alias, SafeInv, TypeInv, ControlInv, StepOK
  <1>2. Entries(r) # {}
    BY <1>1 DEF Entries
  <1>3. r \in live /\ ref_host_entry[r] > 0
    BY <1>1, <1>2, EntryCounted DEF SafeInv, TypeInv, TableSafe
  <1>4. ASSUME NEW q \in Objects, as_ref_p[q] = r PROVE pc[q] # "publish"
    BY <1>1, <1>4 DEF SafeInv, ObjectSafe
  <1>5. TableSafe' /\ HostEntriesCovered'
    BY <1>1, TableFrame DEF SafeInv, TypeInv
  <1>6. /\ as_ref_p \in [Objects -> Refs \cup {Null}]
        /\ pc \in [Objects -> Steps]
    BY DEF SafeInv, TypeInv, TypeOK
  <1>7. ASSUME NEW q \in Objects PROVE ObjectSafe(q)'
    BY <1>1, <1>3, <1>6 DEF SafeInv, ObjectSafe
  <1>8. ASSUME NEW q \in Objects, NEW p \in Objects PROVE PairSafe(q, p)'
    BY <1>1, <1>3, <1>4, <1>6 DEF SafeInv, PairSafe
  <1>9. QED
    BY <1>5, <1>7, <1>8 DEF SafeInv

\* operator[] puts a null entry into a slot without an entry.
LEMMA ScanMissSafe ==
    ASSUME SafeInv, TypeInv', NEW o \in Objects, ScanMiss(o)
    PROVE  SafeInv'
  <1>1. /\ persistent_list[Alias(o)] \notin Refs
        /\ persistent_list' = [persistent_list EXCEPT ![Alias(o)] = Null]
        /\ pc'[o] \in {"scan", "create"}
        /\ \A q \in Objects : q # o => pc'[q] = pc[q]
        /\ UNCHANGED <<live, ref_host_entry, module, unvisited, as_ref_p, is_persistent>>
    BY DEF ScanMiss, Goto, SafeInv, TypeInv, TypeOK
  <1>2. persistent_list \in [Aliases -> Refs \cup {Null, Absent}] /\ Null \notin Refs
    BY NullAssumption DEF SafeInv, TypeInv, TypeOK
  <1>3. ASSUME NEW r \in Refs PROVE Entries(r)' = Entries(r)
    BY <1>1, <1>2 DEF Entries
  <1>4. TableSafe'
    BY <1>1, <1>3 DEF SafeInv, TableSafe
  <1>5. HostEntriesCovered'
    <2>1. ASSUME NEW r \in Refs PROVE Cardinality(Entries(r)') <= ref_host_entry'[r]
      BY <1>1, <1>3 DEF SafeInv, HostEntriesCovered
    <2>2. QED
      BY <2>1 DEF HostEntriesCovered
  <1>6. ASSUME NEW q \in Objects PROVE ObjectSafe(q)'
    <2>1. pc[q] = "publish" => as_ref_p[q] # Null
      BY DEF SafeInv, TypeInv, ControlInv, StepOK, Attached
    <2>2. QED
      BY <1>1, <1>2, <2>1 DEF SafeInv, ObjectSafe
  <1>7. ASSUME NEW q \in Objects, NEW p \in Objects PROVE PairSafe(q, p)'
    BY <1>1 DEF SafeInv, PairSafe
  <1>8. QED
    BY <1>4, <1>5, <1>6, <1>7 DEF SafeInv

\* A new entry is referenced by nothing but its creator.
LEMMA CreateSafe ==
    ASSUME SafeInv, TypeInv', NEW o \in Objects, NEW r \in Refs, CreateHostEntry(o, r)
    PROVE  SafeInv'
  <1>1. /\ r \notin live /\ live' = live \cup {r}
        /\ as_ref_p' = [as_ref_p EXCEPT ![o] = r]
        /\ ref_host_entry' = [ref_host_entry EXCEPT ![r] = IF is_persistent[o] THEN 1 ELSE 0]
        /\ pc' = [pc EXCEPT ![o] = IF is_persistent[o] THEN "publish" ELSE "check"]
        /\ pc[o] = "create" /\ module = "up"
        /\ UNCHANGED <<persistent_list, is_persistent, module, unvisited>>
    BY DEF CreateHostEntry, NewHostEntries, Goto, SafeInv, TypeInv, ControlInv, StepOK
  <1>2. /\ as_ref_p \in [Objects -> Refs \cup {Null}] /\ Null \notin Refs
        /\ pc \in [Objects -> Steps] /\ is_persistent \in [Objects -> BOOLEAN]
        /\ ref_host_entry \in [Refs -> Nat]
    BY NullAssumption DEF SafeInv, TypeInv, TypeOK
  <1>3. Entries(r) = {}
    BY <1>1 DEF SafeInv, TableSafe
  <1>4. \A a \in Aliases : persistent_list[a] # r
    BY <1>1, <1>3 DEF Entries
  <1>5. \A q \in Objects : as_ref_p[q] # r
    BY <1>1, <1>2 DEF SafeInv, ObjectSafe
  <1>6. ASSUME NEW s \in Refs PROVE Entries(s)' = Entries(s)
    BY <1>1 DEF Entries
  <1>7. TableSafe'
    BY <1>1, <1>6 DEF SafeInv, TableSafe
  <1>8. HostEntriesCovered'
    <2>1. ASSUME NEW s \in Refs PROVE Cardinality(Entries(s)') <= ref_host_entry'[s]
      <3>1. CASE s = r
        BY <3>1, <1>1, <1>2, <1>3, <1>6, FS_EmptySet
      <3>2. CASE s # r
        BY <3>2, <1>1, <1>2, <1>6 DEF SafeInv, HostEntriesCovered
      <3>3. QED
        BY <3>1, <3>2
    <2>2. QED
      BY <2>1 DEF HostEntriesCovered
  <1>9. ASSUME NEW q \in Objects PROVE ObjectSafe(q)'
    <2>1. CASE q = o
      BY <2>1, <1>1, <1>2, <1>4 DEF ObjectSafe
    <2>2. CASE q # o
      <3>1. as_ref_p'[q] = as_ref_p[q] /\ pc'[q] = pc[q]
        BY <2>2, <1>1, <1>2
      <3>2. as_ref_p[q] # Null => ref_host_entry'[as_ref_p[q]] = ref_host_entry[as_ref_p[q]]
        BY <1>1, <1>2, <1>5
      <3>3. pc[q] \in {"match", "publish", "hosts"} => as_ref_p[q] # Null
        BY DEF SafeInv, TypeInv, ControlInv, StepOK, Attached
      <3>4. QED
        BY <3>1, <3>2, <3>3, <1>1 DEF SafeInv, ObjectSafe
    <2>3. QED
      BY <2>1, <2>2
  <1>10. ASSUME NEW q \in Objects, NEW p \in Objects PROVE PairSafe(q, p)'
    BY <1>1, <1>2, <1>5 DEF SafeInv, PairSafe
  <1>11. QED
    BY <1>7, <1>8, <1>9, <1>10 DEF SafeInv

\* Pointing one alias to r adds at most that alias to the entries of r and none
\* to those of another block.
LEMMA PointAlias ==
    ASSUME TypeOK, NEW r \in Refs, NEW a \in Aliases,
           persistent_list' = [persistent_list EXCEPT ![a] = r],
           UNCHANGED <<module, unvisited>>
    PROVE  /\ Entries(r)' \subseteq Entries(r) \cup {a}
           /\ Cardinality(Entries(r)') <= Cardinality(Entries(r)) + 1
           /\ \A s \in Refs : s # r =>
                 /\ Entries(s)' \subseteq Entries(s)
                 /\ Cardinality(Entries(s)') <= Cardinality(Entries(s))
  <1>1. Entries(r)' \subseteq Entries(r) \cup {a}
    BY DEF Entries, TypeOK
  <1>2. /\ IsFiniteSet(Entries(r) \cup {a})
        /\ Cardinality(Entries(r) \cup {a}) <= Cardinality(Entries(r)) + 1
    BY EntriesFinite, FS_AddElement
  <1>3. /\ Cardinality(Entries(r)') <= Cardinality(Entries(r) \cup {a})
        /\ Cardinality(Entries(r)') \in Nat
    BY <1>1, <1>2, FS_Subset, FS_CardinalityType
  <1>4. Cardinality(Entries(r) \cup {a}) \in Nat
    BY <1>2, FS_CardinalityType
  <1>5. Cardinality(Entries(r)') <= Cardinality(Entries(r)) + 1
    BY <1>2, <1>3, <1>4, EntriesFinite
  <1>6. ASSUME NEW s \in Refs, s # r
        PROVE  /\ Entries(s)' \subseteq Entries(s)
               /\ Cardinality(Entries(s)') <= Cardinality(Entries(s))
    <2>1. Entries(s)' \subseteq Entries(s)
      BY <1>6 DEF Entries, TypeOK
    <2>2. QED
      BY <2>1, EntriesFinite, FS_Subset
  <1>7. QED
    BY <1>1, <1>5, <1>6

\* The entry becomes visible under its first host.
LEMMA PublishSafe ==
    ASSUME SafeInv, TypeInv', NEW o \in Objects, Publish(o)
    PROVE  SafeInv'
  <1> DEFINE r == as_ref_p[o]
             a == hosts[o][1]
  <1>1. /\ pc[o] = "publish" /\ r \in Refs /\ r # Null /\ a \in Aliases
        /\ persistent_list' = [persistent_list EXCEPT ![a] = r]
        /\ pc'[o] \in {"check", "hosts"} /\ \A q \in Objects : q # o => pc'[q] = pc[q]
        /\ UNCHANGED <<live, ref_host_entry, module, unvisited, as_ref_p, is_persistent>>
    BY ConfigType DEF Publish, VisitHost, Goto, SafeInv, TypeInv, TypeOK, ControlInv, StepOK, Attached
  <1>2. r \in live /\ ref_host_entry[r] > 0 /\ \A b \in Aliases : persistent_list[b] # r
    BY <1>1 DEF SafeInv, ObjectSafe
  <1> HIDE DEF a
  <1>3. Entries(r) = {}
    BY <1>2 DEF Entries
  <1>4. TypeOK
    BY DEF SafeInv, TypeInv
  <1>5. TableSafe'
    BY <1>1, <1>2, <1>4, PointAlias DEF SafeInv, TableSafe
  <1>6. HostEntriesCovered'
    <2>1. ASSUME NEW s \in Refs PROVE Cardinality(Entries(s)') <= ref_host_entry'[s]
      <3>1. /\ Cardinality(Entries(s)) <= ref_host_entry[s]
            /\ Cardinality(Entries(s)) \in Nat /\ ref_host_entry[s] \in Nat
        BY <1>4, EntriesFinite DEF SafeInv, HostEntriesCovered, TypeOK
      <3>2. Entries(s)' \subseteq Entries(s) \cup {a}
        BY <1>1, <1>4, PointAlias
      <3>3. Cardinality(Entries(s)') \in Nat
        BY <3>2, EntriesFinite, FS_AddElement, FS_Subset, FS_CardinalityType
      <3>4. Cardinality(Entries(s)') <= IF s = r THEN Cardinality(Entries(s)) + 1
                                                ELSE Cardinality(Entries(s))
        BY <1>1, <1>4, PointAlias
      <3>5. s = r => Cardinality(Entries(s)) = 0
        BY <1>3, FS_EmptySet
      <3>6. QED
        BY <3>1, <3>3, <3>4, <3>5, <1>1, <1>2
    <2>2. QED
      BY <2>1 DEF HostEntriesCovered
  <1>7. ASSUME NEW q \in Objects PROVE ObjectSafe(q)'
    <2>1. CASE q = o
      BY <2>1, <1>1, <1>2 DEF SafeInv, ObjectSafe
    <2>2. CASE q # o
      <3>1. pc[q] = "publish" => as_ref_p[q] # r
        BY <2>2, <1>1 DEF SafeInv, PairSafe
      <3>2. pc[q] = "publish" => \A b \in Aliases : persistent_list'[b] # as_ref_p[q]
        BY <3>1, <1>1, <1>4 DEF SafeInv, ObjectSafe, TypeOK
      <3>3. QED
        BY <2>2, <3>2, <1>1 DEF SafeInv, ObjectSafe
    <2>3. QED
      BY <2>1, <2>2
  <1>8. ASSUME NEW q \in Objects, NEW p \in Objects PROVE PairSafe(q, p)'
    BY <1>1 DEF SafeInv, PairSafe
  <1>9. QED
    BY <1>5, <1>6, <1>7, <1>8 DEF SafeInv

\* One more alias is counted and pointed to the entry.
LEMMA AddHostEntrySafe ==
    ASSUME SafeInv, TypeInv', NEW o \in Objects, AddHostEntry(o)
    PROVE  SafeInv'
  <1> DEFINE r == as_ref_p[o]
             a == Alias(o)
  <1>1. /\ pc[o] = "hosts" /\ r \in Refs /\ r # Null /\ a \in Aliases
        /\ persistent_list' = [persistent_list EXCEPT ![a] = r]
        /\ ref_host_entry' = [ref_host_entry EXCEPT ![r] = @ + 1]
        /\ pc'[o] \in {"check", "hosts"} /\ \A q \in Objects : q # o => pc'[q] = pc[q]
        /\ UNCHANGED <<live, module, unvisited, as_ref_p, is_persistent>>
    BY ConfigType DEF AddHostEntry, VisitHost, Goto, CountHostEntry, Alias, SafeInv, TypeInv, TypeOK, ControlInv, StepOK, Attached
  <1>2. r \in live /\ ref_host_entry[r] > 0
    BY <1>1 DEF SafeInv, ObjectSafe
  <1>3. TypeOK /\ ref_host_entry \in [Refs -> Nat]
    BY DEF SafeInv, TypeInv, TypeOK
  <1>4. ASSUME NEW s \in Refs
        PROVE  /\ ref_host_entry'[s] = IF s = r THEN ref_host_entry[s] + 1 ELSE ref_host_entry[s]
               /\ ref_host_entry'[s] \in Nat
    BY <1>1, <1>3
  <1>5. TableSafe'
    BY <1>1, <1>2, <1>3, PointAlias DEF SafeInv, TableSafe
  <1>6. HostEntriesCovered'
    <2>1. ASSUME NEW s \in Refs PROVE Cardinality(Entries(s)') <= ref_host_entry'[s]
      <3>1. /\ Cardinality(Entries(s)) <= ref_host_entry[s]
            /\ Cardinality(Entries(s)) \in Nat /\ ref_host_entry[s] \in Nat
        BY <1>3, EntriesFinite DEF SafeInv, HostEntriesCovered
      <3>2. Entries(s)' \subseteq Entries(s) \cup {a}
        BY <1>1, <1>3, PointAlias
      <3>3. Cardinality(Entries(s)') \in Nat
        BY <3>2, EntriesFinite, FS_AddElement, FS_Subset, FS_CardinalityType
      <3>4. Cardinality(Entries(s)') <= IF s = r THEN Cardinality(Entries(s)) + 1
                                                ELSE Cardinality(Entries(s))
        BY <1>1, <1>3, PointAlias
      <3>5. QED
        BY <3>1, <3>3, <3>4, <1>4
    <2>2. QED
      BY <2>1 DEF HostEntriesCovered
  <1>7. ASSUME NEW q \in Objects PROVE ObjectSafe(q)'
    <2>1. as_ref_p[q] # Null => as_ref_p[q] \in Refs
      BY <1>3 DEF TypeOK
    <2>2. pc[q] \in {"match", "publish", "hosts"} => as_ref_p[q] # Null
      BY DEF SafeInv, TypeInv, ControlInv, StepOK, Attached
    <2>3. as_ref_p[q] # Null /\ ~is_persistent[q] => as_ref_p[q] # r
      BY <1>2 DEF SafeInv, ObjectSafe
    <2>4. pc[q] = "publish" => as_ref_p[q] # r
      BY <1>1 DEF SafeInv, PairSafe
    <2>5. pc[q] = "publish" => \A b \in Aliases : persistent_list'[b] # as_ref_p[q]
      BY <2>4, <1>1, <1>3 DEF SafeInv, ObjectSafe, TypeOK
    <2>6. as_ref_p[q] # Null =>
             /\ ref_host_entry[as_ref_p[q]] \in Nat
             /\ ref_host_entry'[as_ref_p[q]] >= ref_host_entry[as_ref_p[q]]
             /\ as_ref_p[q] # r => ref_host_entry'[as_ref_p[q]] = ref_host_entry[as_ref_p[q]]
      BY <2>1, <1>3, <1>4
    <2>7. pc'[q] \in {"match", "publish", "hosts"} => ref_host_entry'[as_ref_p[q]] > 0
      <3>1. CASE q = o
        BY <3>1, <2>6, <1>1, <1>2, <1>4
      <3>2. CASE q # o
        <4>1. pc[q] \in {"match", "publish", "hosts"} => ref_host_entry[as_ref_p[q]] > 0
          BY DEF SafeInv, ObjectSafe
        <4>2. QED
          BY <3>2, <4>1, <2>2, <2>6, <1>1, <1>4, <2>1
      <3>3. QED
        BY <3>1, <3>2
    <2>8. QED
      BY <2>3, <2>5, <2>6, <2>7, <1>1 DEF SafeInv, ObjectSafe
  <1>8. ASSUME NEW q \in Objects, NEW p \in Objects PROVE PairSafe(q, p)'
    <2>1. as_ref_p[q] # Null => as_ref_p[q] \in Refs
      BY <1>3 DEF TypeOK
    <2>2. QED
      BY <2>1, <1>1, <1>3, <1>4 DEF SafeInv, PairSafe
  <1>9. QED
    BY <1>5, <1>6, <1>7, <1>8 DEF SafeInv

\* sweep frees only the entry of a non-persistent object, which is in no slot of
\* the table and belongs to no other object.
LEMMA GoneSafe ==
    ASSUME SafeInv, TypeInv', NEW o \in Objects, as_ref_p[o] # Null,
           Gone(o), SweepHandle(o),
           UNCHANGED <<persistent_list, ref_host_entry, module, unvisited>>
    PROVE  SafeInv'
  <1> DEFINE r == as_ref_p[o]
  <1>1. TypeOK /\ r \in Refs
    BY DEF SafeInv, TypeInv, TypeOK
  <1>2. /\ as_ref_p'[o] = Null /\ pc'[o] = "idle"
        /\ \A q \in Objects : q # o => /\ as_ref_p'[q] = as_ref_p[q]
                                      /\ pc'[q] = pc[q]
                                      /\ is_persistent'[q] = is_persistent[q]
    BY <1>1 DEF Gone, Return, TypeOK
  <1>3. live' = live \/ (live' = live \ {r} /\ ref_host_entry[r] = 0)
    BY DEF SweepHandle, Release, SafeInv, ObjectSafe
  <1>4. ASSUME NEW q \in Objects, q # o, as_ref_p[q] # Null PROVE as_ref_p[q] \in live'
    <2>1. as_ref_p[q] \in live
      BY <1>4 DEF SafeInv, ObjectSafe
    <2>2. as_ref_p[q] = r => ref_host_entry[r] > 0
      BY <1>4 DEF SafeInv, PairSafe
    <2>3. QED
      BY <1>3, <2>1, <2>2
  <1>5. ASSUME NEW s \in Refs PROVE Entries(s)' = Entries(s)
    BY DEF Entries
  <1>6. TableSafe'
    <2>1. ASSUME NEW s \in Refs, Entries(s) # {} PROVE s \in live'
      <3>1. s \in live /\ ref_host_entry[s] > 0
        BY <2>1, <1>1, EntryCounted DEF SafeInv, TableSafe
      <3>2. QED
        BY <3>1, <1>3
    <2>2. QED
      BY <2>1, <1>5 DEF TableSafe
  <1>7. HostEntriesCovered'
    <2>1. ASSUME NEW s \in Refs PROVE Cardinality(Entries(s)') <= ref_host_entry'[s]
      BY <1>5 DEF SafeInv, HostEntriesCovered
    <2>2. QED
      BY <2>1 DEF HostEntriesCovered
  <1>8. ASSUME NEW q \in Objects PROVE ObjectSafe(q)'
    BY <1>2, <1>4 DEF SafeInv, ObjectSafe
  <1>9. ASSUME NEW q \in Objects, NEW p \in Objects PROVE PairSafe(q, p)'
    BY <1>2 DEF SafeInv, PairSafe
  <1>10. QED
    BY <1>6, <1>7, <1>8, <1>9 DEF SafeInv

\* The steps of __construct.
LEMMA ConstructSafe ==
    ASSUME SafeInv, FALSE \notin ReconstructModes, NEW o \in Objects, ConstructStep(o)
    PROVE  SafeInv'
  <1> USE DEF Goto, Return, CanCall
  <1>0. TypeInv'
    BY ConstructTypeInv DEF SafeInv
  <1>t. TypeOK
    BY DEF SafeInv, TypeInv
  <1>1. CASE \E config \in Configs, p \in BOOLEAN : Construct(o, config, p)
    <2>1. Plain(o)
      BY <1>1, <1>t DEF Construct, Plain, TypeOK
    <2>2. QED
      BY <1>0, <2>1, PlainSafe
  <1>2. CASE \E p \in BOOLEAN : ConstructBadConfig(o, p)
    <2>1. Plain(o)
      BY <1>2, <1>t DEF ConstructBadConfig, Plain, TypeOK
    <2>2. QED
      BY <1>0, <2>1, PlainSafe
  <1>3. CASE \E p \in ReconstructModes : ConstructAgain(o, p)
    <2>1. \A p \in ReconstructModes : p = TRUE
      BY ModesAssumption
    <2>2. Plain(o)
      BY <1>3, <1>t, <2>1 DEF ConstructAgain, Plain, TypeOK
    <2>3. QED
      BY <1>0, <2>2, PlainSafe
  <1>4. CASE ScanLock(o) \/ CheckFirst(o) \/ ConnectFails(o) \/ UndoLoad(o)
    <2>1. Plain(o)
      BY <1>4, <1>t DEF ScanLock, CheckFirst, ConnectFails, UndoLoad, Plain, TypeOK
    <2>2. QED
      BY <1>0, <2>1, PlainSafe
  <1>5. CASE MatchStore(o)
    <2>1. Plain(o)
      BY <1>5, <1>t DEF MatchStore, StoreAndUnlock, VisitHost, Plain, TypeOK
    <2>2. QED
      BY <1>0, <2>1, PlainSafe
  <1>6. CASE CreateFails(o) \/ CheckShared(o) \/ ConnectOK(o) \/ UndoStore(o)
    <2>1. Plain(o)
      BY <1>6, <1>t DEF CreateFails, CheckShared, ConnectOK, UndoStore, Plain, TypeOK
    <2>2. QED
      BY <1>0, <2>1, PlainSafe
  <1>7. CASE ScanHit(o)
    BY <1>0, <1>7, ScanHitSafe
  <1>8. CASE ScanMiss(o)
    BY <1>0, <1>8, ScanMissSafe
  <1>9. CASE \E r \in Refs : CreateHostEntry(o, r)
    BY <1>0, <1>9, CreateSafe
  <1>10. CASE Publish(o)
    BY <1>0, <1>10, PublishSafe
  <1>11. CASE AddHostEntry(o)
    BY <1>0, <1>11, AddHostEntrySafe
  <1>12. QED
    BY <1>1, <1>2, <1>3, <1>4, <1>5, <1>6, <1>7, <1>8, <1>9, <1>10, <1>11 DEF ConstructStep

\* The locked loads and the steps of close, reconnect and sweep.
LEMMA ObjectStepSafe ==
    ASSUME SafeInv, NEW o \in Objects,
           LockAndLoad(o) \/ CloseStep(o) \/ ReconnectStep(o) \/ SweepStep(o)
    PROVE  SafeInv'
  <1> USE DEF Goto, Return, CanCall
  <1>0. TypeInv'
    BY ObjectTypeInv DEF SafeInv
  <1>t. TypeOK
    BY DEF SafeInv, TypeInv
  <1>1. CASE LockAndLoad(o)
    <2>1. pc'[o] = pc[o] /\ pc[o] # "publish"
      BY <1>1 DEF LockAndLoad
    <2>2. Plain(o)
      BY <1>1, <2>1 DEF LockAndLoad, Plain
    <2>3. QED
      BY <1>0, <2>2, PlainSafe
  <1>2. CASE CloseRefused(o) \/ ReconnectRefused(o)
    <2>1. pc'[o] = "idle" /\ \A q \in Objects : q # o => pc'[q] = pc[q]
      BY <1>2, <1>t DEF CloseRefused, ReconnectRefused, TypeOK
    <2>2. Plain(o)
      BY <1>2, <2>1 DEF CloseRefused, ReconnectRefused, Plain
    <2>3. QED
      BY <1>0, <2>2, PlainSafe
  <1>3. CASE ClosePrivate(o) \/ ReconnectPrivate(o)
    <2>1. Plain(o)
      BY <1>3, <1>t DEF ClosePrivate, ReconnectPrivate, Plain, TypeOK
    <2>2. QED
      BY <1>0, <2>1, PlainSafe
  <1>4. CASE ClosePersistent(o) \/ ReconnectPersistent(o) \/ SweepConnected(o)
    <2>1. Plain(o)
      BY <1>4, <1>t DEF ClosePersistent, ReconnectPersistent, SweepConnected, Plain, TypeOK
    <2>2. QED
      BY <1>0, <2>1, PlainSafe
  <1>5. CASE CloseStore(o) \/ ReconnectStore(o)
    <2>1. Plain(o)
      BY <1>5, <1>t DEF CloseStore, ReconnectStore, StoreAndUnlock, Plain, TypeOK
    <2>2. QED
      BY <1>0, <2>1, PlainSafe
  <1>6. CASE SweepStore(o)
    <2>1. as_ref_p[o] # Null
      BY <1>6 DEF SweepStore, SafeInv, TypeInv, ControlInv, StepOK, Attached
    <2>2. QED
      BY <1>0, <1>6, <2>1, GoneSafe DEF SweepStore
  <1>7. CASE SweepDisconnected(o)
    BY <1>0, <1>7, GoneSafe DEF SweepDisconnected
  <1>8. QED
    BY <1>1, <1>2, <1>3, <1>4, <1>5, <1>6, <1>7 DEF CloseStep, ReconnectStep, SweepStep

\* moduleShutdown: an entry is freed at its last alias.
LEMMA VisitSafe ==
    ASSUME SafeInv, TypeInv', NEW a \in Aliases, ShutdownVisit(a)
    PROVE  SafeInv'
  <1> DEFINE r == persistent_list[a]
  <1>1. /\ TypeOK /\ module = "closing" /\ a \in unvisited
        /\ unvisited' = unvisited \ {a}
        /\ UNCHANGED <<persistent_list, module, as_ref_p, pc, is_persistent>>
    BY DEF ShutdownVisit, AdvancePast, SafeInv, TypeInv
  <1>2. \A q \in Objects : as_ref_p[q] = Null /\ pc[q] = "idle"
    BY <1>1 DEF SafeInv, TypeInv, ControlInv, StepOK
  <1>3. \A s \in Refs : Entries(s)' = Entries(s) \ {a}
    BY <1>1 DEF Entries
  <1>4. \A s \in Refs : s # r => a \notin Entries(s)
    BY DEF Entries
  <1>5. r \in Refs => a \in Entries(r)
    BY <1>1 DEF Entries
  <1>6. \A s \in Refs : s # r => Entries(s)' = Entries(s)
    BY <1>3, <1>4
  <1>7. TableSafe' /\ HostEntriesCovered'
    <2>1. CASE r \notin Refs
      <3>1. UNCHANGED <<live, ref_host_entry>>
        BY <2>1 DEF ShutdownVisit
      <3>2. \A s \in Refs : Entries(s)' = Entries(s)
        BY <2>1, <1>6
      <3>3. TableSafe'
        BY <3>1, <3>2 DEF SafeInv, TableSafe
      <3>4. ASSUME NEW s \in Refs PROVE Cardinality(Entries(s)') <= ref_host_entry'[s]
        BY <3>1, <3>2 DEF SafeInv, HostEntriesCovered
      <3>5. QED
        BY <3>3, <3>4 DEF HostEntriesCovered
    <2>2. CASE r \in Refs /\ ~LastEntry(r)
      <3>1. ref_host_entry' = [ref_host_entry EXCEPT ![r] = @ - 1] /\ live' = live
        BY <2>2 DEF ShutdownVisit
      <3>2. TableSafe'
        BY <3>1, <1>3 DEF SafeInv, TableSafe
      <3>3. ASSUME NEW s \in Refs PROVE Cardinality(Entries(s)') <= ref_host_entry'[s]
        <4>1. /\ Cardinality(Entries(s)) <= ref_host_entry[s]
              /\ Cardinality(Entries(s)) \in Nat /\ ref_host_entry[s] \in Nat
          BY <1>1, EntriesFinite DEF SafeInv, HostEntriesCovered, TypeOK
        <4>2. CASE s = r
          <5>1. Cardinality(Entries(r) \ {a}) = Cardinality(Entries(r)) - 1
            BY <2>2, <1>5, EntriesFinite, FS_RemoveElement
          <5>2. ref_host_entry'[r] = ref_host_entry[r] - 1
            BY <2>2, <3>1, <1>1 DEF TypeOK
          <5>3. QED
            BY <4>1, <4>2, <5>1, <5>2, <1>3
        <4>3. CASE s # r
          <5>1. ref_host_entry'[s] = ref_host_entry[s]
            BY <4>3, <3>1, <1>1 DEF TypeOK
          <5>2. QED
            BY <4>1, <4>3, <5>1, <1>6
        <4>4. QED
          BY <4>2, <4>3
      <3>4. QED
        BY <3>2, <3>3 DEF HostEntriesCovered
    <2>3. CASE r \in Refs /\ LastEntry(r)
      <3>1. ref_host_entry' = [ref_host_entry EXCEPT ![r] = 0] /\ live' = live \ {r}
        BY <2>3 DEF ShutdownVisit, Release
      <3>2. \A s \in Refs : s = r => Entries(s)' = {}
        <4>1. Entries(r) = {a}
          BY <2>3, <1>1, <1>5, LastEntryAlone DEF SafeInv, LastEntry
        <4>2. QED
          BY <2>3, <4>1, <1>3
      <3>3. TableSafe'
        BY <3>1, <3>2, <1>6 DEF SafeInv, TableSafe
      <3>4. ASSUME NEW s \in Refs PROVE Cardinality(Entries(s)') <= ref_host_entry'[s]
        <4>1. CASE s = r
          <5>1. ref_host_entry'[s] = 0
            BY <4>1, <2>3, <3>1, <1>1 DEF TypeOK
          <5>2. QED
            BY <4>1, <3>2, <5>1, FS_EmptySet
        <4>2. CASE s # r
          <5>1. ref_host_entry'[s] = ref_host_entry[s]
            BY <4>2, <3>1, <1>1 DEF TypeOK
          <5>2. QED
            BY <4>2, <5>1, <1>6 DEF SafeInv, HostEntriesCovered
        <4>3. QED
          BY <4>1, <4>2
      <3>5. QED
        BY <3>3, <3>4 DEF HostEntriesCovered
    <2>4. QED
      BY <2>1, <2>2, <2>3
  <1>8. ASSUME NEW q \in Objects PROVE ObjectSafe(q)'
    BY <1>1, <1>2 DEF ObjectSafe
  <1>9. ASSUME NEW q \in Objects, NEW p \in Objects PROVE PairSafe(q, p)'
    BY <1>1, <1>2 DEF PairSafe
  <1>10. QED
    BY <1>7, <1>8, <1>9 DEF SafeInv

LEMMA ShutdownSafe ==
    ASSUME SafeInv, ShutdownStep
    PROVE  SafeInv'
  <1>0. TypeInv'
    BY ShutdownTypeInv DEF SafeInv
  <1>t. TypeOK
    BY DEF SafeInv, TypeInv
  <1>1. CASE ShutdownStart
    <2>1. /\ module = "up" /\ module' = "closing"
          /\ unvisited' = {a \in Aliases : persistent_list[a] # Absent}
          /\ \A o \in Objects : pc[o] = "idle" /\ as_ref_p[o] = Null
          /\ UNCHANGED <<persistent_list, live, ref_host_entry, as_ref_p, pc, is_persistent>>
      BY <1>1 DEF ShutdownStart
    <2>2. \A r \in Refs : Entries(r)' = Entries(r)
      BY <2>1, NullAssumption DEF Entries
    <2>3. TableSafe'
      BY <2>1, <2>2 DEF SafeInv, TableSafe
    <2>4. ASSUME NEW r \in Refs PROVE Cardinality(Entries(r)') <= ref_host_entry'[r]
      BY <2>1, <2>2 DEF SafeInv, HostEntriesCovered
    <2>5. HostEntriesCovered'
      BY <2>4 DEF HostEntriesCovered
    <2>6. QED
      BY <1>0, <2>1, <2>3, <2>5 DEF SafeInv, ObjectSafe, PairSafe
  <1>2. CASE \E a \in Aliases : ShutdownVisit(a)
    BY <1>0, <1>2, VisitSafe
  <1>3. CASE ShutdownEnd
    <2>1. /\ module = "closing" /\ persistent_list' = [a \in Aliases |-> Absent]
          /\ UNCHANGED <<live, ref_host_entry, as_ref_p, pc, is_persistent>>
      BY <1>3 DEF ShutdownEnd
    <2>2. \A o \in Objects : as_ref_p[o] = Null /\ pc[o] = "idle"
      BY <2>1 DEF SafeInv, TypeInv, ControlInv, StepOK
    <2>3. \A r \in Refs : Entries(r)' = {}
      BY <2>1, NullAssumption DEF Entries
    <2>4. TableSafe'
      BY <2>3 DEF TableSafe
    <2>5. ASSUME NEW r \in Refs PROVE Cardinality(Entries(r)') <= ref_host_entry'[r]
      <3>1. ref_host_entry'[r] \in Nat
        BY <1>t, <2>1 DEF TypeOK
      <3>2. QED
        BY <2>3, <3>1, FS_EmptySet
    <2>6. HostEntriesCovered'
      BY <2>5 DEF HostEntriesCovered
    <2>7. QED
      BY <1>0, <2>1, <2>2, <2>4, <2>6 DEF SafeInv, ObjectSafe, PairSafe
  <1>4. QED
    BY <1>1, <1>2, <1>3 DEF ShutdownStep

LEMMA InitSafe == Init => SafeInv
  <1> SUFFICES ASSUME Init PROVE SafeInv
    OBVIOUS
  <1>1. TypeInv
    BY InitTypeInv
  <1>2. ASSUME NEW r \in Refs PROVE Entries(r) = {}
    BY NullAssumption DEF Init, Entries
  <1>3. TableSafe
    BY <1>2 DEF TableSafe
  <1>4. HostEntriesCovered
    <2>1. ASSUME NEW r \in Refs PROVE Cardinality(Entries(r)) <= ref_host_entry[r]
      <3>1. ref_host_entry[r] = 0
        BY DEF Init
      <3>2. QED
        BY <1>2, <3>1, FS_EmptySet
    <2>2. QED
      BY <2>1 DEF HostEntriesCovered
  <1>5. QED
    BY <1>1, <1>3, <1>4 DEF SafeInv, ObjectSafe, PairSafe, Init

LEMMA StutterSafe ==
    ASSUME SafeInv, UNCHANGED vars
    PROVE  SafeInv'
  <1>1. TypeInv'
    BY StutterTypeInv DEF SafeInv
  <1>2. TableSafe' /\ HostEntriesCovered'
    BY TableFrame DEF vars, SafeInv, TypeInv
  <1>3. QED
    BY <1>1, <1>2 DEF SafeInv, ObjectSafe, PairSafe, vars

LEMMA NextSafe ==
    ASSUME FALSE \notin ReconstructModes, SafeInv, [Next]_vars
    PROVE  SafeInv'
  BY ConstructSafe, ObjectStepSafe, ShutdownSafe, StutterSafe DEF Next, Ended

-----------------------------------------------------------------------------
(* Theorems from SafeInv *)

LEMMA SafeAlways ==
    ASSUME FALSE \notin ReconstructModes
    PROVE  Spec => []SafeInv
  <1>1. Init => SafeInv
    BY InitSafe
  <1>2. SafeInv /\ [Next]_vars => SafeInv'
    BY NextSafe
  <1>3. QED
    BY <1>1, <1>2, PTL DEF Spec

\* Whatever calls the requests make and however they interleave, no object, no
\* lookup and no visit of moduleShutdown meets an aerospike_ref that has been
\* freed.
THEOREM NoUseAfterFree ==
    ASSUME FALSE \notin ReconstructModes
    PROVE  Spec => []NoDangling
  <1>1. SafeInv => NoDangling
    BY DEF SafeInv, ObjectSafe, TableSafe, NoDangling
  <1>2. QED
    BY <1>1, SafeAlways, PTL

\* ref_host_entry never falls below the number of aliases whose entry holds the
\* block, with any lists of hosts and any interleaving of their insertions.
THEOREM HostEntriesNeverMissed ==
    ASSUME FALSE \notin ReconstructModes
    PROVE  Spec => []HostEntriesCovered
  <1>1. SafeInv => HostEntriesCovered
    BY DEF SafeInv
  <1>2. QED
    BY <1>1, SafeAlways, PTL

\* What one step does to an open handle that is in the table.
StaysOpen ==
    \A r \in Refs :
        (module = "up" /\ r \in live /\ ref_host_entry[r] > 0 /\ cluster[r])
           => (r \in live' /\ cluster'[r])

\* The handle of a non-persistent object is not in the table.
LEMMA PrivateHandle ==
    ASSUME SafeInv, NEW o \in Objects, as_ref_p[o] # Null, ~is_persistent[o]
    PROVE  ref_host_entry[as_ref_p[o]] = 0
  BY DEF SafeInv, ObjectSafe

LEMMA ConstructStaysOpen ==
    ASSUME SafeInv, NEW o \in Objects, ConstructStep(o)
    PROVE  StaysOpen
  <1>t. TypeOK
    BY DEF SafeInv, TypeInv
  <1>1. CASE \E r \in Refs : CreateHostEntry(o, r)
    BY <1>1, <1>t DEF CreateHostEntry, StaysOpen, TypeOK
  <1>2. CASE ConnectOK(o)
    BY <1>2, <1>t DEF ConnectOK, StaysOpen, TypeOK
  <1>3. CASE UNCHANGED <<live, cluster>>
    BY <1>3 DEF StaysOpen
  <1>4. QED
    BY <1>1, <1>2, <1>3 DEF ConstructStep, Construct, ConstructBadConfig, ConstructAgain,
       ScanLock, ScanHit, ScanMiss, MatchStore, CreateFails, Publish, AddHostEntry,
       CheckFirst, CheckShared, ConnectFails, UndoLoad, UndoStore

LEMMA ObjectStaysOpen ==
    ASSUME SafeInv, NEW o \in Objects,
           LockAndLoad(o) \/ CloseStep(o) \/ ReconnectStep(o) \/ SweepStep(o)
    PROVE  StaysOpen
  <1>t. TypeOK
    BY DEF SafeInv, TypeInv
  <1>1. CASE ClosePrivate(o)
    BY <1>1, <1>t, PrivateHandle DEF ClosePrivate, OwnsHandle, StaysOpen, TypeOK
  <1>2. CASE ReconnectPrivate(o)
    BY <1>2, <1>t DEF ReconnectPrivate, StaysOpen, TypeOK
  <1>3. CASE SweepStore(o) \/ SweepDisconnected(o)
    <2>1. as_ref_p[o] # Null /\ SweepHandle(o)
      BY <1>3 DEF SweepStore, SweepDisconnected, SafeInv, TypeInv, ControlInv, StepOK, Attached
    <2>2. CASE is_persistent[o]
      BY <2>1, <2>2 DEF SweepHandle, StaysOpen
    <2>3. CASE ~is_persistent[o]
      BY <2>1, <2>3, <1>t, PrivateHandle DEF SweepHandle, Release, StaysOpen, TypeOK
    <2>4. QED
      BY <2>2, <2>3
  <1>4. CASE UNCHANGED <<live, cluster>>
    BY <1>4 DEF StaysOpen
  <1>5. QED
    BY <1>1, <1>2, <1>3, <1>4 DEF LockAndLoad, CloseStep, CloseRefused, ClosePersistent,
       CloseStore, ReconnectStep, ReconnectRefused, ReconnectPersistent, ReconnectStore,
       SweepStep, SweepConnected

LEMMA ShutdownStaysOpen ==
    ASSUME ShutdownStep
    PROVE  StaysOpen
  BY DEF ShutdownStep, ShutdownStart, ShutdownVisit, ShutdownEnd, StaysOpen

\* close, reconnect and sweep "do not actually close the connection" of a
\* persistent object: a connected handle of the table stays connected, for all
\* the objects that share it, until moduleShutdown.
THEOREM PersistentHandlesStayOpen ==
    ASSUME FALSE \notin ReconstructModes
    PROVE  Spec => PersistentStaysOpen
  <1>1. Init => SafeInv
    BY InitSafe
  <1>2. SafeInv /\ [Next]_vars => SafeInv'
    BY NextSafe
  <1>3. SafeInv /\ [Next]_vars => [StaysOpen]_vars
    BY ConstructStaysOpen, ObjectStaysOpen, ShutdownStaysOpen DEF Next, Ended
  <1>4. QED
    BY <1>1, <1>2, <1>3, PTL DEF Spec, PersistentStaysOpen, StaysOpen

-----------------------------------------------------------------------------
(* What one step of an object leaves alone *)

\* The fields and locals of the object q, and the contents of a block.
SameObject(q) ==
    /\ pc'[q] = pc[q] /\ as_ref_p'[q] = as_ref_p[q] /\ loaded'[q] = loaded[q]
    /\ is_connected'[q] = is_connected[q] /\ is_persistent'[q] = is_persistent[q]

SameBlock(r) ==
    /\ r \in live' /\ cluster'[r] = cluster[r]
    /\ ref_php_object'[r] = ref_php_object[r] /\ ref_host_entry'[r] = ref_host_entry[r]

\* A step of o leaves the other objects alone, and of the allocated blocks it
\* writes only the one that o points to.
OwnBlockOnly(o) ==
    /\ \A q \in Objects : q # o => SameObject(q)
    /\ \A r \in live : r # as_ref_p[o] => SameBlock(r)
    /\ UNCHANGED main

ObjectStep(o) ==
    ConstructStep(o) \/ LockAndLoad(o) \/ CloseStep(o) \/ ReconnectStep(o) \/ SweepStep(o)

LEMMA ConstructFrame ==
    ASSUME TypeInv, NEW o \in Objects, ConstructStep(o)
    PROVE  OwnBlockOnly(o)
  <1> USE DEF TypeInv, TypeOK, OwnBlockOnly, SameObject, SameBlock, Goto, CanCall, Return
  <1>1. CASE \E config \in Configs, p \in BOOLEAN : Construct(o, config, p)
    BY <1>1 DEF Construct
  <1>2. CASE \E p \in BOOLEAN : ConstructBadConfig(o, p)
    BY <1>2 DEF ConstructBadConfig
  <1>3. CASE \E p \in ReconstructModes : ConstructAgain(o, p)
    BY <1>3 DEF ConstructAgain
  <1>4. CASE ScanLock(o) \/ ScanHit(o) \/ ScanMiss(o)
    BY <1>4 DEF ScanLock, ScanHit, ScanMiss
  <1>5. CASE MatchStore(o)
    BY <1>5 DEF MatchStore, StoreAndUnlock, VisitHost
  <1>6. CASE \E r \in Refs : CreateHostEntry(o, r)
    BY <1>6 DEF CreateHostEntry
  <1>7. CASE CreateFails(o) \/ CheckFirst(o) \/ CheckShared(o)
    BY <1>7 DEF CreateFails, CheckFirst, CheckShared
  <1>8. CASE Publish(o)
    BY <1>8 DEF Publish, VisitHost
  <1>9. CASE AddHostEntry(o)
    BY <1>9 DEF AddHostEntry, VisitHost, CountHostEntry
  <1>10. CASE ConnectOK(o) \/ ConnectFails(o)
    BY <1>10 DEF ConnectOK, ConnectFails
  <1>11. CASE UndoLoad(o) \/ UndoStore(o)
    BY <1>11 DEF UndoLoad, UndoStore
  <1>12. QED
    BY <1>1, <1>2, <1>3, <1>4, <1>5, <1>6, <1>7, <1>8, <1>9, <1>10, <1>11 DEF ConstructStep

LEMMA CallFrame ==
    ASSUME TypeInv, NEW o \in Objects,
           LockAndLoad(o) \/ CloseStep(o) \/ ReconnectStep(o) \/ SweepStep(o)
    PROVE  OwnBlockOnly(o)
  <1> USE DEF TypeInv, TypeOK, OwnBlockOnly, SameObject, SameBlock, Goto, CanCall, Return
  <1>1. CASE LockAndLoad(o)
    BY <1>1 DEF LockAndLoad
  <1>2. CASE CloseRefused(o)
    BY <1>2 DEF CloseRefused
  <1>3. CASE ClosePrivate(o) \/ ClosePersistent(o)
    BY <1>3 DEF ClosePrivate, ClosePersistent, Disconnect
  <1>4. CASE CloseStore(o)
    BY <1>4 DEF CloseStore, StoreAndUnlock, Disconnect
  <1>5. CASE ReconnectRefused(o)
    BY <1>5 DEF ReconnectRefused
  <1>6. CASE ReconnectPrivate(o) \/ ReconnectPersistent(o)
    BY <1>6 DEF ReconnectPrivate, ReconnectPersistent
  <1>7. CASE ReconnectStore(o)
    BY <1>7 DEF ReconnectStore, StoreAndUnlock
  <1>8. CASE SweepConnected(o)
    BY <1>8 DEF SweepConnected
  <1>9. CASE SweepStore(o)
    BY <1>9 DEF SweepStore, StoreAndUnlock, SweepHandle, Release, Gone
  <1>10. CASE SweepDisconnected(o)
    BY <1>10 DEF SweepDisconnected, SweepHandle, Release, Gone
  <1>11. QED
    BY <1>1, <1>2, <1>3, <1>4, <1>5, <1>6, <1>7, <1>8, <1>9, <1>10
       DEF CloseStep, ReconnectStep, SweepStep

\* A step of one object writes that object and its own block, nothing else.
LEMMA ObjectFrame ==
    ASSUME TypeInv, NEW o \in Objects, ObjectStep(o)
    PROVE  OwnBlockOnly(o)
  BY ConstructFrame, CallFrame DEF ObjectStep

\* The block of a non-persistent object belongs to it alone.
LEMMA PrivateAlone ==
    ASSUME SafeInv, NEW o \in Objects, as_ref_p[o] # Null, ~is_persistent[o],
           NEW q \in Objects, as_ref_p[q] = as_ref_p[o]
    PROVE  q = o
  BY DEF SafeInv, ObjectSafe, PairSafe

LEMMA AtMostOne ==
    ASSUME NEW o, NEW S \in SUBSET {o}
    PROVE  IsFiniteSet(S) /\ Cardinality(S) \in Nat /\ Cardinality(S) <= 1
  <1>1. IsFiniteSet({o}) /\ Cardinality({o}) = 1
    BY FS_Singleton
  <1>2. IsFiniteSet(S) /\ Cardinality(S) <= Cardinality({o})
    BY <1>1, FS_Subset
  <1>3. QED
    BY <1>1, <1>2, FS_CardinalityType

-----------------------------------------------------------------------------
(* ClosedOnlyByLastUser *)

\* The objects that believe to be connected through a block.
Connected(r) == {o \in Objects : as_ref_p[o] = r /\ is_connected[o]}

\* One step closes a handle only while at most one object believes in it.
ClosesAlone ==
    \A r \in Refs : cluster[r] /\ ~cluster'[r] => Cardinality(Connected(r)) <= 1

\* An object closes the handle it points to only if it is not persistent.
LEMMA ClosedIfPrivate ==
    ASSUME TypeInv, NEW o \in Objects, ObjectStep(o), as_ref_p[o] # Null,
           cluster[as_ref_p[o]], ~cluster'[as_ref_p[o]]
    PROVE  ~is_persistent[o]
  <1> USE DEF TypeInv, TypeOK
  <1>1. CASE \E r \in Refs : CreateHostEntry(o, r)
    BY <1>1 DEF CreateHostEntry, ControlInv, StepOK
  <1>2. CASE ConnectOK(o) \/ ReconnectPrivate(o)
    BY <1>2 DEF ConnectOK, ReconnectPrivate
  <1>3. CASE ClosePrivate(o)
    BY <1>3 DEF ClosePrivate, OwnsHandle
  <1>4. CASE SweepStore(o) \/ SweepDisconnected(o)
    BY <1>4 DEF SweepStore, SweepDisconnected, SweepHandle
  <1>5. CASE UNCHANGED cluster
    BY <1>5
  <1>6. QED
    BY <1>1, <1>2, <1>3, <1>4, <1>5 DEF ObjectStep, ConstructStep, Construct,
       ConstructBadConfig, ConstructAgain, ScanLock, ScanHit, ScanMiss, MatchStore,
       CreateFails, Publish, AddHostEntry, CheckFirst, CheckShared, ConnectFails,
       UndoLoad, UndoStore, LockAndLoad, CloseStep, CloseRefused, ClosePersistent,
       CloseStore, ReconnectStep, ReconnectRefused, ReconnectPersistent,
       ReconnectStore, SweepStep, SweepConnected

LEMMA ObjectClosesAlone ==
    ASSUME SafeInv, NEW o \in Objects, ObjectStep(o)
    PROVE  ClosesAlone
  <1>1. SUFFICES ASSUME NEW r \in Refs, cluster[r], ~cluster'[r]
                 PROVE  Cardinality(Connected(r)) <= 1
    BY DEF ClosesAlone
  <1>2. TypeInv /\ OwnBlockOnly(o)
    BY ObjectFrame DEF SafeInv
  <1>3. Connected(r) \in SUBSET {o}
    <2>1. CASE r \notin live
      BY <2>1, NullAssumption DEF SafeInv, ObjectSafe, Connected
    <2>2. CASE r \in live
      <3>1. as_ref_p[o] = r /\ as_ref_p[o] # Null
        BY <1>1, <1>2, <2>2, NullAssumption DEF OwnBlockOnly, SameBlock
      <3>2. ~is_persistent[o]
        BY <1>1, <1>2, <3>1, ClosedIfPrivate
      <3>3. QED
        BY <3>1, <3>2, PrivateAlone DEF Connected
    <2>3. QED
      BY <2>1, <2>2
  <1>4. QED
    BY <1>3, AtMostOne

\* moduleShutdown runs when no object is left.
LEMMA ShutdownClosesAlone ==
    ASSUME SafeInv, ShutdownStep
    PROVE  ClosesAlone
  <1>1. SUFFICES ASSUME NEW r \in Refs, cluster[r], ~cluster'[r]
                 PROVE  Cardinality(Connected(r)) <= 1
    BY DEF ClosesAlone
  <1>2. \A o \in Objects : as_ref_p[o] = Null
    BY <1>1 DEF ShutdownStep, ShutdownStart, ShutdownVisit, ShutdownEnd, SafeInv,
       TypeInv, ControlInv, StepOK
  <1>3. Connected(r) \in SUBSET {Null}
    BY <1>2, NullAssumption DEF Connected
  <1>4. QED
    BY <1>3, AtMostOne

\* "close an open aerospike C client's connection when ref count reaches 0":
\* close, sweep and moduleShutdown take the cluster from a handle only when no
\* second object believes to be connected through it.
THEOREM HandlesClosedByLastUser ==
    ASSUME FALSE \notin ReconstructModes
    PROVE  Spec => ClosedOnlyByLastUser
  <1>1. Init => SafeInv
    BY InitSafe
  <1>2. SafeInv /\ [Next]_vars => SafeInv'
    BY NextSafe
  <1>3. SafeInv /\ [Next]_vars => [ClosesAlone]_vars
    BY ObjectClosesAlone, ShutdownClosesAlone DEF Next, Ended, ObjectStep
  <1>4. QED
    BY <1>1, <1>2, <1>3, PTL DEF Spec, ClosedOnlyByLastUser, ClosesAlone, Connected

-----------------------------------------------------------------------------
(* PrivateStateAgrees *)

\* The steps in which a non-persistent object with a block can be.
PrivateSteps == {"idle", "check", "connect", "undo", "undo_store", "sweep"}

\* What a non-persistent object, its flag, its counter and its handle say of each
\* other: while it connects it is alone and not connected, a failed connect gives
\* the counter back, and between calls they agree.
PrivateSafe(o) ==
    /\ as_ref_p[o] = Null => ~is_connected[o]
    /\ (as_ref_p[o] # Null /\ ~is_persistent[o]) =>
          /\ pc[o] \in PrivateSteps
          /\ pc[o] \in {"check", "connect", "undo", "undo_store"} =>
                /\ ref_php_object[as_ref_p[o]] = 1
                /\ ~cluster[as_ref_p[o]] /\ ~is_connected[o]
          /\ pc[o] = "undo_store" => loaded[o] = 1
          /\ pc[o] = "idle" =>
                /\ is_connected[o] = cluster[as_ref_p[o]]
                /\ ref_php_object[as_ref_p[o]] = IF is_connected[o] THEN 1 ELSE 0

PrivateInv == SafeInv /\ \A o \in Objects : PrivateSafe(o)

\* No other object reaches into the block of a non-persistent one.
LEMMA OthersPrivateSafe ==
    ASSUME PrivateInv, NEW o \in Objects, OwnBlockOnly(o), NEW q \in Objects, q # o
    PROVE  PrivateSafe(q)'
  <1>1. SameObject(q)
    BY DEF OwnBlockOnly
  <1>2. CASE as_ref_p[q] = Null \/ is_persistent[q]
    BY <1>1, <1>2 DEF SameObject, PrivateInv, PrivateSafe
  <1>3. CASE as_ref_p[q] # Null /\ ~is_persistent[q]
    <2>1. as_ref_p[o] # as_ref_p[q] /\ as_ref_p[q] \in live
      BY <1>3, PrivateAlone DEF PrivateInv, SafeInv, ObjectSafe
    <2>2. SameBlock(as_ref_p[q])
      BY <2>1 DEF OwnBlockOnly
    <2>3. PrivateSafe(q)
      BY DEF PrivateInv
    <2>4. QED
      BY <1>1, <2>2, <2>3 DEF SameObject, SameBlock, PrivateSafe
  <1>4. QED
    BY <1>2, <1>3

\* A call that only returns.
LEMMA SamePrivateSafe ==
    ASSUME NEW o \in Objects, PrivateSafe(o), pc[o] = "idle", pc'[o] = "idle",
           UNCHANGED <<refs, as_ref_p, is_connected, is_persistent>>
    PROVE  PrivateSafe(o)'
  BY DEF PrivateSafe

\* The steps of the object itself.
LEMMA ConstructPrivateSafe ==
    ASSUME PrivateInv, FALSE \notin ReconstructModes, NEW o \in Objects, ConstructStep(o)
    PROVE  PrivateSafe(o)'
  <1> USE DEF TypeOK, PrivateSafe, PrivateSteps, Goto, CanCall, Return
  <1>1. TypeOK /\ StepOK(o) /\ PrivateSafe(o)
    BY DEF PrivateInv, SafeInv, TypeInv, ControlInv
  <1>2. CASE \E config \in Configs, p \in BOOLEAN : Construct(o, config, p)
    BY <1>1, <1>2 DEF Construct
  <1>3. CASE \E p \in BOOLEAN : ConstructBadConfig(o, p)
    BY <1>1, <1>3 DEF ConstructBadConfig
  <1>4. CASE \E p \in ReconstructModes : ConstructAgain(o, p)
    <2>1. \A p \in ReconstructModes : p = TRUE
      BY ModesAssumption
    <2>2. QED
      BY <1>1, <1>4, <2>1 DEF ConstructAgain
  <1>5. CASE ScanLock(o) \/ ScanHit(o) \/ ScanMiss(o)
    BY <1>1, <1>5, NullAssumption DEF ScanLock, ScanHit, ScanMiss, StepOK
  <1>6. CASE MatchStore(o)
    BY <1>1, <1>6 DEF MatchStore, VisitHost, StoreAndUnlock, StepOK
  <1>7. CASE \E r \in Refs : CreateHostEntry(o, r)
    BY <1>1, <1>7, NullAssumption DEF CreateHostEntry, StepOK
  <1>8. CASE CreateFails(o) \/ CheckFirst(o)
    BY <1>1, <1>8 DEF CreateFails, CheckFirst, StepOK
  <1>9. CASE CheckShared(o)
    <2>1. as_ref_p[o] # Null => is_persistent[o]
      BY <1>1, <1>9 DEF CheckShared, FirstUser
    <2>2. QED
      BY <1>1, <1>9, <2>1 DEF CheckShared
  <1>10. CASE Publish(o) \/ AddHostEntry(o)
    BY <1>1, <1>10 DEF Publish, AddHostEntry, VisitHost, StepOK, Attached
  <1>11. CASE ConnectOK(o) \/ ConnectFails(o)
    <2>1. as_ref_p[o] # Null /\ pc[o] = "connect"
      BY <1>1, <1>11 DEF ConnectOK, ConnectFails, StepOK, Attached
    <2>2. CASE ConnectOK(o)
      <3>1. /\ pc'[o] = "idle" /\ is_connected'[o] /\ cluster'[as_ref_p[o]]
            /\ is_connected'[o] \in BOOLEAN /\ cluster'[as_ref_p[o]] \in BOOLEAN
            /\ UNCHANGED <<ref_php_object, as_ref_p, is_persistent>>
        BY <1>1, <2>1, <2>2 DEF ConnectOK
      <3>2. QED
        BY <1>1, <2>1, <3>1
    <2>3. CASE ConnectFails(o)
      BY <1>1, <2>1, <2>3 DEF ConnectFails
    <2>4. QED
      BY <1>11, <2>2, <2>3
  <1>12. CASE UndoLoad(o) \/ UndoStore(o)
    BY <1>1, <1>12 DEF UndoLoad, UndoStore, StepOK, Attached
  <1>13. QED
    BY <1>2, <1>3, <1>4, <1>5, <1>6, <1>7, <1>8, <1>9, <1>10, <1>11, <1>12
       DEF ConstructStep

LEMMA CallPrivateSafe ==
    ASSUME PrivateInv, NEW o \in Objects,
           LockAndLoad(o) \/ CloseStep(o) \/ ReconnectStep(o) \/ SweepStep(o)
    PROVE  PrivateSafe(o)'
  <1> USE DEF TypeOK, PrivateSafe, PrivateSteps, Goto, CanCall, Return
  <1>1. TypeOK /\ StepOK(o) /\ PrivateSafe(o)
    BY DEF PrivateInv, SafeInv, TypeInv, ControlInv
  <1>2. CASE LockAndLoad(o)
    BY <1>1, <1>2 DEF LockAndLoad
  <1>3. CASE CloseRefused(o)
    <2>1. /\ pc[o] = "idle" /\ pc'[o] = "idle"
          /\ UNCHANGED <<refs, as_ref_p, is_connected, is_persistent>>
      BY <1>1, <1>3 DEF CloseRefused
    <2> HIDE DEF PrivateSafe
    <2>2. QED
      BY <1>1, <2>1, SamePrivateSafe
  <1>4. CASE ClosePrivate(o) \/ ClosePersistent(o)
    <2>1. CASE ClosePrivate(o)
      <3>1. /\ pc'[o] = "idle" /\ ~is_connected'[o] /\ ~cluster'[as_ref_p[o]]
            /\ is_connected'[o] \in BOOLEAN /\ cluster'[as_ref_p[o]] \in BOOLEAN
            /\ ref_php_object'[as_ref_p[o]] = 0 /\ as_ref_p[o] # Null
            /\ UNCHANGED <<as_ref_p, is_persistent>>
        BY <1>1, <2>1 DEF ClosePrivate, Disconnect
      <3>2. QED
        BY <1>1, <3>1
    <2>2. CASE ClosePersistent(o)
      BY <1>1, <2>2 DEF ClosePersistent, OwnsHandle
    <2>3. QED
      BY <1>4, <2>1, <2>2
  <1>5. CASE CloseStore(o)
    BY <1>1, <1>5 DEF CloseStore, StoreAndUnlock, Disconnect, StepOK, Attached
  <1>6. CASE ReconnectRefused(o)
    <2>1. /\ pc[o] = "idle" /\ pc'[o] = "idle"
          /\ UNCHANGED <<refs, as_ref_p, is_connected, is_persistent>>
      BY <1>1, <1>6 DEF ReconnectRefused
    <2> HIDE DEF PrivateSafe
    <2>2. QED
      BY <1>1, <2>1, SamePrivateSafe
  <1>7. CASE ReconnectPrivate(o) \/ ReconnectPersistent(o)
    <2>1. CASE ReconnectPrivate(o)
      <3>1. /\ pc'[o] = "idle" /\ is_connected'[o] /\ cluster'[as_ref_p[o]]
            /\ is_connected'[o] \in BOOLEAN /\ cluster'[as_ref_p[o]] \in BOOLEAN
            /\ ref_php_object'[as_ref_p[o]] = 1 /\ as_ref_p[o] # Null
            /\ UNCHANGED <<as_ref_p, is_persistent>>
        BY <1>1, <2>1 DEF ReconnectPrivate
      <3>2. QED
        BY <1>1, <3>1
    <2>2. CASE ReconnectPersistent(o)
      BY <1>1, <2>2 DEF ReconnectPersistent
    <2>3. QED
      BY <1>7, <2>1, <2>2
  <1>8. CASE ReconnectStore(o)
    BY <1>1, <1>8 DEF ReconnectStore, StoreAndUnlock, StepOK, Attached
  <1>9. CASE SweepConnected(o)
    BY <1>1, <1>9 DEF SweepConnected
  <1>10. CASE SweepStore(o) \/ SweepDisconnected(o)
    BY <1>1, <1>10 DEF SweepStore, SweepDisconnected, Gone
  <1>11. QED
    BY <1>2, <1>3, <1>4, <1>5, <1>6, <1>7, <1>8, <1>9, <1>10
       DEF CloseStep, ReconnectStep, SweepStep

LEMMA InitPrivate == Init => PrivateInv
  BY InitSafe DEF Init, PrivateInv, PrivateSafe

LEMMA NextPrivate ==
    ASSUME FALSE \notin ReconstructModes, PrivateInv, [Next]_vars
    PROVE  PrivateInv'
  <1>1. SafeInv /\ SafeInv'
    BY NextSafe DEF PrivateInv
  <1>2. CASE \E o \in Objects : ObjectStep(o)
    <2> PICK o \in Objects : ObjectStep(o)
      BY <1>2
    <2>1. OwnBlockOnly(o)
      BY <1>1, ObjectFrame DEF SafeInv
    <2>2. PrivateSafe(o)'
      BY ConstructPrivateSafe, CallPrivateSafe DEF ObjectStep
    <2>3. QED
      BY <1>1, <2>1, <2>2, OthersPrivateSafe DEF PrivateInv
  <1>3. CASE ShutdownStep
    <2>1. /\ \A q \in Objects : as_ref_p[q] = Null
          /\ UNCHANGED <<as_ref_p, is_connected, is_persistent>>
      BY <1>1, <1>3 DEF ShutdownStep, ShutdownStart, ShutdownVisit, ShutdownEnd, SafeInv,
         TypeInv, ControlInv, StepOK
    <2>2. QED
      BY <1>1, <2>1 DEF PrivateInv, PrivateSafe
  <1>4. CASE UNCHANGED vars
    BY <1>1, <1>4 DEF vars, PrivateInv, PrivateSafe
  <1>5. QED
    BY <1>2, <1>3, <1>4 DEF Next, Ended, ObjectStep

\* Whatever mix of failed connects, close, reconnect and refused calls came
\* before, and whatever other requests do meanwhile: between two calls a
\* non-persistent object reports a connection exactly when its handle has a
\* cluster, and its reference count is 1 or 0 accordingly.
THEOREM PrivateStateHolds ==
    ASSUME FALSE \notin ReconstructModes
    PROVE  Spec => []PrivateStateAgrees
  <1>1. Init => PrivateInv
    BY InitPrivate
  <1>2. PrivateInv /\ [Next]_vars => PrivateInv'
    BY NextPrivate
  <1>3. PrivateInv => PrivateStateAgrees
    BY DEF PrivateInv, PrivateSafe, PrivateStateAgrees
  <1>4. QED
    BY <1>1, <1>2, <1>3, PTL DEF Spec

-----------------------------------------------------------------------------
(* CountCoversUsers and NoConcurrentConnect *)

\* The objects that ref_php_object[r] stands for.
Users(r) == {o \in Objects : as_ref_p[o] = r /\ Counted(o)}

\* No connect has failed; the holder of the write lock is between its load and
\* its store, and what it loaded is still in the counter; the flag says on which
\* side of the count the object is while it waits for the lock.
CountSafe(o) ==
    /\ pc[o] \notin {"undo", "undo_store"}
    /\ writer = o => /\ pc[o] \in {"match", "close", "reconnect", "sweep"}
                     /\ loaded[o] = ref_php_object[as_ref_p[o]]
    /\ pc[o] \in {"match", "close", "sweep"} => is_connected[o]
    /\ pc[o] = "reconnect" => ~is_connected[o]

CountInv ==
    /\ PrivateInv
    /\ \A o \in Objects : CountSafe(o)
    /\ CountCoversUsers
    /\ NoConcurrentConnect

LEMMA UsersFinite ==
    ASSUME NEW r
    PROVE  IsFiniteSet(Users(r)) /\ Cardinality(Users(r)) \in Nat
  <1>1. Users(r) \in SUBSET Objects
    BY DEF Users
  <1>2. IsFiniteSet(Users(r))
    BY <1>1, ObjectsAssumption, FS_Subset
  <1>3. QED
    BY <1>2, FS_CardinalityType

\* The five things a step of o can do to the counters: nothing, while o does not
\* become a user and stops being one only if it finds the block shared; count o
\* in; count o out; start at 1 for a new block; set the counter of a block that
\* is only o's.
Keeps(o) ==
    /\ Counted(o)' => Counted(o) /\ as_ref_p'[o] = as_ref_p[o]
    /\ Counted(o) => Counted(o)' \/ CheckShared(o)
    /\ UNCHANGED ref_php_object /\ live' \subseteq live

Enters(o) ==
    /\ ~Counted(o) /\ Counted(o)'
    /\ as_ref_p[o] \in Refs /\ as_ref_p'[o] = as_ref_p[o]
    /\ ref_php_object' = [ref_php_object EXCEPT ![as_ref_p[o]] = @ + 1]
    /\ live' \subseteq live

Leaves(o) ==
    /\ Counted(o) /\ ~Counted(o)'
    /\ as_ref_p[o] \in Refs
    /\ ref_php_object' = [ref_php_object EXCEPT ![as_ref_p[o]] = @ - 1]
    /\ live' \subseteq live

Creates(o) ==
    /\ as_ref_p[o] = Null
    /\ \E r \in Refs \ live :
          /\ as_ref_p'[o] = r /\ live' = live \cup {r} /\ Counted(o)'
          /\ ref_php_object' = [ref_php_object EXCEPT ![r] = 1]

SetsOwn(o) ==
    /\ as_ref_p[o] \in Refs /\ ~is_persistent[o]
    /\ as_ref_p'[o] = as_ref_p[o] /\ live' = live
    /\ \E n \in {0, 1} :
          /\ ref_php_object' = [ref_php_object EXCEPT ![as_ref_p[o]] = n]
          /\ Counted(o)' <=> n = 1

Effect(o) == Keeps(o) \/ Enters(o) \/ Leaves(o) \/ Creates(o) \/ SetsOwn(o)

LEMMA ConstructEffect ==
    ASSUME CountInv, ~ConnectMayFail, NEW o \in Objects, ConstructStep(o)
    PROVE  Effect(o)
  <1> USE DEF TypeOK, CountSafe, StepOK, Attached, Effect, Counted, Goto, CanCall, Return
  <1>1. TypeOK /\ StepOK(o) /\ CountSafe(o)
    BY DEF CountInv, PrivateInv, SafeInv, TypeInv, ControlInv
  <1>2. CASE \E config \in Configs, p \in BOOLEAN : Construct(o, config, p)
    BY <1>1, <1>2 DEF Construct, Keeps
  <1>3. CASE \E p \in BOOLEAN : ConstructBadConfig(o, p)
    BY <1>1, <1>3 DEF ConstructBadConfig, Keeps
  <1>4. CASE \E p \in ReconstructModes : ConstructAgain(o, p)
    BY <1>1, <1>4 DEF ConstructAgain, Keeps
  <1>5. CASE ScanLock(o) \/ ScanMiss(o)
    BY <1>1, <1>5 DEF ScanLock, ScanMiss, Keeps
  <1>6. CASE ScanHit(o)
    <2>1. ~is_connected[o]
      BY <1>1, <1>6 DEF ScanHit, CountInv, PrivateInv, PrivateSafe
    <2>2. QED
      BY <1>1, <1>6, <2>1 DEF ScanHit, Keeps
  <1>7. CASE MatchStore(o)
    BY <1>1, <1>7 DEF MatchStore, StoreAndUnlock, VisitHost, Enters
  <1>8. CASE \E r \in Refs : CreateHostEntry(o, r)
    BY <1>1, <1>8 DEF CreateHostEntry, Creates
  <1>9. CASE CreateFails(o) \/ CheckFirst(o) \/ CheckShared(o)
    BY <1>1, <1>9 DEF CreateFails, CheckFirst, CheckShared, Keeps
  <1>10. CASE Publish(o) \/ AddHostEntry(o)
    BY <1>1, <1>10 DEF Publish, AddHostEntry, VisitHost, Keeps
  <1>11. CASE ConnectOK(o)
    BY <1>1, <1>11 DEF ConnectOK, Keeps
  <1>12. QED
    BY <1>1, <1>2, <1>3, <1>4, <1>5, <1>6, <1>7, <1>8, <1>9, <1>10, <1>11
       DEF ConstructStep, ConnectFails, UndoLoad, UndoStore

LEMMA CallEffect ==
    ASSUME CountInv, NEW o \in Objects,
           LockAndLoad(o) \/ CloseStep(o) \/ ReconnectStep(o) \/ SweepStep(o)
    PROVE  Effect(o)
  <1> USE DEF TypeOK, CountSafe, StepOK, Attached, Effect, Counted, Goto, CanCall, Return
  <1>1. TypeOK /\ StepOK(o) /\ CountSafe(o)
    BY DEF CountInv, PrivateInv, SafeInv, TypeInv, ControlInv
  <1>2. CASE LockAndLoad(o)
    BY <1>1, <1>2 DEF LockAndLoad, Keeps
  <1>3. CASE CloseRefused(o)
    BY <1>1, <1>3 DEF CloseRefused, Keeps
  <1>4. CASE ClosePrivate(o)
    BY <1>1, <1>4 DEF ClosePrivate, Disconnect, OwnsHandle, SetsOwn
  <1>5. CASE ClosePersistent(o)
    BY <1>1, <1>5 DEF ClosePersistent, Keeps
  <1>6. CASE CloseStore(o)
    BY <1>1, <1>6 DEF CloseStore, StoreAndUnlock, Disconnect, Leaves
  <1>7. CASE ReconnectRefused(o)
    BY <1>1, <1>7 DEF ReconnectRefused, Keeps
  <1>8. CASE ReconnectPrivate(o)
    BY <1>1, <1>8 DEF ReconnectPrivate, SetsOwn
  <1>9. CASE ReconnectPersistent(o)
    BY <1>1, <1>9 DEF ReconnectPersistent, Keeps
  <1>10. CASE ReconnectStore(o)
    BY <1>1, <1>10 DEF ReconnectStore, StoreAndUnlock, Enters
  <1>11. CASE SweepConnected(o)
    BY <1>1, <1>11 DEF SweepConnected, Keeps
  <1>12. CASE SweepStore(o)
    BY <1>1, <1>12 DEF SweepStore, StoreAndUnlock, SweepHandle, Release, Gone, Leaves
  <1>13. CASE SweepDisconnected(o)
    BY <1>1, <1>13 DEF SweepDisconnected, SweepHandle, Release, Gone, Keeps
  <1>14. QED
    BY <1>2, <1>3, <1>4, <1>5, <1>6, <1>7, <1>8, <1>9, <1>10, <1>11, <1>12, <1>13
       DEF CloseStep, ReconnectStep, SweepStep

\* A smaller set of users needs no larger count.
LEMMA FewerUsers ==
    ASSUME CountInv, NEW r \in live, Users(r)' \subseteq Users(r)
    PROVE  Cardinality(Users(r)') <= ref_php_object[r]
  <1>1. /\ Cardinality(Users(r)) \in Nat /\ IsFiniteSet(Users(r))
        /\ Cardinality(Users(r)) <= ref_php_object[r] /\ ref_php_object[r] \in Int
    BY UsersFinite DEF CountInv, PrivateInv, SafeInv, TypeInv, TypeOK, CountCoversUsers, Users
  <1>2. /\ IsFiniteSet(Users(r)') /\ Cardinality(Users(r)') <= Cardinality(Users(r))
    BY <1>1, FS_Subset
  <1>3. Cardinality(Users(r)') \in Nat
    BY <1>2, FS_CardinalityType
  <1>4. QED
    BY <1>1, <1>2, <1>3

\* Each of the five effects keeps the counters at or above the users.
LEMMA EffectCovers ==
    ASSUME CountInv, NEW o \in Objects, OwnBlockOnly(o), Effect(o)
    PROVE  CountCoversUsers'
  <1>1. SUFFICES ASSUME NEW r \in live'
                 PROVE  Cardinality(Users(r)') <= ref_php_object'[r]
    BY DEF CountCoversUsers, Users
  <1>2. /\ as_ref_p \in [Objects -> Refs \cup {Null}] /\ live \subseteq Refs
        /\ ref_php_object \in [Refs -> Int]
    BY DEF CountInv, PrivateInv, SafeInv, TypeInv, TypeOK
  <1>3. ASSUME NEW q \in Objects, q # o
        PROVE  q \in Users(r)' <=> q \in Users(r)
    BY <1>3 DEF OwnBlockOnly, SameObject, Users, Counted
  <1>4. CASE Keeps(o)
    <2>1. Users(r)' \subseteq Users(r)
      <3>1. ASSUME o \in Users(r)' PROVE o \in Users(r)
        BY <1>4, <3>1 DEF Keeps, Users
      <3>2. QED
        BY <1>3, <3>1 DEF Users
    <2>2. QED
      BY <1>4, <2>1, FewerUsers DEF Keeps
  <1>5. CASE Enters(o)
    <2>0. r \in live
      BY <1>5 DEF Enters
    <2>1. CASE r = as_ref_p[o]
      <3>1. o \notin Users(r)
        BY <1>5 DEF Enters, Users
      <3>2. Users(r)' \in SUBSET (Users(r) \cup {o})
        BY <1>3 DEF Users
      <3>3. /\ IsFiniteSet(Users(r) \cup {o})
            /\ Cardinality(Users(r) \cup {o}) = Cardinality(Users(r)) + 1
        BY <3>1, UsersFinite, FS_AddElement
      <3>4. /\ IsFiniteSet(Users(r)')
            /\ Cardinality(Users(r)') <= Cardinality(Users(r) \cup {o})
        BY <3>2, <3>3, FS_Subset
      <3>5. Cardinality(Users(r)) <= ref_php_object[r] /\ ref_php_object[r] \in Int
        BY <1>2, <2>0 DEF CountInv, CountCoversUsers, Users
      <3>6. ref_php_object'[r] = ref_php_object[r] + 1
        BY <1>2, <1>5, <2>0, <2>1 DEF Enters
      <3>7. Cardinality(Users(r)') \in Nat
        BY <3>4, FS_CardinalityType
      <3>8. QED
        BY <3>3, <3>4, <3>5, <3>6, <3>7, UsersFinite
    <2>2. CASE r # as_ref_p[o]
      <3>1. o \notin Users(r)'
        BY <1>5, <2>2 DEF Enters, Users
      <3>2. Users(r)' \subseteq Users(r)
        BY <1>3, <3>1 DEF Users
      <3>3. ref_php_object'[r] = ref_php_object[r]
        BY <2>0, <2>2 DEF OwnBlockOnly, SameBlock
      <3>4. QED
        BY <2>0, <3>2, <3>3, FewerUsers
    <2>3. QED
      BY <2>1, <2>2
  <1>6. CASE Leaves(o)
    <2>0. r \in live /\ o \notin Users(r)'
      BY <1>6 DEF Leaves, Users
    <2>1. CASE r = as_ref_p[o]
      <3>1. o \in Users(r)
        BY <1>6, <2>1 DEF Leaves, Users
      <3>2. Users(r)' \in SUBSET (Users(r) \ {o})
        BY <1>3, <2>0 DEF Users
      <3>3. /\ IsFiniteSet(Users(r) \ {o})
            /\ Cardinality(Users(r) \ {o}) = Cardinality(Users(r)) - 1
        BY <3>1, UsersFinite, FS_RemoveElement
      <3>4. /\ IsFiniteSet(Users(r)')
            /\ Cardinality(Users(r)') <= Cardinality(Users(r) \ {o})
        BY <3>2, <3>3, FS_Subset
      <3>5. Cardinality(Users(r)) <= ref_php_object[r] /\ ref_php_object[r] \in Int
        BY <1>2, <2>0 DEF CountInv, CountCoversUsers, Users
      <3>6. ref_php_object'[r] = ref_php_object[r] - 1
        BY <1>2, <1>6, <2>0, <2>1 DEF Leaves
      <3>7. Cardinality(Users(r)') \in Nat
        BY <3>4, FS_CardinalityType
      <3>8. QED
        BY <3>3, <3>4, <3>5, <3>6, <3>7, UsersFinite
    <2>2. CASE r # as_ref_p[o]
      <3>1. Users(r)' \subseteq Users(r)
        BY <1>3, <2>0 DEF Users
      <3>2. ref_php_object'[r] = ref_php_object[r]
        BY <2>0, <2>2 DEF OwnBlockOnly, SameBlock
      <3>3. QED
        BY <2>0, <3>1, <3>2, FewerUsers
    <2>3. QED
      BY <2>1, <2>2
  <1>7. CASE Creates(o)
    <2> PICK s \in Refs \ live :
          /\ as_ref_p'[o] = s /\ live' = live \cup {s}
          /\ ref_php_object' = [ref_php_object EXCEPT ![s] = 1]
      BY <1>7 DEF Creates
    <2>1. CASE r = s
      <3>1. ASSUME NEW q \in Objects PROVE as_ref_p[q] # s
        BY NullAssumption DEF CountInv, PrivateInv, SafeInv, ObjectSafe
      <3>2. Users(r)' \in SUBSET {o}
        BY <1>3, <2>1, <3>1 DEF Users
      <3>3. ref_php_object'[r] = 1
        BY <1>2, <2>1
      <3>4. QED
        BY <3>2, <3>3, AtMostOne
    <2>2. CASE r # s
      <3>1. r \in live /\ o \notin Users(r)'
        BY <2>2 DEF Users
      <3>2. Users(r)' \subseteq Users(r) /\ ref_php_object'[r] = ref_php_object[r]
        BY <1>2, <1>3, <2>2, <3>1 DEF Users
      <3>3. QED
        BY <3>1, <3>2, FewerUsers
    <2>3. QED
      BY <2>1, <2>2
  <1>8. CASE SetsOwn(o)
    <2>0. r \in live
      BY <1>8 DEF SetsOwn
    <2>1. CASE r = as_ref_p[o]
      <3>1. ASSUME NEW q \in Objects, as_ref_p[q] = r PROVE q = o
        BY <1>8, <2>1, <3>1, PrivateAlone, NullAssumption DEF SetsOwn, CountInv, PrivateInv
      <3>2. Users(r)' \in SUBSET {o}
        BY <1>3, <3>1 DEF Users
      <3>3. CASE Counted(o)'
        <4>1. ref_php_object'[r] = 1
          BY <1>2, <1>8, <2>0, <2>1, <3>3 DEF SetsOwn
        <4>2. QED
          BY <3>2, <4>1, AtMostOne
      <3>4. CASE ~Counted(o)'
        <4>1. Users(r)' = {}
          BY <3>2, <3>4 DEF Users
        <4>2. ref_php_object'[r] \in {0, 1}
          BY <1>2, <1>8, <2>0, <2>1 DEF SetsOwn
        <4>3. QED
          BY <4>1, <4>2, FS_EmptySet
      <3>5. QED
        BY <3>3, <3>4
    <2>2. CASE r # as_ref_p[o]
      <3>1. o \notin Users(r)'
        BY <1>8, <2>2 DEF SetsOwn, Users
      <3>2. Users(r)' \subseteq Users(r)
        BY <1>3, <3>1 DEF Users
      <3>3. ref_php_object'[r] = ref_php_object[r]
        BY <2>0, <2>2 DEF OwnBlockOnly, SameBlock
      <3>4. QED
        BY <2>0, <3>2, <3>3, FewerUsers
    <2>3. QED
      BY <2>1, <2>2
  <1>9. QED
    BY <1>4, <1>5, <1>6, <1>7, <1>8 DEF Effect

\* A step of o takes the write lock for itself, releases its own or leaves it.
LEMMA WriterFrame ==
    ASSUME NEW o \in Objects, ObjectStep(o)
    PROVE  writer' \in {writer, o, Null}
  BY DEF ObjectStep, ConstructStep, Construct, ConstructBadConfig, ConstructAgain,
     ScanLock, ScanHit, ScanMiss, MatchStore, StoreAndUnlock, CreateHostEntry,
     CreateFails, Publish, AddHostEntry, CheckFirst, CheckShared, ConnectOK,
     ConnectFails, UndoLoad, UndoStore, LockAndLoad, CloseStep, CloseRefused,
     ClosePrivate, ClosePersistent, CloseStore, ReconnectStep, ReconnectRefused,
     ReconnectPrivate, ReconnectPersistent, ReconnectStore, SweepStep,
     SweepConnected, SweepStore, SweepDisconnected

\* While q holds the write lock no other object stores into q's counter.
LEMMA LockedCounter ==
    ASSUME CountInv, ~ConnectMayFail, NEW o \in Objects, ObjectStep(o),
           NEW q \in Objects, q # o, writer = q, as_ref_p[q] \in live
    PROVE  ref_php_object'[as_ref_p[q]] = ref_php_object[as_ref_p[q]]
  <1>1. OwnBlockOnly(o)
    BY ObjectFrame DEF CountInv, PrivateInv, SafeInv
  <1>2. CASE as_ref_p[o] # as_ref_p[q]
    BY <1>1, <1>2 DEF OwnBlockOnly, SameBlock
  <1>3. CASE as_ref_p[o] = as_ref_p[q]
    <2>1. as_ref_p[o] # Null /\ as_ref_p[o] \in Refs
      BY <1>3, NullAssumption DEF CountInv, PrivateInv, SafeInv, TypeInv, TypeOK
    <2>2. is_persistent[o]
      BY <1>3, <2>1, PrivateAlone DEF CountInv, PrivateInv
    <2>3. pc[o] \notin {"create", "undo", "undo_store"}
      BY <2>1 DEF CountInv, CountSafe, PrivateInv, SafeInv, TypeInv, ControlInv, StepOK
    <2>4. UNCHANGED ref_php_object
      BY <2>2, <2>3 DEF ObjectStep, ConstructStep, Construct, ConstructBadConfig,
         ConstructAgain, ScanLock, ScanHit, ScanMiss, MatchStore, StoreAndUnlock,
         CreateHostEntry, CreateFails, Publish, AddHostEntry, CheckFirst, CheckShared,
         ConnectOK, ConnectFails, UndoLoad, UndoStore, LockAndLoad, CloseStep,
         CloseRefused, ClosePrivate, OwnsHandle, ClosePersistent, CloseStore,
         ReconnectStep, ReconnectRefused, ReconnectPrivate, ReconnectPersistent,
         ReconnectStore, SweepStep, SweepConnected, SweepStore, SweepDisconnected
    <2>5. QED
      BY <2>4
  <1>4. QED
    BY <1>2, <1>3

LEMMA OthersCountSafe ==
    ASSUME CountInv, ~ConnectMayFail, NEW o \in Objects, ObjectStep(o),
           NEW q \in Objects, q # o
    PROVE  CountSafe(q)'
  <1>1. SameObject(q) /\ CountSafe(q)
    BY ObjectFrame DEF CountInv, PrivateInv, SafeInv, OwnBlockOnly
  <1>2. writer' = q => writer = q
    BY WriterFrame, NullAssumption
  <1>3. ASSUME writer = q PROVE ref_php_object'[as_ref_p[q]] = ref_php_object[as_ref_p[q]]
    <2>1. as_ref_p[q] \in live
      BY <1>1, <1>3 DEF CountSafe, CountInv, PrivateInv, SafeInv, ObjectSafe, TypeInv,
         ControlInv, StepOK, Attached
    <2>2. QED
      BY <1>3, <2>1, LockedCounter
  <1>4. QED
    BY <1>1, <1>2, <1>3 DEF SameObject, CountSafe

LEMMA OwnCountSafe ==
    ASSUME CountInv, ~ConnectMayFail, NEW o \in Objects, ObjectStep(o)
    PROVE  CountSafe(o)'
  <1> USE DEF TypeOK, CountSafe, Goto, CanCall, Return
  <1>1. TypeOK /\ CountSafe(o) /\ PrivateSafe(o) /\ StepOK(o)
    BY DEF CountInv, PrivateInv, SafeInv, TypeInv, ControlInv
  <1>2. CASE \E config \in Configs, p \in BOOLEAN : Construct(o, config, p)
    BY <1>1, <1>2 DEF Construct
  <1>3. CASE \E p \in BOOLEAN : ConstructBadConfig(o, p)
    BY <1>1, <1>3 DEF ConstructBadConfig
  <1>4. CASE \E p \in ReconstructModes : ConstructAgain(o, p)
    BY <1>1, <1>4 DEF ConstructAgain
  <1>5. CASE ScanLock(o) \/ ScanHit(o) \/ ScanMiss(o)
    BY <1>1, <1>5 DEF ScanLock, ScanHit, ScanMiss
  <1>6. CASE MatchStore(o) \/ CloseStore(o) \/ ReconnectStore(o) \/ SweepStore(o)
    BY <1>1, <1>6, NullAssumption DEF MatchStore, CloseStore, ReconnectStore, SweepStore,
       VisitHost, StoreAndUnlock, Disconnect, Gone
  <1>7. CASE \E r \in Refs : CreateHostEntry(o, r)
    BY <1>1, <1>7 DEF CreateHostEntry
  <1>8. CASE CreateFails(o) \/ CheckFirst(o) \/ CheckShared(o) \/ ConnectOK(o)
    BY <1>1, <1>8 DEF CreateFails, CheckFirst, CheckShared, ConnectOK
  <1>9. CASE Publish(o) \/ AddHostEntry(o)
    BY <1>1, <1>9 DEF Publish, AddHostEntry, VisitHost
  <1>10. CASE LockAndLoad(o)
    BY <1>1, <1>10 DEF LockAndLoad
  <1>11. CASE CloseRefused(o) \/ ReconnectRefused(o)
    BY <1>1, <1>11 DEF CloseRefused, ReconnectRefused
  <1>12. CASE ClosePrivate(o) \/ ReconnectPrivate(o) \/ SweepDisconnected(o)
    BY <1>1, <1>12 DEF ClosePrivate, ReconnectPrivate, SweepDisconnected, Disconnect, Gone
  <1>13. CASE ClosePersistent(o) \/ ReconnectPersistent(o) \/ SweepConnected(o)
    BY <1>1, <1>13 DEF ClosePersistent, ReconnectPersistent, SweepConnected, Closable, Reopenable
  <1>14. QED
    BY <1>1, <1>2, <1>3, <1>4, <1>5, <1>6, <1>7, <1>8, <1>9, <1>10, <1>11, <1>12, <1>13
       DEF ObjectStep, ConstructStep, ConnectFails, UndoLoad, UndoStore, CloseStep,
       ReconnectStep, SweepStep

\* An object that passes the test ref_php_object <= 1 is the only user.
LEMMA FirstUserAlone ==
    ASSUME CountInv, NEW o \in Objects, pc[o] = "check", FirstUser(o),
           NEW q \in Objects, pc[q] = "connect", as_ref_p[q] = as_ref_p[o]
    PROVE  FALSE
  <1> DEFINE r == as_ref_p[o]
  <1>1. r \in live /\ ref_php_object[r] \in Int /\ ref_php_object[r] <= 1
    BY DEF CountInv, PrivateInv, SafeInv, ObjectSafe, TypeInv, TypeOK, ControlInv,
       StepOK, Attached, FirstUser
  <1>2. o \in Users(r) /\ q \in Users(r) /\ o # q
    BY DEF Users, Counted
  <1>a. Cardinality(Users(r)) <= ref_php_object[r]
    BY <1>1 DEF CountInv, CountCoversUsers, Users
  <1>3. Cardinality(Users(r)) <= 1
    BY <1>1, <1>a, UsersFinite
  <1>4. Cardinality(Users(r) \ {o}) = Cardinality(Users(r)) - 1 /\ IsFiniteSet(Users(r) \ {o})
    BY <1>2, UsersFinite, FS_RemoveElement
  <1>5. Cardinality(Users(r) \ {o}) # 0
    BY <1>2, <1>4, FS_EmptySet
  <1>6. Cardinality(Users(r) \ {o}) \in Nat
    BY <1>4, FS_CardinalityType
  <1>7. QED
    BY <1>3, <1>4, <1>5, <1>6, UsersFinite

\* Only the test leads to aerospike_connect.
LEMMA ConnectStep ==
    ASSUME TypeInv, NEW o \in Objects, ObjectStep(o), pc'[o] = "connect"
    PROVE  pc[o] = "check" /\ FirstUser(o) /\ as_ref_p' = as_ref_p
  <1> USE DEF TypeInv, TypeOK, Goto, Return, VisitHost
  <1>1. ASSUME ConstructStep(o)
        PROVE  pc[o] = "check" /\ FirstUser(o) /\ as_ref_p' = as_ref_p
    BY <1>1 DEF ConstructStep, Construct, ConstructBadConfig, ConstructAgain,
       ScanLock, ScanHit, ScanMiss, MatchStore, CreateHostEntry, CreateFails, Publish,
       AddHostEntry, CheckFirst, CheckShared, ConnectOK, ConnectFails, UndoLoad, UndoStore
  <1>2. ASSUME LockAndLoad(o) \/ CloseStep(o) \/ ReconnectStep(o)
        PROVE  FALSE
    BY <1>2 DEF LockAndLoad, CloseStep, CloseRefused, ClosePrivate, ClosePersistent,
       CloseStore, ReconnectStep, ReconnectRefused, ReconnectPrivate,
       ReconnectPersistent, ReconnectStore
  <1>3. ASSUME SweepStep(o)
        PROVE  FALSE
    BY <1>3 DEF SweepStep, SweepConnected, SweepStore, SweepDisconnected, Gone
  <1>4. QED
    BY <1>1, <1>2, <1>3 DEF ObjectStep

LEMMA InitCount == Init => CountInv
  <1> SUFFICES ASSUME Init PROVE CountInv
    OBVIOUS
  <1>1. PrivateInv
    BY InitPrivate
  <1>2. CountCoversUsers /\ NoConcurrentConnect
    BY DEF Init, CountCoversUsers, NoConcurrentConnect
  <1>3. ASSUME NEW o \in Objects PROVE CountSafe(o)
    BY NullAssumption DEF Init, CountSafe
  <1>4. QED
    BY <1>1, <1>2, <1>3 DEF CountInv

LEMMA NextCount ==
    ASSUME FALSE \notin ReconstructModes, ~ConnectMayFail, CountInv, [Next]_vars
    PROVE  CountInv'
  <1>1. PrivateInv /\ PrivateInv'
    BY NextPrivate DEF CountInv
  <1>2. CASE \E o \in Objects : ObjectStep(o)
    <2> PICK o \in Objects : ObjectStep(o)
      BY <1>2
    <2>1. OwnBlockOnly(o)
      BY <1>1, ObjectFrame DEF PrivateInv, SafeInv
    <2>2. ASSUME NEW q \in Objects PROVE CountSafe(q)'
      BY OwnCountSafe, OthersCountSafe
    <2>3. Effect(o)
      BY ConstructEffect, CallEffect DEF ObjectStep
    <2>4. CountCoversUsers'
      BY <2>1, <2>3, EffectCovers
    <2>5. ASSUME pc'[o] = "connect", NEW q \in Objects, q # o, pc'[q] = "connect"
          PROVE  as_ref_p'[q] # as_ref_p'[o]
      <3>1. pc[o] = "check" /\ FirstUser(o) /\ as_ref_p' = as_ref_p
        BY <1>1, <2>5, ConnectStep DEF PrivateInv, SafeInv
      <3>2. pc[q] = "connect"
        BY <2>1, <2>5 DEF OwnBlockOnly, SameObject
      <3>3. QED
        BY <3>1, <3>2, FirstUserAlone
    <2>6. ASSUME NEW p \in Objects, NEW q \in Objects, p # q, p # o, q # o,
                 pc'[p] = "connect", pc'[q] = "connect"
          PROVE  as_ref_p'[p] # as_ref_p'[q]
      BY <2>1, <2>6 DEF OwnBlockOnly, SameObject, CountInv, NoConcurrentConnect
    <2>7. NoConcurrentConnect'
      BY <2>5, <2>6 DEF NoConcurrentConnect
    <2>8. QED
      BY <1>1, <2>2, <2>4, <2>7 DEF CountInv
  <1>3. CASE ShutdownStep
    <2>1. /\ \A q \in Objects : as_ref_p[q] = Null /\ pc[q] = "idle"
          /\ UNCHANGED <<as_ref_p, is_connected, pc, ref_php_object>>
          /\ live' \subseteq live
      BY <1>1, <1>3 DEF ShutdownStep, ShutdownStart, ShutdownVisit, ShutdownEnd, Release,
         PrivateInv, SafeInv, TypeInv, ControlInv, StepOK
    <2>2. ASSUME NEW r \in live' PROVE Cardinality(Users(r)') <= ref_php_object'[r]
      <3>1. Users(r)' \subseteq Users(r)
        BY <2>1 DEF Users, Counted
      <3>2. QED
        BY <2>1, <3>1, FewerUsers
    <2>3. CountCoversUsers'
      BY <2>2 DEF CountCoversUsers, Users
    <2>4. writer' \in {writer, Shutdown}
      BY <1>3 DEF ShutdownStep, ShutdownStart, ShutdownVisit, ShutdownEnd
    <2>5. ASSUME NEW q \in Objects PROVE CountSafe(q)'
      BY <2>1, <2>4, NullAssumption DEF CountInv, CountSafe
    <2>6. NoConcurrentConnect'
      BY <2>1 DEF NoConcurrentConnect
    <2>7. QED
      BY <1>1, <2>3, <2>5, <2>6 DEF CountInv
  <1>4. CASE UNCHANGED vars
    <2>1. ASSUME NEW r \in live' PROVE Cardinality(Users(r)') <= ref_php_object'[r]
      <3>1. Users(r)' \subseteq Users(r)
        BY <1>4 DEF Users, Counted, vars
      <3>2. QED
        BY <1>4, <3>1, FewerUsers DEF vars
    <2>2. CountCoversUsers'
      BY <2>1 DEF CountCoversUsers, Users
    <2>3. QED
      BY <1>1, <1>4, <2>2 DEF vars, CountInv, CountSafe, NoConcurrentConnect
  <1>5. QED
    BY <1>2, <1>3, <1>4 DEF Next, Ended, ObjectStep

\* When connecting does not fail, no interleaving of the locked load/store pairs,
\* the unlocked test and the private writes loses a reference: ref_php_object is
\* never below the number of objects that use the handle.
THEOREM CountNeverBelowUsers ==
    ASSUME FALSE \notin ReconstructModes, ~ConnectMayFail
    PROVE  Spec => []CountCoversUsers
  <1>1. Init => CountInv
    BY InitCount
  <1>2. CountInv /\ [Next]_vars => CountInv'
    BY NextCount
  <1>3. CountInv => CountCoversUsers
    BY DEF CountInv
  <1>4. QED
    BY <1>1, <1>2, <1>3, PTL DEF Spec

\* The unlocked test of ref_php_object in __construct never lets two objects
\* into aerospike_connect on one handle.
THEOREM ConnectsAreExclusive ==
    ASSUME FALSE \notin ReconstructModes, ~ConnectMayFail
    PROVE  Spec => []NoConcurrentConnect
  <1>1. Init => CountInv
    BY InitCount
  <1>2. CountInv /\ [Next]_vars => CountInv'
    BY NextCount
  <1>3. CountInv => NoConcurrentConnect
    BY DEF CountInv
  <1>4. QED
    BY <1>1, <1>2, <1>3, PTL DEF Spec

-----------------------------------------------------------------------------
(* ImplementsOwnership *)

\* A persistent object's block is in the table, a block outside the table has an
\* object, and a block that is not allocated has no cluster.
OwnedObject(o) ==
    (as_ref_p[o] # Null /\ is_persistent[o]) => ref_host_entry[as_ref_p[o]] > 0

OwnedBlock(r) ==
    /\ (r \in live /\ ref_host_entry[r] = 0) => \E o \in Objects : as_ref_p[o] = r
    /\ r \notin live => ~cluster[r]

OwnInv ==
    /\ SafeInv
    /\ \A o \in Objects : OwnedObject(o)
    /\ \A r \in Refs : OwnedBlock(r)

\* While the module is up the counters of allocated blocks only grow.
LEMMA HostEntriesGrow ==
    ASSUME TypeInv, NEW o \in Objects, ObjectStep(o), NEW r \in live
    PROVE  ref_host_entry'[r] >= ref_host_entry[r]
  <1>1. ref_host_entry \in [Refs -> Nat] /\ live \subseteq Refs
    BY DEF TypeInv, TypeOK
  <1>2. CASE \E s \in Refs : CreateHostEntry(o, s)
    BY <1>1, <1>2 DEF CreateHostEntry
  <1>3. CASE AddHostEntry(o)
    BY <1>1, <1>3 DEF AddHostEntry, CountHostEntry
  <1>4. CASE UNCHANGED ref_host_entry
    BY <1>1, <1>4
  <1>5. QED
    BY <1>2, <1>3, <1>4 DEF ObjectStep, ConstructStep, Construct, ConstructBadConfig,
       ConstructAgain, ScanLock, ScanHit, ScanMiss, MatchStore, CreateFails, Publish,
       CheckFirst, CheckShared, ConnectOK, ConnectFails, UndoLoad, UndoStore,
       LockAndLoad, CloseStep, CloseRefused, ClosePrivate, ClosePersistent, CloseStore,
       ReconnectStep, ReconnectRefused, ReconnectPrivate, ReconnectPersistent,
       ReconnectStore, SweepStep, SweepConnected, SweepStore, SweepDisconnected

\* The steps that change a pointer or what is allocated.
Moves(o) ==
    \/ ScanHit(o) \/ (\E r \in Refs : CreateHostEntry(o, r))
    \/ SweepStore(o) \/ SweepDisconnected(o)

\* The steps that only set or reset the cluster of the object's own block.
Switches(o) == ConnectOK(o) \/ ClosePrivate(o) \/ ReconnectPrivate(o)

LEMMA OtherSteps ==
    ASSUME NEW o \in Objects, ObjectStep(o), ~Moves(o), ~Switches(o)
    PROVE  UNCHANGED <<live, cluster, as_ref_p>>
  BY DEF Moves, Switches, ObjectStep, ConstructStep, Construct, ConstructBadConfig,
     ConstructAgain, ScanLock, ScanMiss, MatchStore, CreateFails, Publish, AddHostEntry,
     CheckFirst, CheckShared, ConnectFails, UndoLoad, UndoStore, LockAndLoad, CloseStep,
     CloseRefused, ClosePersistent, CloseStore, ReconnectStep, ReconnectRefused,
     ReconnectPersistent, ReconnectStore, SweepStep, SweepConnected

\* Without a second __construct an object with a block keeps its persistence.
LEMMA PersistenceStays ==
    ASSUME TypeInv, ReconstructModes = {}, NEW o \in Objects, ObjectStep(o),
           as_ref_p[o] # Null, as_ref_p'[o] # Null
    PROVE  is_persistent'[o] = is_persistent[o]
  <1> USE DEF TypeInv, TypeOK, ControlInv, StepOK
  <1>1. CASE SweepStore(o) \/ SweepDisconnected(o)
    BY <1>1 DEF SweepStore, SweepDisconnected, Gone
  <1>2. CASE ~SweepStore(o) /\ ~SweepDisconnected(o)
    BY <1>2 DEF ObjectStep, ConstructStep, Construct, ConstructBadConfig,
       ConstructAgain, ScanLock, ScanHit, ScanMiss, MatchStore, CreateHostEntry,
       CreateFails, Publish, AddHostEntry, CheckFirst, CheckShared, ConnectOK,
       ConnectFails, UndoLoad, UndoStore, LockAndLoad, CloseStep, CloseRefused,
       ClosePrivate, ClosePersistent, CloseStore, ReconnectStep, ReconnectRefused,
       ReconnectPrivate, ReconnectPersistent, ReconnectStore, SweepStep, SweepConnected
  <1>3. QED
    BY <1>1, <1>2

\* What the four moving steps do.
LEMMA MoveCases ==
    ASSUME OwnInv, NEW o \in Objects, Moves(o)
    PROVE  \/ /\ as_ref_p[o] = Null /\ as_ref_p'[o] \in live
              /\ ref_host_entry[as_ref_p'[o]] > 0
              /\ UNCHANGED <<live, cluster, ref_host_entry>>
           \/ /\ as_ref_p[o] = Null /\ as_ref_p'[o] \in Refs \ live
              /\ live' = live \cup {as_ref_p'[o]}
              /\ cluster' = cluster
              /\ ref_host_entry'[as_ref_p'[o]] = IF is_persistent'[o] THEN 1 ELSE 0
           \/ /\ as_ref_p[o] \in live /\ as_ref_p'[o] = Null
              /\ ref_host_entry[as_ref_p[o]] > 0
              /\ UNCHANGED <<live, cluster, ref_host_entry>>
           \/ /\ as_ref_p[o] \in live /\ as_ref_p'[o] = Null
              /\ ref_host_entry[as_ref_p[o]] = 0
              /\ live' = live \ {as_ref_p[o]}
              /\ cluster' = [cluster EXCEPT ![as_ref_p[o]] = FALSE]
              /\ UNCHANGED ref_host_entry
  <1> USE DEF TypeOK
  <1>1. TypeOK /\ SafeInv /\ StepOK(o) /\ ObjectSafe(o) /\ OwnedObject(o)
    BY DEF OwnInv, SafeInv, TypeInv, ControlInv
  <1>2. CASE ScanHit(o)
    <2> DEFINE r == persistent_list[Alias(o)]
    <2>1. /\ r \in Refs /\ Alias(o) \in Aliases /\ module = "up" /\ as_ref_p[o] = Null
          /\ as_ref_p'[o] = r /\ UNCHANGED <<live, cluster, ref_host_entry>>
      BY <1>1, <1>2, ConfigType DEF ScanHit, Alias, StepOK
    <2>2. Entries(r) # {}
      BY <2>1 DEF Entries
    <2>3. r \in live /\ ref_host_entry[r] > 0
      BY <1>1, <2>1, <2>2, EntryCounted DEF SafeInv, TableSafe
    <2>4. QED
      BY <2>1, <2>3
  <1>3. ASSUME NEW r \in Refs, CreateHostEntry(o, r)
        PROVE  /\ as_ref_p[o] = Null /\ as_ref_p'[o] \in Refs \ live
               /\ live' = live \cup {as_ref_p'[o]}
               /\ cluster' = cluster
               /\ ref_host_entry'[as_ref_p'[o]] = IF is_persistent'[o] THEN 1 ELSE 0
    <2>1. as_ref_p[o] = Null /\ as_ref_p'[o] = r /\ r \in Refs \ live /\ live' = live \cup {r}
      BY <1>1, <1>3 DEF CreateHostEntry, StepOK
    <2>2. ~cluster[r]
      BY <2>1 DEF OwnInv, OwnedBlock
    <2>3. cluster' = cluster
      BY <1>1, <1>3, <2>2 DEF CreateHostEntry
    <2>4. ref_host_entry'[r] = IF is_persistent'[o] THEN 1 ELSE 0
      BY <1>1, <1>3 DEF CreateHostEntry, NewHostEntries
    <2>5. QED
      BY <2>1, <2>3, <2>4
  <1>4. CASE SweepStore(o) \/ SweepDisconnected(o)
    <2>1. /\ as_ref_p[o] \in live /\ as_ref_p'[o] = Null /\ SweepHandle(o)
          /\ as_ref_p[o] # Null /\ UNCHANGED ref_host_entry
      BY <1>1, <1>4, NullAssumption DEF SweepStore, SweepDisconnected, Gone, ObjectSafe,
         StepOK, Attached
    <2>2. CASE is_persistent[o]
      BY <1>1, <2>1, <2>2 DEF SweepHandle, OwnedObject
    <2>3. CASE ~is_persistent[o]
      BY <1>1, <2>1, <2>3 DEF SweepHandle, Release, ObjectSafe
    <2>4. QED
      BY <2>2, <2>3
  <1>5. QED
    BY <1>2, <1>3, <1>4 DEF Moves

LEMMA ObjectOwned ==
    ASSUME OwnInv, SafeInv', ReconstructModes = {}, NEW o \in Objects, ObjectStep(o)
    PROVE  OwnInv'
  <1>1. /\ TypeInv /\ OwnBlockOnly(o) /\ live \subseteq Refs
        /\ ref_host_entry \in [Refs -> Nat] /\ ref_host_entry' \in [Refs -> Nat]
        /\ cluster \in [Refs -> BOOLEAN]
        /\ as_ref_p \in [Objects -> Refs \cup {Null}]
    BY ObjectFrame DEF OwnInv, SafeInv, TypeInv, TypeOK
  <1>2. ASSUME NEW r \in live PROVE ref_host_entry'[r] >= ref_host_entry[r]
    BY <1>1, HostEntriesGrow
  <1>3. ASSUME NEW q \in Objects PROVE OwnedObject(q)'
    <2>1. SUFFICES ASSUME as_ref_p'[q] # Null, is_persistent'[q]
                   PROVE  ref_host_entry'[as_ref_p'[q]] > 0
      BY DEF OwnedObject
    <2>2. CASE as_ref_p'[q] = as_ref_p[q] /\ is_persistent'[q] = is_persistent[q]
      <3>1. as_ref_p[q] \in live /\ ref_host_entry[as_ref_p[q]] > 0
        BY <2>1, <2>2 DEF OwnInv, SafeInv, ObjectSafe, OwnedObject
      <3>2. QED
        BY <1>1, <1>2, <2>2, <3>1
    <2>3. CASE q = o /\ as_ref_p'[o] # as_ref_p[o]
      <3>1. Moves(o)
        BY <2>3, OtherSteps DEF Switches, ConnectOK, ClosePrivate, ReconnectPrivate
      <3>2. QED
        BY <1>1, <2>1, <2>3, <3>1, MoveCases
    <2>4. CASE q = o /\ as_ref_p'[o] = as_ref_p[o] /\ is_persistent'[o] # is_persistent[o]
      BY <1>1, <2>1, <2>4, PersistenceStays
    <2>5. QED
      BY <1>1, <2>2, <2>3, <2>4 DEF OwnBlockOnly, SameObject
  <1>4. ASSUME NEW r \in Refs PROVE OwnedBlock(r)'
    <2>1. OwnedBlock(r)
      BY DEF OwnInv
    <2>2. CASE Moves(o)
      <3>1. ASSUME r \in live', ref_host_entry'[r] = 0
            PROVE  \E q \in Objects : as_ref_p'[q] = r
        <4>1. CASE r \in live
          <5>1. ref_host_entry[r] = 0
            BY <1>1, <1>2, <3>1, <4>1
          <5>2. PICK q \in Objects : as_ref_p[q] = r
            BY <2>1, <4>1, <5>1 DEF OwnedBlock
          <5>3. q # o
            BY <2>2, <3>1, <4>1, <5>1, <5>2, NullAssumption, MoveCases
          <5>4. QED
            BY <1>1, <5>2, <5>3 DEF OwnBlockOnly, SameObject
        <4>2. CASE r \notin live
          <5>1. as_ref_p'[o] = r
            BY <2>2, <3>1, <4>2, MoveCases
          <5>2. QED
            BY <5>1
        <4>3. QED
          BY <4>1, <4>2
      <3>2. ASSUME r \notin live' PROVE ~cluster'[r]
        BY <1>1, <2>1, <2>2, <3>2, MoveCases DEF OwnedBlock
      <3>3. QED
        BY <3>1, <3>2 DEF OwnedBlock
    <2>3. CASE ~Moves(o)
      <3>1. UNCHANGED <<live, as_ref_p>>
        BY <2>3, OtherSteps DEF Switches, ConnectOK, ClosePrivate, ReconnectPrivate
      <3>2. ASSUME r \notin live PROVE ~cluster'[r]
        <4>1. CASE Switches(o)
          <5>1. as_ref_p[o] \in live
            BY <1>1, <4>1 DEF Switches, ConnectOK, ClosePrivate, ReconnectPrivate, OwnInv,
               SafeInv, ObjectSafe, TypeInv, ControlInv, StepOK, Attached
          <5>2. cluster'[r] = cluster[r]
            BY <1>1, <3>2, <4>1, <5>1 DEF Switches, ConnectOK, ClosePrivate, ReconnectPrivate
          <5>3. QED
            BY <2>1, <3>2, <5>2 DEF OwnedBlock
        <4>2. CASE ~Switches(o)
          BY <2>1, <2>3, <3>2, <4>2, OtherSteps DEF OwnedBlock
        <4>3. QED
          BY <4>1, <4>2
      <3>3. ASSUME r \in live, ref_host_entry'[r] = 0 PROVE ref_host_entry[r] = 0
        BY <1>1, <1>2, <3>3
      <3>4. QED
        BY <2>1, <3>1, <3>2, <3>3 DEF OwnedBlock
    <2>4. QED
      BY <2>2, <2>3
  <1>5. QED
    BY <1>3, <1>4 DEF OwnInv

\* moduleShutdown: no object has a block, and every entry it visits is in the table.
LEMMA VisitCases ==
    ASSUME OwnInv, NEW a \in Aliases, ShutdownVisit(a)
    PROVE  \/ UNCHANGED <<live, cluster, ref_host_entry>>
           \/ \E r \in live :
                 /\ ref_host_entry[r] > 1
                 /\ ref_host_entry' = [ref_host_entry EXCEPT ![r] = @ - 1]
                 /\ UNCHANGED <<live, cluster>>
           \/ \E r \in live :
                 /\ ref_host_entry[r] > 0
                 /\ ref_host_entry' = [ref_host_entry EXCEPT ![r] = 0]
                 /\ live' = live \ {r}
                 /\ cluster' = [cluster EXCEPT ![r] = FALSE]
  <1> DEFINE r == persistent_list[a]
  <1>1. SafeInv /\ TypeOK /\ a \in unvisited
    BY DEF OwnInv, SafeInv, TypeInv, ShutdownVisit
  <1>2. CASE r \notin Refs
    BY <1>2 DEF ShutdownVisit
  <1>3. CASE r \in Refs
    <2>1. Entries(r) # {}
      BY <1>1 DEF Entries
    <2>2. r \in live /\ ref_host_entry[r] > 0 /\ ref_host_entry[r] \in Nat
      BY <1>1, <1>3, <2>1, EntryCounted DEF SafeInv, TableSafe, TypeOK
    <2>3. CASE LastEntry(r)
      BY <1>3, <2>2, <2>3 DEF ShutdownVisit, Release
    <2>4. CASE ~LastEntry(r)
      BY <1>3, <2>2, <2>4 DEF ShutdownVisit, LastEntry
    <2>5. QED
      BY <2>3, <2>4
  <1>4. QED
    BY <1>2, <1>3

LEMMA ShutdownOwned ==
    ASSUME OwnInv, SafeInv', ShutdownStep
    PROVE  OwnInv'
  <1>1. /\ \A o \in Objects : as_ref_p[o] = Null
        /\ UNCHANGED as_ref_p
        /\ live \subseteq Refs /\ ref_host_entry \in [Refs -> Nat]
        /\ cluster \in [Refs -> BOOLEAN]
    BY DEF ShutdownStep, ShutdownStart, ShutdownVisit, ShutdownEnd, OwnInv, SafeInv,
       TypeInv, ControlInv, StepOK, TypeOK
  <1>2. \A r \in live : ref_host_entry[r] > 0
    BY <1>1, NullAssumption DEF OwnInv, OwnedBlock
  <1>3. /\ \A r \in live' : ref_host_entry'[r] > 0
        /\ \A r \in Refs : r \notin live' => ~cluster'[r]
    <2>0. \A r \in Refs : r \notin live => ~cluster[r]
      BY DEF OwnInv, OwnedBlock
    <2>1. CASE \E a \in Aliases : ShutdownVisit(a)
      <3>1. PICK a \in Aliases : ShutdownVisit(a)
        BY <2>1
      <3>2. CASE UNCHANGED <<live, cluster, ref_host_entry>>
        BY <1>2, <2>0, <3>2
      <3>3. CASE \E r \in live :
                   /\ ref_host_entry[r] > 1
                   /\ ref_host_entry' = [ref_host_entry EXCEPT ![r] = @ - 1]
                   /\ UNCHANGED <<live, cluster>>
        BY <1>1, <1>2, <2>0, <3>3
      <3>4. CASE \E r \in live :
                   /\ ref_host_entry[r] > 0
                   /\ ref_host_entry' = [ref_host_entry EXCEPT ![r] = 0]
                   /\ live' = live \ {r}
                   /\ cluster' = [cluster EXCEPT ![r] = FALSE]
        BY <1>1, <1>2, <2>0, <3>4
      <3>5. QED
        BY <3>1, <3>2, <3>3, <3>4, VisitCases
    <2>2. CASE ShutdownStart \/ ShutdownEnd
      BY <1>2, <2>0, <2>2 DEF ShutdownStart, ShutdownEnd
    <2>3. QED
      BY <2>1, <2>2 DEF ShutdownStep
  <1>4. QED
    BY <1>1, <1>3 DEF OwnInv, OwnedObject, OwnedBlock

LEMMA InitOwned == Init => OwnInv
  BY InitSafe DEF Init, OwnInv, OwnedObject, OwnedBlock

LEMMA NextOwned ==
    ASSUME ReconstructModes = {}, OwnInv, [Next]_vars
    PROVE  OwnInv'
  <1>1. SafeInv /\ SafeInv'
    BY NextSafe DEF OwnInv
  <1>2. CASE UNCHANGED vars
    BY <1>1, <1>2 DEF vars, OwnInv, OwnedObject, OwnedBlock
  <1>3. QED
    BY <1>1, <1>2, ObjectOwned, ShutdownOwned DEF Next, Ended, ObjectStep

\* The mapped owner of a block, by what the block is.
LEMMA OwnerOfFree ==
    ASSUME NEW r, r \notin live
    PROVE  Owner(r) = "free"
  BY DEF Owner, FreeHandle

LEMMA OwnerOfShared ==
    ASSUME NEW r \in live, ref_host_entry[r] > 0
    PROVE  Owner(r) = "shared"
  BY DEF Owner, SharedHandle

LEMMA OwnerOfPrivate ==
    ASSUME OwnInv, NEW r \in live, ref_host_entry[r] = 0,
           NEW o \in Objects, as_ref_p[o] = r
    PROVE  Owner(r) = o
  <1>1. ASSUME NEW q \in Objects, as_ref_p[q] = r PROVE q = o
    <2>1. r # Null
      BY NullAssumption DEF OwnInv, SafeInv, TypeInv, TypeOK
    <2>2. QED
      BY <1>1, <2>1 DEF OwnInv, SafeInv, PairSafe
  <1>2. Owner(r) = CHOOSE q \in Objects : as_ref_p[q] = r
    BY DEF Owner
  <1>3. QED
    BY <1>1, <1>2

\* An allocated block that is in the table before and after, or has the same
\* object before and after, keeps its owner.
LEMMA OwnerStays ==
    ASSUME OwnInv, OwnInv', NEW r \in live, r \in live',
           ref_host_entry[r] > 0 <=> ref_host_entry'[r] > 0,
           ref_host_entry[r] \in Nat, ref_host_entry'[r] \in Nat,
           \A o \in Objects : as_ref_p[o] = r /\ ref_host_entry[r] = 0 => as_ref_p'[o] = r
    PROVE  Owner(r)' = Owner(r)
  <1>1. CASE ref_host_entry[r] > 0
    BY <1>1 DEF Owner, SharedHandle
  <1>2. CASE ref_host_entry[r] = 0
    <2>1. PICK o \in Objects : as_ref_p[o] = r
      BY <1>2 DEF OwnInv, OwnedBlock, SafeInv, TypeInv, TypeOK
    <2>2. Owner(r) = o
      BY <1>2, <2>1, OwnerOfPrivate
    <2>3. as_ref_p'[o] = r /\ ref_host_entry'[r] = 0
      BY <1>2, <2>1
    <2>4. ASSUME NEW q \in Objects, as_ref_p'[q] = r PROVE q = o
      <3>1. r # Null
        BY NullAssumption DEF OwnInv, SafeInv, TypeInv, TypeOK
      <3>2. QED
        BY <2>3, <2>4, <3>1 DEF OwnInv, SafeInv, PairSafe
    <2>5. Owner(r)' = CHOOSE q \in Objects : as_ref_p'[q] = r
      BY <2>3 DEF Owner
    <2>6. QED
      BY <2>2, <2>3, <2>4, <2>5
  <1>3. QED
    BY <1>1, <1>2

\* The step of the abstract specification, or a stutter.
OwnershipStep == [Handles!Next]_(Handles!avars)

owners == [r \in Refs |-> Owner(r)]

\* A step of o leaves the owner of every block alone except that of the blocks it
\* points to before or after.
LEMMA OtherOwnersStay ==
    ASSUME OwnInv, OwnInv', NEW o \in Objects, OwnBlockOnly(o), live' \subseteq live \cup {as_ref_p'[o]},
           NEW r \in Refs, r # as_ref_p[o], r # as_ref_p'[o]
    PROVE  Owner(r)' = Owner(r)
  <1>1. CASE r \in live
    <2>1. SameBlock(r)
      BY <1>1 DEF OwnBlockOnly
    <2>2. ref_host_entry[r] \in Nat
      BY DEF OwnInv, SafeInv, TypeInv, TypeOK
    <2>3. ASSUME NEW q \in Objects, as_ref_p[q] = r PROVE as_ref_p'[q] = r
      BY <2>3 DEF OwnBlockOnly, SameObject
    <2>4. QED
      BY <1>1, <2>1, <2>2, <2>3, OwnerStays DEF SameBlock
  <1>2. CASE r \notin live
    BY <1>2 DEF Owner
  <1>3. QED
    BY <1>1, <1>2

\* No step of an object moves an allocated block into the table or out of it.
LEMMA SharedStays ==
    ASSUME SafeInv, NEW o \in Objects, ObjectStep(o), NEW r \in live
    PROVE  ref_host_entry[r] > 0 <=> ref_host_entry'[r] > 0
  <1>1. /\ ref_host_entry \in [Refs -> Nat] /\ live \subseteq Refs /\ TypeInv
        /\ pc[o] = "hosts" => ref_host_entry[as_ref_p[o]] > 0
    BY DEF SafeInv, ObjectSafe, TypeInv, TypeOK
  <1>2. CASE \E s \in Refs : CreateHostEntry(o, s)
    BY <1>1, <1>2 DEF CreateHostEntry
  <1>3. CASE AddHostEntry(o)
    BY <1>1, <1>3 DEF AddHostEntry, CountHostEntry
  <1>4. CASE UNCHANGED ref_host_entry
    BY <1>4
  <1>5. QED
    BY <1>2, <1>3, <1>4 DEF ObjectStep, ConstructStep, Construct, ConstructBadConfig,
       ConstructAgain, ScanLock, ScanHit, ScanMiss, MatchStore, CreateFails, Publish,
       CheckFirst, CheckShared, ConnectOK, ConnectFails, UndoLoad, UndoStore,
       LockAndLoad, CloseStep, CloseRefused, ClosePrivate, ClosePersistent, CloseStore,
       ReconnectStep, ReconnectRefused, ReconnectPrivate, ReconnectPersistent,
       ReconnectStore, SweepStep, SweepConnected, SweepStore, SweepDisconnected

LEMMA OwnersStay ==
    ASSUME OwnInv, OwnInv', NEW o \in Objects, ObjectStep(o), UNCHANGED <<live, as_ref_p>>
    PROVE  owners' = owners
  <1>1. ASSUME NEW r \in Refs PROVE Owner(r)' = Owner(r)
    <2>1. CASE r \in live
      <3>1. ref_host_entry[r] \in Nat /\ ref_host_entry'[r] \in Nat
        BY DEF OwnInv, SafeInv, TypeInv, TypeOK
      <3>2. ref_host_entry[r] > 0 <=> ref_host_entry'[r] > 0
        BY <2>1, SharedStays DEF OwnInv
      <3>3. QED
        BY <2>1, <3>1, <3>2, OwnerStays
    <2>2. CASE r \notin live
      BY <2>2 DEF Owner
    <2>3. QED
      BY <2>1, <2>2
  <1>2. QED
    BY <1>1 DEF owners

\* Only a running module executes calls.
LEMMA RunsWhileUp ==
    ASSUME TypeInv, NEW o \in Objects, ObjectStep(o)
    PROVE  module = "up" /\ module' = "up"
  <1>1. UNCHANGED main
    BY ObjectFrame DEF OwnBlockOnly
  <1>2. pc[o] # "idle" => module = "up"
    BY DEF TypeInv, ControlInv, StepOK
  <1>3. module = "up"
    BY <1>2 DEF ObjectStep, ConstructStep, Construct, ConstructBadConfig,
       ConstructAgain, ScanLock, ScanHit, ScanMiss, MatchStore, CreateHostEntry,
       CreateFails, Publish, AddHostEntry, CheckFirst, CheckShared, ConnectOK,
       ConnectFails, UndoLoad, UndoStore, LockAndLoad, CloseStep, CloseRefused,
       ClosePrivate, ClosePersistent, CloseStore, ReconnectStep, ReconnectRefused,
       ReconnectPrivate, ReconnectPersistent, ReconnectStore, SweepStep,
       SweepConnected, SweepStore, SweepDisconnected, CanCall
  <1>4. QED
    BY <1>1, <1>3

\* ScanHit and the sweep of a persistent object move nothing; create_new_host_entry
\* allocates; the sweep of a non-persistent object discards.
LEMMA MoveSimulates ==
    ASSUME OwnInv, OwnInv', NEW o \in Objects, ObjectStep(o), Moves(o)
    PROVE  OwnershipStep
  <1>1. /\ module = "up" /\ module' = "up" /\ OwnBlockOnly(o)
        /\ as_ref_p \in [Objects -> Refs \cup {Null}] /\ live \subseteq Refs
        /\ cluster \in [Refs -> BOOLEAN] /\ cluster' \in [Refs -> BOOLEAN]
        /\ ref_host_entry \in [Refs -> Nat] /\ ref_host_entry' \in [Refs -> Nat]
    BY RunsWhileUp, ObjectFrame DEF OwnInv, SafeInv, TypeInv, TypeOK
  <1>2. ASSUME UNCHANGED <<live, cluster, ref_host_entry>>,
               \A r \in live : ref_host_entry[r] = 0 => as_ref_p[o] # r
        PROVE  OwnershipStep
    <2>1. ASSUME NEW r \in Refs PROVE Owner(r)' = Owner(r)
      <3>1. CASE r \in live
        <4>1. ASSUME NEW q \in Objects, as_ref_p[q] = r, ref_host_entry[r] = 0
              PROVE  as_ref_p'[q] = r
          BY <1>1, <1>2, <3>1, <4>1 DEF OwnBlockOnly, SameObject
        <4>2. QED
          BY <1>1, <1>2, <3>1, <4>1, OwnerStays
      <3>2. CASE r \notin live
        BY <1>2, <3>2 DEF Owner
      <3>3. QED
        BY <3>1, <3>2
    <2>2. owners' = owners
      BY <2>1 DEF owners
    <2>3. QED
      BY <1>1, <1>2, <2>2 DEF OwnershipStep, owners, Handles!avars
  <1>3. ASSUME as_ref_p[o] = Null, as_ref_p'[o] \in Refs \ live,
               live' = live \cup {as_ref_p'[o]}, cluster' = cluster,
               ref_host_entry'[as_ref_p'[o]] = IF is_persistent'[o] THEN 1 ELSE 0
        PROVE  OwnershipStep
    <2>a. PICK h \in Refs : h = as_ref_p'[o]
      BY <1>3
    <2>b. PICK who \in Objects \cup {"shared"} :
             who = IF is_persistent'[o] THEN "shared" ELSE o
      OBVIOUS
    <2>1. h \in Refs /\ Owner(h) = "free"
      BY <1>3, <2>a, OwnerOfFree
    <2>2. Owner(h)' = who
      <3>1. CASE is_persistent'[o]
        BY <1>3, <2>a, <2>b, <3>1 DEF Owner, SharedHandle
      <3>2. CASE ~is_persistent'[o]
        <4>1. ref_host_entry'[h] = 0 /\ h \in live'
          BY <1>3, <2>a, <3>2
        <4>2. ASSUME NEW q \in Objects, as_ref_p'[q] = h PROVE q = o
          BY <1>1, <1>3, <2>a, <4>2, NullAssumption DEF OwnInv, SafeInv, ObjectSafe, OwnBlockOnly, SameObject
        <4>3. Owner(h)' = CHOOSE q \in Objects : as_ref_p'[q] = h
          BY <4>1 DEF Owner
        <4>4. QED
          BY <2>a, <2>b, <3>2, <4>2, <4>3
      <3>3. QED
        BY <3>1, <3>2
    <2>3. ASSUME NEW r \in Refs, r # h PROVE Owner(r)' = Owner(r)
      BY <1>1, <1>3, <2>a, <2>3, OtherOwnersStay, NullAssumption
    <2>4. owners' = [owners EXCEPT ![h] = who]
      BY <2>1, <2>2, <2>3 DEF owners
    <2>5. owners[h] = "free"
      BY <2>1 DEF owners
    <2>6. Handles!Allocate(h, who)
      BY <1>1, <1>3, <2>4, <2>5 DEF Handles!Allocate, owners, FreeHandle
    <2>7. QED
      BY <2>1, <2>5, <2>6 DEF OwnershipStep, Handles!Next, SharedHandle
  <1>4. ASSUME as_ref_p[o] \in live, as_ref_p'[o] = Null, ref_host_entry[as_ref_p[o]] = 0,
               live' = live \ {as_ref_p[o]},
               cluster' = [cluster EXCEPT ![as_ref_p[o]] = FALSE]
        PROVE  OwnershipStep
    <2>a. PICK h \in Refs : h = as_ref_p[o]
      BY <1>1, <1>4
    <2>1. h \in Refs /\ Owner(h) = o
      BY <1>1, <1>4, <2>a, OwnerOfPrivate
    <2>2. Owner(h)' = "free"
      BY <1>4, <2>a DEF Owner, FreeHandle
    <2>3. ASSUME NEW r \in Refs, r # h PROVE Owner(r)' = Owner(r)
      BY <1>1, <1>4, <2>a, <2>3, OtherOwnersStay, NullAssumption
    <2>4. owners' = [owners EXCEPT ![h] = "free"]
      BY <2>1, <2>2, <2>3 DEF owners
    <2>5. owners[h] = o
      BY <2>1 DEF owners
    <2>6. Handles!Discard(h)
      BY <1>1, <1>4, <2>a, <2>4, <2>5 DEF Handles!Discard, owners, FreeHandle
    <2>7. QED
      BY <2>1, <2>6 DEF OwnershipStep, Handles!Next
  <1>5. QED
    <2>1. Null \notin live
      BY <1>1, NullAssumption
    <2>2. QED
      BY <1>1, <1>2, <1>3, <1>4, <2>1, MoveCases

\* connect and reconnect open the object's handle; close of a non-persistent
\* object closes its own.
LEMMA SwitchSimulates ==
    ASSUME OwnInv, OwnInv', NEW o \in Objects, ObjectStep(o), Switches(o)
    PROVE  OwnershipStep
  <1>1. /\ module = "up" /\ module' = "up" /\ cluster \in [Refs -> BOOLEAN]
        /\ UNCHANGED <<live, as_ref_p>>
    BY RunsWhileUp DEF OwnInv, SafeInv, TypeInv, TypeOK, Switches, ConnectOK,
       ClosePrivate, ReconnectPrivate
  <1>2. owners' = owners
    BY <1>1, OwnersStay
  <1>3. PICK h \in Refs : h = as_ref_p[o] /\ h \in live /\ h # Null
    BY NullAssumption DEF Switches, ConnectOK, ClosePrivate, ReconnectPrivate, OwnInv, SafeInv,
       ObjectSafe, TypeInv, TypeOK, ControlInv, StepOK, Attached
  <1>4. owners[h] = Owner(h)
    BY DEF owners
  <1>5. ref_host_entry[h] = 0 => Owner(h) = o
    BY <1>3, OwnerOfPrivate
  <1>6. ref_host_entry[h] > 0 => Owner(h) = "shared"
    BY <1>3, OwnerOfShared
  <1>7. CASE ConnectOK(o) \/ ReconnectPrivate(o)
    <2>1. ref_host_entry[h] \in Nat
      BY DEF OwnInv, SafeInv, TypeInv, TypeOK
    <2>2. owners[h] # "free"
      BY <1>4, <1>5, <1>6, <2>1, ObjectsAssumption
    <2>3. cluster' = [cluster EXCEPT ![h] = TRUE]
      BY <1>3, <1>7 DEF ConnectOK, ReconnectPrivate
    <2>4. Handles!Open(h)
      BY <1>1, <1>2, <2>2, <2>3 DEF Handles!Open, owners, FreeHandle
    <2>5. QED
      BY <2>4 DEF OwnershipStep, Handles!Next
  <1>8. CASE ClosePrivate(o)
    <2>1. ref_host_entry[h] = 0
      BY <1>3, <1>8, PrivateHandle DEF ClosePrivate, OwnsHandle, OwnInv
    <2>2. owners[h] = o
      BY <1>4, <1>5, <2>1
    <2>3. cluster' = [cluster EXCEPT ![h] = FALSE]
      BY <1>3, <1>8 DEF ClosePrivate
    <2>4. Handles!Close(h)
      BY <1>1, <1>2, <2>2, <2>3 DEF Handles!Close, owners
    <2>5. QED
      BY <2>4 DEF OwnershipStep, Handles!Next
  <1>9. QED
    BY <1>7, <1>8 DEF Switches

LEMMA ObjectSimulates ==
    ASSUME OwnInv, OwnInv', NEW o \in Objects, ObjectStep(o)
    PROVE  OwnershipStep
  <1>1. CASE ~Moves(o) /\ ~Switches(o)
    <2>1. UNCHANGED <<live, cluster, as_ref_p>> /\ module' = module
      BY <1>1, OtherSteps, RunsWhileUp DEF OwnInv, SafeInv
    <2>2. owners' = owners
      BY <2>1, OwnersStay
    <2>3. QED
      BY <2>1, <2>2 DEF OwnershipStep, Handles!avars, owners
  <1>2. QED
    BY <1>1, MoveSimulates, SwitchSimulates

\* When no object has a block, every allocated block is shared.
LEMMA AllShared ==
    ASSUME OwnInv, \A o \in Objects : as_ref_p[o] = Null, NEW r \in Refs
    PROVE  /\ r \in live => ref_host_entry[r] > 0
           /\ owners[r] = IF r \in live THEN "shared" ELSE "free"
  <1>1. r \in live => ref_host_entry[r] > 0
    BY NullAssumption DEF OwnInv, OwnedBlock, SafeInv, TypeInv, TypeOK
  <1>2. QED
    BY <1>1, OwnerOfShared, OwnerOfFree DEF owners

\* moduleShutdown stops the module and reclaims the shared handles.
LEMMA ShutdownSimulates ==
    ASSUME OwnInv, OwnInv', ShutdownStep
    PROVE  OwnershipStep
  <1>1. /\ \A o \in Objects : as_ref_p[o] = Null
        /\ UNCHANGED as_ref_p /\ live \subseteq Refs /\ module' # "up"
    BY DEF ShutdownStep, ShutdownStart, ShutdownVisit, ShutdownEnd, OwnInv, SafeInv,
       TypeInv, ControlInv, StepOK, TypeOK
  <1>2. ASSUME NEW r \in Refs PROVE owners[r] = IF r \in live THEN "shared" ELSE "free"
    BY <1>1, AllShared
  <1>3. ASSUME NEW r \in Refs PROVE owners'[r] = IF r \in live' THEN "shared" ELSE "free"
    <2>1. r \in live' => ref_host_entry'[r] > 0
      BY <1>1, NullAssumption DEF OwnInv, OwnedBlock, SafeInv, TypeInv, TypeOK
    <2>2. QED
      BY <2>1 DEF owners, Owner, SharedHandle, FreeHandle
  <1>4. ASSUME live' = live PROVE owners' = owners
    BY <1>2, <1>3, <1>4 DEF owners
  <1>5. CASE ShutdownStart
    <2>1. \A r \in Refs : owners[r] \notin Objects
      BY <1>2, ObjectsAssumption
    <2>2. owners' = owners /\ UNCHANGED cluster
      BY <1>4, <1>5 DEF ShutdownStart
    <2>3. Handles!Stop
      BY <1>1, <2>1, <2>2 DEF Handles!Stop, owners
    <2>4. QED
      BY <2>3 DEF OwnershipStep, Handles!Next
  <1>6. CASE \E a \in Aliases : ShutdownVisit(a)
    <2>0. module # "up"
      BY <1>6 DEF ShutdownVisit
    <2>1. CASE UNCHANGED <<live, cluster>>
      BY <1>1, <1>4, <2>0, <2>1 DEF OwnershipStep, Handles!avars, owners
    <2>2. CASE \E r \in live :
                 /\ ref_host_entry[r] > 0
                 /\ ref_host_entry' = [ref_host_entry EXCEPT ![r] = 0]
                 /\ live' = live \ {r}
                 /\ cluster' = [cluster EXCEPT ![r] = FALSE]
      <3>1. PICK h \in live : live' = live \ {h} /\ cluster' = [cluster EXCEPT ![h] = FALSE]
        BY <2>2
      <3>2. h \in Refs /\ owners[h] = "shared"
        BY <1>1, <1>2
      <3>3. owners' = [owners EXCEPT ![h] = "free"]
        BY <1>2, <1>3, <3>1 DEF owners
      <3>4. Handles!Reclaim(h)
        BY <1>1, <2>0, <3>1, <3>2, <3>3 DEF Handles!Reclaim, owners, FreeHandle, SharedHandle
      <3>5. QED
        BY <3>2, <3>4 DEF OwnershipStep, Handles!Next
    <2>3. QED
      BY <1>6, <2>1, <2>2, VisitCases
  <1>7. CASE ShutdownEnd
    BY <1>1, <1>4, <1>7 DEF ShutdownEnd, OwnershipStep, Handles!avars, owners
  <1>8. QED
    BY <1>5, <1>6, <1>7 DEF ShutdownStep

LEMMA StutterSimulates ==
    ASSUME UNCHANGED vars
    PROVE  OwnershipStep
  <1>1. owners' = owners
    BY DEF vars, owners, Owner
  <1>2. QED
    BY <1>1 DEF vars, OwnershipStep, Handles!avars, owners

\* The lifecycle of the extension, with its counters, its hash table and its
\* lock, implements the ownership discipline of HandleOwnership: every step of
\* every object and of moduleShutdown is a step of that specification or
\* changes nothing it can see.
THEOREM OwnershipImplemented ==
    ASSUME ReconstructModes = {}
    PROVE  Spec => ImplementsOwnership
  <1>1. Init => OwnInv
    BY InitOwned
  <1>2. OwnInv /\ [Next]_vars => OwnInv'
    BY NextOwned
  <1>3. Init => Handles!Init
    BY DEF Init, Handles!Init, Owner, FreeHandle
  <1>4. OwnInv /\ OwnInv' /\ [Next]_vars => OwnershipStep
    BY ObjectSimulates, ShutdownSimulates, StutterSimulates DEF Next, Ended, ObjectStep
  <1>5. QED
    BY <1>1, <1>2, <1>3, <1>4, PTL DEF Spec, ImplementsOwnership, Handles!Spec, OwnershipStep

-----------------------------------------------------------------------------
(* PhpObjectsExact and ConnectedMeansCluster, for requests that run one at a time *)

\* At most one call is in progress.
OneCall ==
    \A o, q \in Objects : (pc[o] # "idle" /\ pc[q] # "idle") => o = q

\* The object has created its block and not connected it yet.
Building(o) == pc[o] \in {"publish", "hosts", "check", "connect"} /\ ~is_connected[o]

\* Nobody adopts a block while it is being built, and an object that believes to
\* be connected has a cluster.
CallSafe(o) ==
    /\ Building(o) => \A q \in Objects : as_ref_p[q] = as_ref_p[o] => q = o
    /\ (is_connected[o] \/ pc[o] = "reconnect") => cluster[as_ref_p[o]]

\* ref_php_object is exact at every step, and a block of the table has a cluster
\* unless its creator is still building it.
BlockSafe(r) ==
    /\ ref_php_object[r] = Cardinality(Users(r))
    /\ ref_host_entry[r] > 0 =>
          cluster[r] \/ \E o \in Objects : as_ref_p[o] = r /\ Building(o)

SerialInv ==
    /\ CountInv
    /\ OneCall
    /\ \A o \in Objects : CallSafe(o)
    /\ \A r \in live : BlockSafe(r)

\* While one object takes a step the others are between calls.
LEMMA SoloStep ==
    ASSUME Serialized, OneCall, NEW o \in Objects, ObjectStep(o),
           NEW q \in Objects, q # o
    PROVE  pc[q] = "idle"
  <1>1. CASE pc[o] # "idle"
    BY <1>1 DEF OneCall
  <1>2. CASE pc[o] = "idle"
    BY <1>2 DEF ObjectStep, ConstructStep, Construct, ConstructBadConfig,
       ConstructAgain, ScanLock, ScanHit, ScanMiss, MatchStore, CreateHostEntry,
       CreateFails, Publish, AddHostEntry, CheckFirst, CheckShared, ConnectOK,
       ConnectFails, UndoLoad, UndoStore, LockAndLoad, CloseStep, CloseRefused,
       ClosePrivate, ClosePersistent, CloseStore, ReconnectStep, ReconnectRefused,
       ReconnectPrivate, ReconnectPersistent, ReconnectStore, SweepStep,
       SweepConnected, SweepStore, SweepDisconnected, CanCall
  <1>3. QED
    BY <1>1, <1>2

\* A constructor that has built its block finds itself the first user.
LEMMA BuilderIsFirst ==
    ASSUME SerialInv, NEW o \in Objects, pc[o] = "check", ~FirstUser(o)
    PROVE  is_connected[o]
  <1> SUFFICES ASSUME ~is_connected[o] PROVE FALSE
    OBVIOUS
  <1> DEFINE r == as_ref_p[o]
  <1>1. r \in live /\ ref_php_object[r] \in Int
    BY DEF SerialInv, CountInv, PrivateInv, SafeInv, ObjectSafe, TypeInv, TypeOK,
       ControlInv, StepOK, Attached
  <1>2. Users(r) \in SUBSET {o}
    BY DEF SerialInv, CallSafe, Building, Users
  <1>3. ref_php_object[r] <= 1
    BY <1>1, <1>2, AtMostOne DEF SerialInv, BlockSafe
  <1>4. QED
    BY <1>3 DEF FirstUser

LEMMA EffectExact ==
    ASSUME SerialInv, NEW o \in Objects, OwnBlockOnly(o), Effect(o), NEW r \in live'
    PROVE  ref_php_object'[r] = Cardinality(Users(r)')
  <1>2. /\ as_ref_p \in [Objects -> Refs \cup {Null}] /\ live \subseteq Refs
        /\ ref_php_object \in [Refs -> Int]
    BY DEF SerialInv, CountInv, PrivateInv, SafeInv, TypeInv, TypeOK
  <1>3. ASSUME NEW q \in Objects, q # o
        PROVE  q \in Users(r)' <=> q \in Users(r)
    BY <1>3 DEF OwnBlockOnly, SameObject, Users, Counted
  <1>a. ASSUME r \in live, Users(r)' = Users(r), ref_php_object'[r] = ref_php_object[r]
        PROVE  ref_php_object'[r] = Cardinality(Users(r)')
    BY <1>a DEF SerialInv, BlockSafe
  <1>4. CASE Keeps(o)
    <2>1. Counted(o) => Counted(o)'
      BY <1>4, BuilderIsFirst DEF Keeps, CheckShared, Counted, Return, SerialInv, CountInv,
         PrivateInv, SafeInv, TypeInv, TypeOK
    <2>2. o \in Users(r)' <=> o \in Users(r)
      BY <1>4, <2>1 DEF Keeps, Users
    <2>3. Users(r)' = Users(r)
      BY <1>3, <2>2 DEF Users
    <2>4. QED
      BY <1>4, <1>a, <2>3 DEF Keeps
  <1>5. CASE Enters(o)
    <2>0. r \in live
      BY <1>5 DEF Enters
    <2>1. CASE r = as_ref_p[o]
      <3>1. o \notin Users(r) /\ o \in Users(r)'
        BY <1>5, <2>1 DEF Enters, Users
      <3>2. Users(r)' = Users(r) \cup {o}
        BY <1>3, <3>1 DEF Users
      <3>3. Cardinality(Users(r) \cup {o}) = Cardinality(Users(r)) + 1
        BY <3>1, UsersFinite, FS_AddElement
      <3>4. ref_php_object'[r] = ref_php_object[r] + 1
        BY <1>2, <1>5, <2>0, <2>1 DEF Enters
      <3>5. QED
        BY <2>0, <3>2, <3>3, <3>4 DEF SerialInv, BlockSafe
    <2>2. CASE r # as_ref_p[o]
      <3>1. Users(r)' = Users(r)
        BY <1>3, <1>5, <2>2 DEF Enters, Users
      <3>2. QED
        BY <1>a, <2>0, <2>2, <3>1 DEF OwnBlockOnly, SameBlock
    <2>3. QED
      BY <2>1, <2>2
  <1>6. CASE Leaves(o)
    <2>0. r \in live /\ o \notin Users(r)'
      BY <1>6 DEF Leaves, Users
    <2>1. CASE r = as_ref_p[o]
      <3>1. o \in Users(r)
        BY <1>6, <2>1 DEF Leaves, Users
      <3>2. Users(r)' = Users(r) \ {o}
        BY <1>3, <2>0 DEF Users
      <3>3. Cardinality(Users(r) \ {o}) = Cardinality(Users(r)) - 1
        BY <3>1, UsersFinite, FS_RemoveElement
      <3>4. ref_php_object'[r] = ref_php_object[r] - 1
        BY <1>2, <1>6, <2>0, <2>1 DEF Leaves
      <3>5. QED
        BY <2>0, <3>2, <3>3, <3>4 DEF SerialInv, BlockSafe
    <2>2. CASE r # as_ref_p[o]
      <3>1. Users(r)' = Users(r)
        BY <1>3, <2>0, <2>2 DEF Users
      <3>2. QED
        BY <1>a, <2>0, <2>2, <3>1 DEF OwnBlockOnly, SameBlock
    <2>3. QED
      BY <2>1, <2>2
  <1>7. CASE Creates(o)
    <2> PICK s \in Refs \ live :
          /\ as_ref_p'[o] = s /\ live' = live \cup {s} /\ Counted(o)'
          /\ ref_php_object' = [ref_php_object EXCEPT ![s] = 1]
      BY <1>7 DEF Creates
    <2>0. as_ref_p[o] # s /\ \A q \in Objects : as_ref_p[q] # s
      BY NullAssumption DEF SerialInv, CountInv, PrivateInv, SafeInv, ObjectSafe
    <2>1. CASE r = s
      <3>1. Users(r)' = {o}
        BY <1>3, <2>0, <2>1 DEF Users
      <3>2. ref_php_object'[r] = 1
        BY <1>2, <2>1
      <3>3. QED
        BY <3>1, <3>2, FS_Singleton
    <2>2. CASE r # s
      <3>1. r \in live /\ o \notin Users(r)'
        BY <2>2 DEF Users
      <3>2. o \notin Users(r)
        BY <1>2, <1>7, <3>1, NullAssumption DEF Creates, Users
      <3>3. QED
        BY <1>2, <1>3, <1>a, <2>2, <3>1, <3>2 DEF Users
    <2>3. QED
      BY <2>1, <2>2
  <1>8. CASE SetsOwn(o)
    <2>0. r \in live
      BY <1>8 DEF SetsOwn
    <2>1. CASE r = as_ref_p[o]
      <3>1. ASSUME NEW q \in Objects, as_ref_p[q] = r PROVE q = o
        BY <1>8, <2>1, <3>1, PrivateAlone, NullAssumption
           DEF SetsOwn, SerialInv, CountInv, PrivateInv
      <3>2. ASSUME NEW q \in Objects, q # o PROVE q \notin Users(r)'
        BY <1>3, <3>1, <3>2 DEF Users
      <3>3. CASE Counted(o)'
        <4>1. ref_php_object'[r] = 1
          BY <1>2, <1>8, <2>0, <2>1, <3>3 DEF SetsOwn
        <4>2. Users(r)' = {o}
          BY <1>8, <2>1, <3>2, <3>3 DEF Users, SetsOwn
        <4>3. QED
          BY <4>1, <4>2, FS_Singleton
      <3>4. CASE ~Counted(o)'
        <4>1. Users(r)' = {}
          BY <3>2, <3>4 DEF Users
        <4>2. ref_php_object'[r] = 0
          BY <1>2, <1>8, <2>0, <2>1, <3>4 DEF SetsOwn
        <4>3. QED
          BY <4>1, <4>2, FS_EmptySet
      <3>5. QED
        BY <3>3, <3>4
    <2>2. CASE r # as_ref_p[o]
      <3>1. Users(r)' = Users(r)
        BY <1>3, <1>8, <2>2 DEF SetsOwn, Users
      <3>2. QED
        BY <1>a, <2>0, <2>2, <3>1 DEF OwnBlockOnly, SameBlock
    <2>3. QED
      BY <2>1, <2>2
  <1>9. QED
    BY <1>4, <1>5, <1>6, <1>7, <1>8 DEF Effect

\* What the other objects believe stays true.
LEMMA OthersCallSafe ==
    ASSUME SerialInv, Serialized, NEW o \in Objects, ObjectStep(o),
           NEW q \in Objects, q # o
    PROVE  CallSafe(q)'
  <1>1. OwnBlockOnly(o) /\ SameObject(q) /\ TypeInv /\ SafeInv
    BY ObjectFrame DEF SerialInv, CountInv, PrivateInv, SafeInv, OwnBlockOnly
  <1>2. pc'[q] = "idle"
    BY <1>1, SoloStep DEF SerialInv, SameObject
  <1>3. ASSUME is_connected[q] PROVE cluster'[as_ref_p[q]]
    <2>1. as_ref_p[q] # Null /\ as_ref_p[q] \in live /\ cluster[as_ref_p[q]]
      BY <1>3 DEF SerialInv, CountInv, PrivateInv, PrivateSafe, SafeInv, ObjectSafe, CallSafe
    <2>2. CASE as_ref_p[q] # as_ref_p[o]
      BY <1>1, <2>1, <2>2 DEF OwnBlockOnly, SameBlock
    <2>3. CASE as_ref_p[q] = as_ref_p[o]
      <3>1. is_persistent[o]
        BY <1>1, <2>1, <2>3, PrivateAlone
      <3>2. QED
        BY <1>1, <2>1, <2>3, <3>1, ClosedIfPrivate
    <2>4. QED
      BY <2>2, <2>3
  <1>4. QED
    BY <1>1, <1>2, <1>3 DEF SameObject, CallSafe, Building

\* A lookup finds only blocks with a cluster: nobody is building one meanwhile.
LEMMA HitHasCluster ==
    ASSUME SerialInv, NEW o \in Objects, ScanHit(o)
    PROVE  cluster[persistent_list[Alias(o)]]
  <1> DEFINE r == persistent_list[Alias(o)]
  <1>1. /\ r \in Refs /\ Alias(o) \in Aliases /\ module = "up" /\ pc[o] = "read"
        /\ as_ref_p[o] = Null
    BY ConfigType DEF ScanHit, Alias, SerialInv, CountInv, PrivateInv, SafeInv, TypeInv,
       ControlInv, StepOK
  <1>2. Entries(r) # {}
    BY <1>1 DEF Entries
  <1>3. r \in live /\ ref_host_entry[r] > 0
    BY <1>1, <1>2, EntryCounted DEF SerialInv, CountInv, PrivateInv, SafeInv, TypeInv, TableSafe
  <1>4. ASSUME NEW p \in Objects, as_ref_p[p] = r, Building(p) PROVE FALSE
    BY <1>1, <1>4, NullAssumption DEF SerialInv, OneCall, Building
  <1>5. QED
    BY <1>3, <1>4 DEF SerialInv, BlockSafe

LEMMA OwnCallSafe ==
    ASSUME SerialInv, ~ConnectMayFail, NEW o \in Objects, ObjectStep(o)
    PROVE  CallSafe(o)'
  <1> USE DEF TypeOK, Goto, CanCall, Return
  <1>1. /\ TypeOK /\ StepOK(o) /\ CallSafe(o) /\ PrivateSafe(o) /\ CountSafe(o)
        /\ \A q \in Objects : q # o => as_ref_p'[q] = as_ref_p[q]
        /\ \A q \in Objects : as_ref_p[q] # Null => as_ref_p[q] \in live
    BY ObjectFrame DEF SerialInv, CountInv, PrivateInv, SafeInv, TypeInv, ControlInv,
       OwnBlockOnly, SameObject, ObjectSafe
  <1>2. CASE ScanHit(o)
    <2>1. /\ pc'[o] = "match" /\ as_ref_p'[o] = persistent_list[Alias(o)]
          /\ cluster' = cluster
      BY <1>1, <1>2 DEF ScanHit
    <2>2. QED
      BY <1>2, <2>1, HitHasCluster DEF CallSafe, Building
  <1>3. CASE \E r \in Refs : CreateHostEntry(o, r)
    BY <1>1, <1>3, NullAssumption DEF CreateHostEntry, CallSafe, PrivateSafe, StepOK
  <1>4. CASE ConnectOK(o)
    BY <1>1, <1>4 DEF ConnectOK, CallSafe, Building, StepOK, Attached
  <1>5. CASE ClosePrivate(o)
    BY <1>1, <1>5 DEF ClosePrivate, Disconnect, CallSafe, Building
  <1>6. CASE ReconnectPrivate(o)
    BY <1>1, <1>6 DEF ReconnectPrivate, CallSafe, Building
  <1>7. CASE SweepStore(o) \/ SweepDisconnected(o)
    BY <1>1, <1>7 DEF SweepStore, SweepDisconnected, Gone, CallSafe, Building
  <1>8. CASE CloseStore(o) \/ ReconnectStore(o)
    BY <1>1, <1>8 DEF CloseStore, ReconnectStore, Disconnect, CallSafe, Building
  <1>9. CASE Publish(o) \/ AddHostEntry(o) \/ MatchStore(o)
    <2>1. /\ UNCHANGED <<as_ref_p, is_connected, cluster>>
          /\ pc'[o] \in {"check", "hosts"}
          /\ pc[o] \in {"publish", "hosts", "match"}
      BY <1>1, <1>9 DEF Publish, AddHostEntry, MatchStore, VisitHost
    <2>2. pc[o] = "match" => is_connected[o]
      BY <1>1 DEF CountSafe
    <2>3. QED
      BY <1>1, <2>1, <2>2 DEF CallSafe, Building
  <1>10. CASE CheckFirst(o)
    BY <1>1, <1>10 DEF CheckFirst, CallSafe, Building
  <1>11. CASE /\ UNCHANGED <<as_ref_p, is_connected, cluster>>
              /\ pc'[o] \in {"idle", "scan", "read", "create", "close", "sweep", "match", "reconnect"}
              /\ pc'[o] = "reconnect" => pc[o] = "reconnect" \/ cluster[as_ref_p[o]]
    BY <1>1, <1>11 DEF CallSafe, Building
  <1>12. QED
    <2>1. CASE ConstructStep(o)
      BY <1>1, <1>2, <1>3, <1>4, <1>9, <1>10, <1>11, <2>1 DEF ConstructStep, Construct,
         ConstructBadConfig, ConstructAgain, ScanLock, ScanMiss, CreateFails, CheckShared,
         ConnectFails, UndoLoad, UndoStore, CountSafe
    <2>2. CASE LockAndLoad(o)
      BY <1>1, <1>11, <2>2 DEF LockAndLoad
    <2>3. CASE CloseStep(o)
      BY <1>1, <1>5, <1>8, <1>11, <2>3 DEF CloseStep, CloseRefused, ClosePersistent
    <2>4. CASE ReconnectStep(o)
      BY <1>1, <1>6, <1>8, <1>11, <2>4 DEF ReconnectStep, ReconnectRefused, ReconnectPersistent
    <2>5. CASE SweepStep(o)
      BY <1>1, <1>7, <1>11, <2>5 DEF SweepStep, SweepConnected
    <2>6. QED
      BY <2>1, <2>2, <2>3, <2>4, <2>5 DEF ObjectStep

\* An object that builds goes on building, unless it has just connected.
LEMMA BuilderGoesOn ==
    ASSUME SerialInv, ~ConnectMayFail, NEW o \in Objects, ObjectStep(o), Building(o)
    PROVE  as_ref_p'[o] = as_ref_p[o] /\ (Building(o)' \/ cluster'[as_ref_p[o]])
  <1> USE DEF TypeOK, Goto, Building
  <1>1. /\ TypeOK /\ as_ref_p[o] \in Refs
        /\ pc[o] = "check" => FirstUser(o)
    BY BuilderIsFirst, NullAssumption DEF SerialInv, CountInv, PrivateInv, SafeInv, TypeInv,
       ControlInv, StepOK, Attached
  <1>2. CASE Publish(o) \/ AddHostEntry(o)
    BY <1>1, <1>2 DEF Publish, AddHostEntry, VisitHost
  <1>3. CASE CheckFirst(o)
    BY <1>1, <1>3 DEF CheckFirst
  <1>4. CASE ConnectOK(o)
    BY <1>1, <1>4 DEF ConnectOK
  <1>5. QED
    BY <1>1, <1>2, <1>3, <1>4 DEF ObjectStep, ConstructStep, Construct,
       ConstructBadConfig, ConstructAgain, ScanLock, ScanHit, ScanMiss, MatchStore,
       CreateHostEntry, CreateFails, CheckShared, ConnectFails, UndoLoad, UndoStore,
       LockAndLoad, CloseStep, CloseRefused, ClosePrivate, ClosePersistent, CloseStore,
       ReconnectStep, ReconnectRefused, ReconnectPrivate, ReconnectPersistent,
       ReconnectStore, SweepStep, SweepConnected, SweepStore, SweepDisconnected, CanCall

\* A new block is being built by the object that created it.
LEMMA NewBlockBuilt ==
    ASSUME TypeInv, NEW o \in Objects, PrivateSafe(o), ObjectStep(o),
           NEW r \in live', r \notin live
    PROVE  as_ref_p'[o] = r /\ Building(o)'
  <1> USE DEF TypeInv, TypeOK, Goto
  <1>1. CASE \E s \in Refs : CreateHostEntry(o, s)
    BY <1>1 DEF CreateHostEntry, Building, PrivateSafe, ControlInv, StepOK
  <1>2. CASE SweepStore(o) \/ SweepDisconnected(o)
    BY <1>2 DEF SweepStore, SweepDisconnected, SweepHandle, Release
  <1>3. CASE live' = live
    BY <1>3
  <1>4. QED
    BY <1>1, <1>2, <1>3 DEF ObjectStep, ConstructStep, Construct, ConstructBadConfig,
       ConstructAgain, ScanLock, ScanHit, ScanMiss, MatchStore, CreateFails, Publish,
       AddHostEntry, CheckFirst, CheckShared, ConnectOK, ConnectFails, UndoLoad,
       UndoStore, LockAndLoad, CloseStep, CloseRefused, ClosePrivate, ClosePersistent,
       CloseStore, ReconnectStep, ReconnectRefused, ReconnectPrivate,
       ReconnectPersistent, ReconnectStore, SweepStep, SweepConnected

LEMMA ObjectSerial ==
    ASSUME SerialInv, CountInv', Serialized, ~ConnectMayFail, NEW o \in Objects, ObjectStep(o)
    PROVE  SerialInv'
  <1>1. CountInv /\ SafeInv /\ TypeInv /\ OwnBlockOnly(o) /\ PrivateSafe(o)
    BY ObjectFrame DEF SerialInv, CountInv, PrivateInv, SafeInv
  <1>2. ASSUME NEW q \in Objects, q # o PROVE pc'[q] = "idle" /\ pc[q] = "idle"
    BY <1>1, <1>2, SoloStep DEF SerialInv, OwnBlockOnly, SameObject
  <1>3. OneCall'
    BY <1>2 DEF OneCall
  <1>4. ASSUME NEW q \in Objects PROVE CallSafe(q)'
    BY OwnCallSafe, OthersCallSafe
  <1>5. ASSUME NEW r \in live' PROVE BlockSafe(r)'
    <2>1. ref_php_object'[r] = Cardinality(Users(r)')
      <3>1. Effect(o)
        BY <1>1, ConstructEffect, CallEffect DEF ObjectStep
      <3>2. QED
        BY <1>1, <3>1, EffectExact
    <2>2. ASSUME ref_host_entry'[r] > 0
          PROVE  cluster'[r] \/ \E q \in Objects : as_ref_p'[q] = r /\ Building(q)'
      <3>1. CASE r \notin live
        BY <1>1, <3>1, NewBlockBuilt
      <3>2. CASE r \in live /\ cluster[r]
        <4>1. ref_host_entry[r] > 0 /\ r \in Refs /\ module = "up"
          BY <1>1, <2>2, <3>2, SharedStays, RunsWhileUp DEF TypeInv, TypeOK
        <4>2. StaysOpen
          BY <1>1, ConstructStaysOpen, ObjectStaysOpen DEF ObjectStep
        <4>3. QED
          BY <3>2, <4>1, <4>2 DEF StaysOpen
      <3>3. CASE r \in live /\ ~cluster[r]
        <4>1. ref_host_entry[r] > 0
          BY <1>1, <2>2, <3>3, SharedStays
        <4>2. PICK q \in Objects : as_ref_p[q] = r /\ Building(q)
          BY <3>3, <4>1 DEF SerialInv, BlockSafe
        <4>3. q = o
          BY <1>2, <4>2 DEF Building
        <4>4. QED
          BY <4>2, <4>3, BuilderGoesOn
      <3>4. QED
        BY <3>1, <3>2, <3>3
    <2>3. QED
      BY <2>1, <2>2 DEF BlockSafe
  <1>6. QED
    BY <1>3, <1>4, <1>5 DEF SerialInv

LEMMA ShutdownSerial ==
    ASSUME SerialInv, CountInv', ShutdownStep
    PROVE  SerialInv'
  <1>1. /\ \A q \in Objects : as_ref_p[q] = Null /\ pc[q] = "idle" /\ ~is_connected[q]
        /\ UNCHANGED <<as_ref_p, is_connected, pc, ref_php_object>>
        /\ TypeOK
    BY DEF ShutdownStep, ShutdownStart, ShutdownVisit, ShutdownEnd, SerialInv, CountInv,
       PrivateInv, PrivateSafe, SafeInv, TypeInv, ControlInv, StepOK
  <1>2. OneCall' /\ \A q \in Objects : CallSafe(q)'
    BY <1>1 DEF OneCall, CallSafe, Building
  <1>3. ASSUME NEW r \in live'
        PROVE  r \in live /\ (ref_host_entry'[r] > 0 => ref_host_entry[r] > 0 /\ cluster'[r] = cluster[r])
    <2>1. CASE \E a \in Aliases : ShutdownVisit(a)
      <3>1. PICK a \in Aliases : ShutdownVisit(a)
        BY <2>1
      <3>2. CASE persistent_list[a] \notin Refs
        BY <1>3, <3>1, <3>2 DEF ShutdownVisit
      <3>3. CASE persistent_list[a] \in Refs /\ ~LastEntry(persistent_list[a])
        <4>1. PICK s \in Refs : /\ s = persistent_list[a]
                                /\ ref_host_entry' = [ref_host_entry EXCEPT ![s] = @ - 1]
                                /\ UNCHANGED <<live, cluster>>
          BY <3>1, <3>3 DEF ShutdownVisit
        <4>2. ref_host_entry[s] \in Nat /\ ref_host_entry[s] > 1
          BY <1>1, <3>3, <4>1 DEF LastEntry, TypeOK
        <4>3. QED
          BY <1>1, <1>3, <4>1, <4>2 DEF TypeOK
      <3>4. CASE persistent_list[a] \in Refs /\ LastEntry(persistent_list[a])
        BY <1>1, <1>3, <3>1, <3>4 DEF ShutdownVisit, Release, TypeOK
      <3>5. QED
        BY <3>2, <3>3, <3>4
    <2>2. CASE ShutdownStart \/ ShutdownEnd
      BY <1>3, <2>2 DEF ShutdownStart, ShutdownEnd
    <2>3. QED
      BY <2>1, <2>2 DEF ShutdownStep
  <1>4. ASSUME NEW r \in live' PROVE BlockSafe(r)'
    <2>1. Users(r)' = Users(r)
      BY <1>1 DEF Users, Counted
    <2>2. BlockSafe(r)
      BY <1>3 DEF SerialInv
    <2>3. ref_php_object'[r] = Cardinality(Users(r)')
      BY <1>1, <2>1, <2>2 DEF BlockSafe
    <2>4. ref_host_entry'[r] > 0 => cluster'[r]
      BY <1>1, <1>3, <2>2 DEF BlockSafe, Building
    <2>5. QED
      BY <2>3, <2>4 DEF BlockSafe
  <1>5. QED
    BY <1>2, <1>4 DEF SerialInv

LEMMA InitSerial == Init => SerialInv
  BY InitCount DEF Init, SerialInv, OneCall, CallSafe, Building

LEMMA NextSerial ==
    ASSUME FALSE \notin ReconstructModes, ~ConnectMayFail, Serialized, SerialInv, [Next]_vars
    PROVE  SerialInv'
  <1>1. CountInv'
    BY NextCount DEF SerialInv
  <1>2. CASE UNCHANGED vars
    <2>1. ASSUME NEW r \in live' PROVE BlockSafe(r)'
      <3>1. Users(r)' = Users(r)
        BY <1>2 DEF vars, Users, Counted
      <3>2. BlockSafe(r)
        BY <1>2 DEF vars, SerialInv
      <3>3. QED
        BY <1>2, <3>1, <3>2 DEF vars, BlockSafe, Building
    <2>2. QED
      BY <1>1, <1>2, <2>1 DEF vars, SerialInv, OneCall, CallSafe, Building
  <1>3. QED
    BY <1>1, <1>2, ObjectSerial, ShutdownSerial DEF Next, Ended, ObjectStep

\* With one request at a time and no failed connect, the comment on the field is
\* exact: between calls ref_php_object is the number of objects that hold the
\* handle, for any number of objects, hosts and calls.
THEOREM PhpObjectsCounted ==
    ASSUME FALSE \notin ReconstructModes, ~ConnectMayFail, Serialized
    PROVE  Spec => []PhpObjectsExact
  <1>1. Init => SerialInv
    BY InitSerial
  <1>2. SerialInv /\ [Next]_vars => SerialInv'
    BY NextSerial
  <1>3. SerialInv => PhpObjectsExact
    <2>1. SUFFICES ASSUME SerialInv, Quiet, NEW r \in live
                   PROVE  ref_php_object[r] = Cardinality({o \in Objects : as_ref_p[o] = r /\ is_connected[o]})
      BY DEF PhpObjectsExact
    <2>2. Users(r) = {o \in Objects : as_ref_p[o] = r /\ is_connected[o]}
      BY <2>1 DEF Users, Counted, Quiet
    <2>3. ref_php_object[r] = Cardinality(Users(r))
      BY <2>1 DEF SerialInv, BlockSafe
    <2>4. QED
      BY <2>2, <2>3
  <1>4. QED
    BY <1>1, <1>2, <1>3, PTL DEF Spec

\* Under the same conditions isConnected is true only of an object whose handle
\* has a cluster: a lookup never adopts a handle that nobody has connected.
THEOREM ConnectedHasCluster ==
    ASSUME FALSE \notin ReconstructModes, ~ConnectMayFail, Serialized
    PROVE  Spec => []ConnectedMeansCluster
  <1>1. Init => SerialInv
    BY InitSerial
  <1>2. SerialInv /\ [Next]_vars => SerialInv'
    BY NextSerial
  <1>3. SerialInv => ConnectedMeansCluster
    BY DEF SerialInv, CallSafe, ConnectedMeansCluster
  <1>4. QED
    BY <1>1, <1>2, <1>3, PTL DEF Spec

-----------------------------------------------------------------------------
(* HostsFindHandle, for requests that run one at a time *)

\* The host i of the list of o leads to the block of o.
Led(o, i) == persistent_list[hosts[o][i]] = as_ref_p[o]

\* How far a constructor has come: the host it found, then with it all the hosts
\* that iterate_hosts_add_entry has passed, in the end the whole list.
FindSafe(o) ==
    /\ pc[o] = "match" => Led(o, iter_hosts[o])
    /\ pc[o] = "hosts" =>
          /\ matched_host_id[o] \in 1 .. Len(hosts[o]) /\ Led(o, matched_host_id[o])
          /\ \A i \in 1 .. Len(hosts[o]) : i < iter_hosts[o] => Led(o, i)
    /\ (is_persistent[o] /\ pc[o] \in {"check", "connect", "undo", "undo_store"}) =>
          hosts[o] \in Configs /\ \A i \in 1 .. Len(hosts[o]) : Led(o, i)

FindInv ==
    /\ TypeInv
    /\ OneCall
    /\ \A o \in Objects : FindSafe(o)

\* VisitHost keeps what FindSafe says, when the hosts before the next one are done.
LEMMA VisitFinds ==
    ASSUME NEW o \in Objects, TypeOK, hosts[o] \in Configs, hosts' = hosts,
           NEW i \in Nat, NEW m \in 1 .. Len(hosts[o]), VisitHost(o, i, m),
           Led(o, m)', \A j \in 1 .. Len(hosts[o]) : j < i => Led(o, j)'
    PROVE  FindSafe(o)'
  <1>1. /\ iter_hosts'[o] = i /\ matched_host_id'[o] = m
        /\ pc'[o] = IF i > Len(hosts[o]) THEN "check" ELSE "hosts"
        /\ hosts'[o] = hosts[o]
    BY DEF VisitHost, Goto, TypeOK
  <1>2. CASE i > Len(hosts[o])
    <2>1. \A j \in 1 .. Len(hosts[o]) : j < i
      BY <1>2, ConfigType
    <2>2. QED
      BY <1>1, <1>2, <2>1 DEF FindSafe
  <1>3. CASE ~(i > Len(hosts[o]))
    BY <1>1, <1>3 DEF FindSafe
  <1>4. QED
    BY <1>2, <1>3

\* The step of the constructor itself.
LEMMA OwnFindSafe ==
    ASSUME TypeInv, NEW o \in Objects, FindSafe(o), ObjectStep(o)
    PROVE  FindSafe(o)'
  <1> USE DEF TypeOK
  <1>1. TypeOK /\ StepOK(o)
    BY DEF TypeInv, ControlInv
  <1>2. ASSUME pc[o] \in {"scan", "read", "match", "publish", "hosts"}
        PROVE  /\ hosts[o] \in Configs /\ Len(hosts[o]) \in Nat /\ Len(hosts[o]) >= 1
               /\ \A i \in 1 .. Len(hosts[o]) : hosts[o][i] \in Aliases
    BY <1>1, <1>2, ConfigType DEF StepOK
  <1>3. ASSUME pc[o] \in {"read", "match", "hosts"}
        PROVE  iter_hosts[o] \in 1 .. Len(hosts[o])
    BY <1>1, <1>3 DEF StepOK
  <1>4. CASE ScanHit(o)
    <2>1. /\ as_ref_p'[o] = persistent_list[Alias(o)] /\ pc'[o] = "match"
          /\ UNCHANGED <<persistent_list, hosts, iter_hosts>>
      BY <1>1, <1>4 DEF ScanHit, Goto
    <2>2. QED
      BY <2>1 DEF FindSafe, Led, Alias
  <1>5. CASE MatchStore(o)
    <2>1. /\ pc[o] = "match" /\ UNCHANGED <<persistent_list, as_ref_p, hosts>>
          /\ VisitHost(o, NextHost(1, iter_hosts[o]), iter_hosts[o])
      BY <1>5 DEF MatchStore
    <2>2. Led(o, iter_hosts[o])
      BY <2>1 DEF FindSafe
    <2>3. PICK m \in 1 .. Len(hosts[o]) : m = iter_hosts[o]
      BY <1>3, <2>1
    <2>4. \A j : Led(o, j)' = Led(o, j)
      BY <2>1 DEF Led
    <2>5. NextHost(1, m) \in Nat /\ \A j \in 1 .. Len(hosts[o]) : j < NextHost(1, m) => j = m
      BY <1>2, <2>1 DEF NextHost
    <2>6. hosts[o] \in Configs
      BY <1>2, <2>1
    <2>7. QED
      BY <1>1, <2>1, <2>2, <2>3, <2>4, <2>5, <2>6, VisitFinds
  <1>6. CASE Publish(o)
    <2>1. /\ pc[o] = "publish" /\ UNCHANGED <<as_ref_p, hosts>>
          /\ persistent_list' = [persistent_list EXCEPT ![hosts[o][1]] = as_ref_p[o]]
          /\ VisitHost(o, 2, 1)
      BY <1>6 DEF Publish, NextHost
    <2>2. 1 \in 1 .. Len(hosts[o]) /\ hosts[o][1] \in Aliases /\ hosts[o] \in Configs
      BY <1>2, <2>1
    <2>3. Led(o, 1)'
      BY <1>1, <2>1, <2>2 DEF Led
    <2>4. \A j \in 1 .. Len(hosts[o]) : j < 2 => j = 1
      BY <1>2, <2>1
    <2>5. QED
      BY <1>1, <2>1, <2>2, <2>3, <2>4, VisitFinds
  <1>7. CASE AddHostEntry(o)
    <2>1. /\ pc[o] = "hosts" /\ UNCHANGED <<as_ref_p, hosts>>
          /\ persistent_list' = [persistent_list EXCEPT ![Alias(o)] = as_ref_p[o]]
          /\ VisitHost(o, NextHost(iter_hosts[o] + 1, matched_host_id[o]), matched_host_id[o])
      BY <1>7 DEF AddHostEntry
    <2>2. PICK m \in 1 .. Len(hosts[o]) : m = matched_host_id[o]
      BY <2>1 DEF FindSafe
    <2>3. PICK k \in 1 .. Len(hosts[o]) : k = iter_hosts[o]
      BY <1>3, <2>1
    <2>4. \A i \in 1 .. Len(hosts[o]) : hosts[o][i] \in Aliases
      BY <1>2, <2>1
    <2>5. Led(o, k)' /\ \A i \in 1 .. Len(hosts[o]) : Led(o, i) => Led(o, i)'
      BY <1>1, <2>1, <2>3, <2>4 DEF Led, Alias
    <2>6. Led(o, m)' /\ \A i \in 1 .. Len(hosts[o]) : i < k => Led(o, i)'
      BY <2>1, <2>2, <2>3, <2>5 DEF FindSafe
    <2>7. /\ NextHost(k + 1, m) \in Nat
          /\ \A i \in 1 .. Len(hosts[o]) : i < NextHost(k + 1, m) => i < k \/ i = k \/ i = m
      BY <1>2, <2>1 DEF NextHost
    <2>8. hosts[o] \in Configs
      BY <1>2, <2>1
    <2>9. QED
      BY <1>1, <2>1, <2>2, <2>3, <2>5, <2>6, <2>7, <2>8, VisitFinds
  <1>8. CASE LockAndLoad(o) \/ CheckFirst(o) \/ ConnectFails(o) \/ UndoLoad(o)
    <2>1. UNCHANGED <<persistent_list, as_ref_p, hosts, iter_hosts, matched_host_id, is_persistent>>
      BY <1>8 DEF LockAndLoad, CheckFirst, ConnectFails, UndoLoad
    <2>2. \/ pc'[o] = pc[o]
          \/ /\ pc[o] \in {"check", "connect", "undo", "undo_store"}
             /\ pc'[o] \in {"connect", "undo", "undo_store"}
      BY <1>1, <1>8 DEF LockAndLoad, CheckFirst, ConnectFails, UndoLoad, Goto
    <2>3. QED
      BY <2>1, <2>2 DEF FindSafe, Led
  <1>9. CASE pc'[o] \in {"idle", "scan", "read", "create", "publish", "close", "reconnect", "sweep"}
    BY <1>9 DEF FindSafe
  <1>10. CASE \E r \in Refs : CreateHostEntry(o, r)
    BY <1>1, <1>10 DEF CreateHostEntry, Goto, FindSafe
  <1>11. QED
    <2> USE DEF Goto, Return, CanCall
    <2>1. CASE ConstructStep(o)
      BY <1>1, <1>4, <1>5, <1>6, <1>7, <1>8, <1>9, <1>10, <2>1 DEF ConstructStep, Construct,
         ConstructBadConfig, ConstructAgain, ScanLock, ScanMiss, CreateFails,
         CheckShared, ConnectOK, UndoStore
    <2>2. CASE CloseStep(o)
      BY <1>1, <1>9, <2>2 DEF CloseStep, CloseRefused, ClosePrivate, ClosePersistent, CloseStore
    <2>3. CASE ReconnectStep(o)
      BY <1>1, <1>9, <2>3 DEF ReconnectStep, ReconnectRefused, ReconnectPrivate,
         ReconnectPersistent, ReconnectStore
    <2>4. CASE SweepStep(o)
      BY <1>1, <1>9, <2>4 DEF SweepStep, SweepConnected, SweepStore, SweepDisconnected, Gone
    <2>5. QED
      BY <1>8, <2>1, <2>2, <2>3, <2>4 DEF ObjectStep

LEMMA NextFind ==
    ASSUME Serialized, FindInv, TypeInv', [Next]_vars
    PROVE  FindInv'
  <1>1. ASSUME NEW o \in Objects, ObjectStep(o) PROVE FindInv'
    <2>1. ASSUME NEW q \in Objects, q # o PROVE pc'[q] = "idle"
      BY <1>1, <2>1, SoloStep, ObjectFrame DEF FindInv, OwnBlockOnly, SameObject
    <2>2. FindSafe(o)'
      BY <1>1, OwnFindSafe DEF FindInv
    <2>3. \A q \in Objects : q # o => FindSafe(q)'
      BY <2>1 DEF FindSafe
    <2>4. QED
      BY <2>1, <2>2, <2>3 DEF FindInv, OneCall
  <1>2. CASE ShutdownStep
    <2>1. \A q \in Objects : pc'[q] = "idle"
      BY <1>2 DEF ShutdownStep, ShutdownStart, ShutdownVisit, ShutdownEnd, FindInv,
         TypeInv, ControlInv, StepOK
    <2>2. QED
      BY <2>1 DEF FindInv, OneCall, FindSafe
  <1>3. CASE UNCHANGED vars
    BY <1>3 DEF vars, FindInv, OneCall, FindSafe, Led
  <1>4. QED
    BY <1>1, <1>2, <1>3 DEF Next, Ended, ObjectStep

\* When requests run one at a time, a persistent __construct leaves every host of
\* its list leading to its handle, for lists of any length and wherever the match
\* was: configure_connection and iterate_hosts_add_entry between them miss none.
THEOREM HostsLeadToHandle ==
    ASSUME Serialized
    PROVE  Spec => []HostsFindHandle
  <1>1. Init => FindInv
    BY InitTypeInv DEF Init, FindInv, OneCall, FindSafe
  <1>2. TypeInv /\ [Next]_vars => TypeInv'
    BY ConstructTypeInv, ObjectTypeInv, ShutdownTypeInv, StutterTypeInv DEF Next, Ended
  <1>3. FindInv /\ [Next]_vars => FindInv'
    BY <1>2, NextFind DEF FindInv
  <1>4. FindInv => HostsFindHandle
    <2>1. SUFFICES ASSUME FindInv, NEW o \in Objects, is_persistent[o],
                          pc[o] \in {"check", "connect", "undo", "undo_store"}
                   PROVE  \A i \in DOMAIN hosts[o] : persistent_list[hosts[o][i]] = as_ref_p[o]
      BY DEF HostsFindHandle
    <2>2. hosts[o] \in Configs /\ \A i \in 1 .. Len(hosts[o]) : Led(o, i)
      BY <2>1 DEF FindInv, FindSafe
    <2>3. DOMAIN hosts[o] = 1 .. Len(hosts[o])
      BY <2>2, ConfigType
    <2>4. QED
      BY <2>2, <2>3 DEF Led
  <1>5. QED
    BY <1>1, <1>3, <1>4, PTL DEF Spec

-----------------------------------------------------------------------------
(* ShutdownReleasesCounted *)

\* The walk treats the block as ShutdownReleasesCounted says.
CountsDown(r) ==
    ref_host_entry[r] = Cardinality(Entries(r)) =>
        \/ r \notin live'
        \/ /\ ref_host_entry'[r] = Cardinality(Entries(r)')
           /\ Entries(r)' # {}

ReleasesCounted == module = "closing" => \A r \in live : CountsDown(r)

\* A positive counter that is exact stands for an entry.
LEMMA CountedHasEntry ==
    ASSUME NEW r, Cardinality(Entries(r)) > 0
    PROVE  Entries(r) # {}
  BY FS_EmptySet

LEMMA VisitCountsDown ==
    ASSUME OwnInv, NEW a \in Aliases, ShutdownVisit(a), NEW r \in live,
           ref_host_entry[r] = Cardinality(Entries(r)), r \in live'
    PROVE  ref_host_entry'[r] = Cardinality(Entries(r)') /\ Entries(r)' # {}
  <1>1. /\ TypeOK /\ module = "closing" /\ module' = "closing" /\ a \in unvisited
        /\ unvisited' = unvisited \ {a} /\ persistent_list' = persistent_list
        /\ r \in Refs /\ \A o \in Objects : as_ref_p[o] = Null
    BY DEF ShutdownVisit, AdvancePast, OwnInv, SafeInv, TypeInv, TypeOK, ControlInv, StepOK
  <1>2. ref_host_entry[r] > 0
    BY <1>1, AllShared
  <1>3. CASE persistent_list[a] = r
    <2>1. ~LastEntry(r) /\ ref_host_entry' = [ref_host_entry EXCEPT ![r] = @ - 1]
      BY <1>1, <1>3 DEF ShutdownVisit, Release
    <2>2. ref_host_entry'[r] = ref_host_entry[r] - 1 /\ ref_host_entry[r] > 1
      BY <1>1, <2>1 DEF TypeOK, LastEntry
    <2>3. a \in Entries(r) /\ Entries(r)' = Entries(r) \ {a}
      BY <1>1, <1>3 DEF Entries
    <2>4. Cardinality(Entries(r) \ {a}) = Cardinality(Entries(r)) - 1
      BY <2>3, EntriesFinite, FS_RemoveElement
    <2>5. ref_host_entry'[r] = Cardinality(Entries(r)') /\ Cardinality(Entries(r)') # 0
      BY <2>2, <2>3, <2>4, EntriesFinite
    <2>6. QED
      BY <2>5, FS_EmptySet
  <1>4. CASE persistent_list[a] # r
    <2>1. Entries(r)' = Entries(r)
      BY <1>1, <1>4 DEF Entries
    <2>2. ref_host_entry'[r] = ref_host_entry[r]
      BY <1>1, <1>4 DEF ShutdownVisit, TypeOK
    <2>3. QED
      BY <1>2, <2>1, <2>2, CountedHasEntry
  <1>5. QED
    BY <1>3, <1>4

LEMMA NextCountsDown ==
    ASSUME OwnInv, [Next]_vars
    PROVE  [ReleasesCounted]_vars
  <1>1. ASSUME NEW a \in Aliases, ShutdownVisit(a) PROVE ReleasesCounted
    BY <1>1, VisitCountsDown DEF ReleasesCounted, CountsDown
  <1>2. CASE ShutdownEnd
    <2>1. SUFFICES ASSUME NEW r \in live, ref_host_entry[r] = Cardinality(Entries(r)) PROVE FALSE
      BY DEF ReleasesCounted, CountsDown
    <2>2. Entries(r) = {}
      BY <1>2 DEF ShutdownEnd, Entries
    <2>3. ref_host_entry[r] = 0
      BY <2>1, <2>2, FS_EmptySet
    <2>4. r \in Refs /\ \A o \in Objects : as_ref_p[o] = Null
      BY <1>2 DEF ShutdownEnd, OwnInv, SafeInv, TypeInv, TypeOK, ControlInv, StepOK
    <2>5. QED
      BY <2>3, <2>4, AllShared
  <1>3. CASE ShutdownStart
    BY <1>3 DEF ShutdownStart, ReleasesCounted
  <1>4. ASSUME NEW o \in Objects, ObjectStep(o) PROVE ReleasesCounted
    BY <1>4, RunsWhileUp DEF OwnInv, SafeInv, ReleasesCounted
  <1>5. QED
    BY <1>1, <1>2, <1>3, <1>4 DEF Next, Ended, ObjectStep, ShutdownStep

\* When __construct is called once per object, moduleShutdown frees every
\* aerospike_ref whose counter is the number of its entries, in whatever order it
\* visits the aliases, however many share the block and however the requests ran
\* before.
THEOREM ShutdownFreesCounted ==
    ASSUME ReconstructModes = {}
    PROVE  Spec => ShutdownReleasesCounted
  <1>1. Init => OwnInv
    BY InitOwned
  <1>2. OwnInv /\ [Next]_vars => OwnInv'
    BY NextOwned
  <1>3. OwnInv /\ [Next]_vars => [ReleasesCounted]_vars
    BY NextCountsDown
  <1>4. QED
    BY <1>1, <1>2, <1>3, PTL DEF Spec, ShutdownReleasesCounted, ReleasesCounted, CountsDown

-----------------------------------------------------------------------------
(* StreamCalls: what a running scan, query or aggregate can rely on, as    *)
(* long as no caller runs __construct a second time with                   *)
(* persistent_connection = false.  StreamInv is SafeInv with what it means *)
(* for the handle of a stream.                                             *)

\* The handle of a stream is still that of its object, and the only calls in
\* progress on the object are the close and reconnect of its callback.
StreamSafe(o) ==
    Running(o) =>
        /\ as_ref_p[o] # Null
        /\ stream[o].handle = as_ref_p[o]
        /\ pc[o] \in {"idle", "close", "reconnect"}
        /\ pc[o] # "idle" => stream[o].at = "callback"

OpenSafe(o) ==
    Running(o) /\ stream[o].opened /\ ref_host_entry[stream[o].handle] > 0
        => cluster[stream[o].handle]

\* An aggregate that has failed is about to return its error.
FailureSafe(o) ==
    Running(o) /\ stream[o].kind = "aggregate" /\ stream[o].failed
        => stream[o].at = "returned" /\ stream[o].error # "OK"

StreamInv ==
    /\ SafeInv
    /\ StreamTypeOK
    /\ \A o \in Objects : StreamSafe(o) /\ OpenSafe(o) /\ FailureSafe(o)

PoolStep(o) ==
    ConstructStep(o) \/ LockAndLoad(o) \/ CloseStep(o) \/ ReconnectStep(o) \/ SweepStep(o)

-----------------------------------------------------------------------------
(* The steps of the pool *)

LEMMA PoolStepSafe ==
    ASSUME FALSE \notin ReconstructModes, SafeInv, NEW o \in Objects, PoolStep(o)
    PROVE  SafeInv' /\ StaysOpen
  BY ConstructSafe, ObjectStepSafe, ConstructStaysOpen, ObjectStaysOpen DEF PoolStep

\* A call touches the control state and the pointer of its own object only.
LEMMA OthersUntouched ==
    ASSUME TypeOK, NEW o \in Objects, PoolStep(o), NEW q \in Objects, q # o
    PROVE  pc'[q] = pc[q] /\ as_ref_p'[q] = as_ref_p[q]
  <1> USE DEF TypeOK, Goto, Return
  <1>1. CASE ConstructStep(o)
    BY <1>1 DEF ConstructStep, Construct, ConstructBadConfig, ConstructAgain,
       ScanLock, ScanHit, ScanMiss, MatchStore, VisitHost, CreateHostEntry, CreateFails,
       Publish, AddHostEntry, CheckFirst, CheckShared, ConnectOK, ConnectFails, UndoLoad,
       UndoStore
  <1>2. CASE LockAndLoad(o)
    BY <1>2 DEF LockAndLoad
  <1>3. CASE CloseStep(o)
    BY <1>3 DEF CloseStep, CloseRefused, ClosePrivate, ClosePersistent, CloseStore
  <1>4. CASE ReconnectStep(o)
    BY <1>4 DEF ReconnectStep, ReconnectRefused, ReconnectPrivate, ReconnectPersistent,
       ReconnectStore
  <1>5. CASE SweepStep(o)
    BY <1>5 DEF SweepStep, SweepConnected, SweepStore, SweepDisconnected, Gone
  <1>6. QED
    BY <1>1, <1>2, <1>3, <1>4, <1>5 DEF PoolStep

\* A callback cannot give its own object another handle.
LEMMA CallbackKeepsHandle ==
    ASSUME TypeOK, NEW o \in Objects,
           ConstructStep(o) \/ LockAndLoad(o) \/ CloseStep(o) \/ ReconnectStep(o),
           as_ref_p[o] # Null, pc[o] \in {"idle", "close", "reconnect"}
    PROVE  as_ref_p'[o] = as_ref_p[o] /\ pc'[o] \in {"idle", "close", "reconnect"}
  <1> USE DEF TypeOK, Goto, Return
  <1>1. CASE ConstructStep(o)
    BY <1>1 DEF ConstructStep, Construct, ConstructBadConfig, ConstructAgain,
       ScanLock, ScanHit, ScanMiss, MatchStore, CreateHostEntry, CreateFails,
       Publish, AddHostEntry, CheckFirst, CheckShared, ConnectOK, ConnectFails, UndoLoad,
       UndoStore
  <1>2. CASE LockAndLoad(o)
    BY <1>2 DEF LockAndLoad
  <1>3. CASE CloseStep(o)
    BY <1>3 DEF CloseStep, CloseRefused, ClosePrivate, ClosePersistent, CloseStore
  <1>4. CASE ReconnectStep(o)
    BY <1>4 DEF ReconnectStep, ReconnectRefused, ReconnectPrivate, ReconnectPersistent,
       ReconnectStore
  <1>5. QED
    BY <1>1, <1>2, <1>3, <1>4

\* An allocated handle that no alias was ever pointed to gets none later.
LEMMA PrivateStaysPrivate ==
    ASSUME SafeInv, NEW o \in Objects, PoolStep(o), NEW r \in live, ref_host_entry[r] = 0
    PROVE  ref_host_entry'[r] = 0
  <1>t. TypeOK /\ r \in Refs
    BY DEF SafeInv, TypeInv, TypeOK
  <1>1. CASE \E s \in Refs : CreateHostEntry(o, s)
    BY <1>1, <1>t DEF CreateHostEntry, TypeOK
  <1>2. CASE AddHostEntry(o)
    <2>1. ref_host_entry[as_ref_p[o]] > 0
      BY <1>2 DEF AddHostEntry, SafeInv, ObjectSafe
    <2>2. as_ref_p[o] # r
      BY <2>1
    <2>3. QED
      BY <1>2, <1>t, <2>2 DEF AddHostEntry, CountHostEntry, TypeOK
  <1>3. CASE UNCHANGED ref_host_entry
    BY <1>3
  <1>4. QED
    BY <1>1, <1>2, <1>3 DEF PoolStep, ConstructStep, Construct, ConstructBadConfig,
       ConstructAgain, ScanLock, ScanHit, ScanMiss, MatchStore, CreateFails, Publish,
       CheckFirst, CheckShared, ConnectOK, ConnectFails, UndoLoad, UndoStore, LockAndLoad,
       CloseStep, CloseRefused, ClosePrivate, ClosePersistent, CloseStore, ReconnectStep,
       ReconnectRefused, ReconnectPrivate, ReconnectPersistent, ReconnectStore, SweepStep,
       SweepConnected, SweepStore, SweepDisconnected

\* A stream runs only while the module is up, on an allocated handle.
LEMMA StreamUp ==
    ASSUME StreamInv, NEW o \in Objects, Running(o)
    PROVE  /\ module = "up"
           /\ stream[o] \in Streams
           /\ stream[o].handle \in Refs
           /\ stream[o].handle \in live
           /\ stream[o].handle = as_ref_p[o]
  <1>1. stream[o] \in Streams
    BY DEF StreamInv, StreamTypeOK, Running
  <1>2. stream[o].handle = as_ref_p[o] /\ as_ref_p[o] # Null
    BY DEF StreamInv, StreamSafe
  <1>3. stream[o].handle \in Refs
    BY <1>1 DEF Streams
  <1>4. QED
    BY <1>1, <1>2, <1>3 DEF StreamInv, SafeInv, ObjectSafe, TypeInv, ControlInv, StepOK

\* The invariant over the steps of the pool.
LEMMA PoolStreamInv ==
    ASSUME FALSE \notin ReconstructModes, StreamInv, NEW o \in Objects,
           ScriptStep(o) \/ EndObject(o)
    PROVE  StreamInv'
  <1>1. PoolStep(o) /\ stream' = stream
    BY DEF ScriptStep, EndObject, PoolStep
  <1>2. SafeInv' /\ StaysOpen
    BY <1>1, PoolStepSafe DEF StreamInv
  <1>t. TypeOK /\ TypeOK'
    BY <1>2 DEF StreamInv, SafeInv, TypeInv
  <1>3. StreamTypeOK'
    BY <1>1 DEF StreamInv, StreamTypeOK
  <1>4. ASSUME NEW q \in Objects, Running(q)
        PROVE  /\ as_ref_p'[q] = as_ref_p[q]
               /\ pc'[q] \in {"idle", "close", "reconnect"}
               /\ pc'[q] # "idle" => stream[q].at = "callback"
    <2>1. CASE q # o
      BY <1>1, <1>t, <1>4, <2>1, OthersUntouched DEF StreamInv, StreamSafe
    <2>2. CASE q = o
      <3>1. /\ ConstructStep(o) \/ LockAndLoad(o) \/ CloseStep(o) \/ ReconnectStep(o)
            /\ stream[o].at = "callback"
        BY <1>4, <2>2 DEF ScriptStep, EndObject, InScript
      <3>2. as_ref_p[o] # Null /\ pc[o] \in {"idle", "close", "reconnect"}
        BY <1>4, <2>2 DEF StreamInv, StreamSafe
      <3>3. QED
        BY <1>t, <2>2, <3>1, <3>2, CallbackKeepsHandle
    <2>3. QED
      BY <2>1, <2>2
  <1>5. ASSUME NEW q \in Objects PROVE StreamSafe(q)'
    BY <1>1, <1>4 DEF StreamInv, StreamSafe, Running
  <1>6. ASSUME NEW q \in Objects PROVE OpenSafe(q)'
    <2> SUFFICES ASSUME Running(q), stream[q].opened, ref_host_entry'[stream[q].handle] > 0
                 PROVE  cluster'[stream[q].handle]
      BY <1>1 DEF OpenSafe, Running
    <2>1. module = "up" /\ stream[q].handle \in live /\ stream[q].handle \in Refs
      BY StreamUp
    <2>2. ref_host_entry[stream[q].handle] # 0
      BY <1>1, <2>1, PrivateStaysPrivate DEF StreamInv
    <2>3. ref_host_entry[stream[q].handle] > 0
      <3>1. ref_host_entry \in [Refs -> Nat]
        BY <1>t DEF TypeOK
      <3>2. ref_host_entry[stream[q].handle] \in Nat
        BY <2>1, <3>1
      <3>3. QED
        BY <2>2, <3>2
    <2>4. QED
      BY <1>2, <2>1, <2>3 DEF StreamInv, OpenSafe, StaysOpen
  <1>7. ASSUME NEW q \in Objects PROVE FailureSafe(q)'
    BY <1>1 DEF StreamInv, FailureSafe, Running
  <1>8. QED
    BY <1>2, <1>3, <1>5, <1>6, <1>7 DEF StreamInv

-----------------------------------------------------------------------------
(* The steps of the streams *)

\* A call that returns leaves the pool as it is.
LEMMA ReturnPlain ==
    ASSUME SafeInv, NEW o \in Objects, NEW e \in Errors, Return(o, e),
           pc[o] = "idle",
           UNCHANGED <<lock, persistent_list, refs, as_ref_p, is_connected, is_persistent, main>>
    PROVE  SafeInv'
  <1>t. TypeInv
    BY DEF SafeInv
  <1>1. TypeInv'
    BY <1>t DEF TypeInv, TypeOK, ControlInv, StepOK, Return, Steps, Attached
  <1>2. Plain(o)
    BY <1>t DEF Plain, Return, TypeInv, TypeOK
  <1>3. QED
    BY <1>1, <1>2, PlainSafe

LEMMA PoolUnchangedSafe ==
    ASSUME SafeInv, UNCHANGED vars
    PROVE  SafeInv'
  BY StutterSafe

\* A step of one stream that leaves the pool alone.
LEMMA StreamOnly ==
    ASSUME StreamInv, NEW o \in Objects, UNCHANGED vars, NEW s \in Streams \cup {NoStream},
           stream' = [stream EXCEPT ![o] = s],
           s # NoStream =>
              /\ as_ref_p[o] # Null /\ s.handle = as_ref_p[o]
              /\ pc[o] \in {"idle", "close", "reconnect"}
              /\ pc[o] # "idle" => s.at = "callback"
              /\ s.opened /\ ref_host_entry[s.handle] > 0 => cluster[s.handle]
              /\ s.kind = "aggregate" /\ s.failed => s.at = "returned" /\ s.error # "OK"
    PROVE  StreamInv'
  <1>1. SafeInv'
    BY StutterSafe DEF StreamInv
  <1>2. StreamTypeOK'
    BY DEF StreamInv, StreamTypeOK
  <1>3. ASSUME NEW q \in Objects, q # o PROVE stream'[q] = stream[q]
    BY <1>3 DEF StreamInv, StreamTypeOK
  <1>4. stream'[o] = s
    BY DEF StreamInv, StreamTypeOK
  <1>5. ASSUME NEW q \in Objects PROVE StreamSafe(q)' /\ OpenSafe(q)' /\ FailureSafe(q)'
    <2>1. CASE q = o
      BY <1>4, <2>1 DEF StreamSafe, OpenSafe, FailureSafe, Running, vars
    <2>2. CASE q # o
      BY <1>3, <2>2 DEF StreamInv, StreamSafe, OpenSafe, FailureSafe, Running, vars
    <2>3. QED
      BY <2>1, <2>2
  <1>6. QED
    BY <1>1, <1>2, <1>5 DEF StreamInv

LEMMA StreamStepInv ==
    ASSUME StreamInv, NEW o \in Objects, StreamStep(o)
    PROVE  StreamInv'
  <1>t. TypeOK /\ StreamTypeOK
    BY DEF StreamInv, SafeInv, TypeInv
  <1>1. CASE RefuseStream(o)
    <2>1. stream' = stream /\ pc[o] = "idle" /\ \E e \in Errors : Return(o, e)
      BY <1>1 DEF RefuseStream, CanStream, CanCall, Refusals, Errors
    <2>2. SafeInv'
      BY <1>1, <2>1, ReturnPlain DEF RefuseStream, StreamInv
    <2>3. ASSUME NEW q \in Objects
          PROVE  StreamSafe(q)' /\ OpenSafe(q)' /\ FailureSafe(q)'
      <3>1. pc'[q] = pc[q]
        BY <1>t, <2>1 DEF Return, TypeOK
      <3>2. QED
        BY <1>1, <2>1, <3>1 DEF StreamInv, StreamSafe, OpenSafe, FailureSafe, Running, RefuseStream
    <2>4. QED
      BY <1>t, <2>1, <2>2, <2>3 DEF StreamInv, StreamTypeOK
  <1>2. CASE \E kind \in Kinds : StartStream(o, kind)
    <2>1. PICK kind \in Kinds : StartStream(o, kind)
      BY <1>2
    <2> DEFINE s == [kind |-> kind, at |-> "reading", handle |-> as_ref_p[o],
                     opened |-> cluster[as_ref_p[o]], failed |-> FALSE, error |-> "OK"]
    <2>2. as_ref_p[o] \in Refs /\ cluster[as_ref_p[o]] \in BOOLEAN /\ pc[o] = "idle"
      BY <1>t, <2>1 DEF StartStream, TypeOK, CanStream, CanCall
    <2>3. s \in Streams
      BY <2>2 DEF Streams
    <2>4. UNCHANGED vars /\ stream' = [stream EXCEPT ![o] = s] /\ as_ref_p[o] # Null
      BY <2>1 DEF StartStream
    <2>5. QED
      BY <2>2, <2>3, <2>4, StreamOnly
  <1>3. CASE DeliverGood(o) \/ DeliverBad(o) \/ CallbackReturns(o) \/ EndOfRecords(o)
             \/ ClientGivesUp(o)
    <2>1. Running(o) /\ stream[o] \in Streams /\ UNCHANGED vars
          /\ stream[o].at \in {"reading", "callback"} /\ pc[o] = "idle"
      BY <1>3, StreamUp DEF DeliverGood, DeliverBad, CallbackReturns, EndOfRecords, ClientGivesUp,
         StreamInv, StreamSafe
    <2>2. stream[o].kind # "aggregate" \/ ~stream[o].failed
      BY <2>1 DEF StreamInv, FailureSafe
    <2>3. PICK s : /\ s \in Streams
                   /\ stream' = [stream EXCEPT ![o] = s]
                   /\ s.kind = stream[o].kind /\ s.handle = stream[o].handle
                   /\ s.opened = stream[o].opened
                   /\ (s.failed = stream[o].failed
                        \/ (s.kind = "aggregate" => s.at = "returned" /\ s.error # "OK"))
      <3>1. CASE DeliverGood(o)
        <4> DEFINE s == [stream[o] EXCEPT !.at = AfterSuccess(stream[o].kind), !.error = "OK"]
        <4>1. s \in Streams /\ s.kind = stream[o].kind /\ s.handle = stream[o].handle
              /\ s.opened = stream[o].opened /\ s.failed = stream[o].failed
          BY <2>1 DEF Streams, AfterSuccess
        <4>2. stream' = [stream EXCEPT ![o] = s]
          BY <3>1 DEF DeliverGood
        <4>3. QED
          BY <4>1, <4>2
      <3>2. CASE DeliverBad(o)
        <4> DEFINE s == [stream[o] EXCEPT !.at = AfterFailure(stream[o].kind),
                                          !.error = ConversionError, !.failed = TRUE]
        <4>1. s \in Streams /\ s.kind = stream[o].kind /\ s.handle = stream[o].handle
              /\ s.opened = stream[o].opened
              /\ (s.kind = "aggregate" => s.at = "returned" /\ s.error # "OK")
          BY <2>1 DEF Streams, AfterFailure, ConversionError
        <4>2. stream' = [stream EXCEPT ![o] = s]
          BY <3>2 DEF DeliverBad
        <4>3. QED
          BY <4>1, <4>2
      <3>3. CASE CallbackReturns(o)
        <4>1. PICK next \in {"reading", "returned"} : stream' = [stream EXCEPT ![o].at = next]
          BY <3>3 DEF CallbackReturns
        <4> DEFINE s == [stream[o] EXCEPT !.at = next]
        <4>2. s \in Streams /\ s.kind = stream[o].kind /\ s.handle = stream[o].handle
              /\ s.opened = stream[o].opened /\ s.failed = stream[o].failed
          BY <2>1, <4>1 DEF Streams
        <4>3. stream' = [stream EXCEPT ![o] = s]
          BY <4>1
        <4>4. QED
          BY <4>2, <4>3
      <3>4. CASE EndOfRecords(o)
        <4> DEFINE s == [stream[o] EXCEPT !.at = "returned"]
        <4>1. s \in Streams /\ s.kind = stream[o].kind /\ s.handle = stream[o].handle
              /\ s.opened = stream[o].opened /\ s.failed = stream[o].failed
          BY <2>1 DEF Streams
        <4>2. stream' = [stream EXCEPT ![o] = s]
          BY <3>4 DEF EndOfRecords
        <4>3. QED
          BY <4>1, <4>2
      <3>5. CASE ClientGivesUp(o)
        <4> DEFINE s == [stream[o] EXCEPT !.at = "returned", !.error = "CLUSTER"]
        <4>1. s \in Streams /\ s.kind = stream[o].kind /\ s.handle = stream[o].handle
              /\ s.opened = stream[o].opened /\ s.failed = stream[o].failed
          BY <2>1 DEF Streams
        <4>2. stream' = [stream EXCEPT ![o] = s]
          BY <3>5 DEF ClientGivesUp
        <4>3. QED
          BY <4>1, <4>2
      <3>6. QED
        BY <1>3, <3>1, <3>2, <3>3, <3>4, <3>5
    <2>4. s.opened /\ ref_host_entry[s.handle] > 0 => cluster[s.handle]
      BY <2>1, <2>3 DEF StreamInv, OpenSafe
    <2>5. as_ref_p[o] # Null /\ s.handle = as_ref_p[o]
      BY <2>1, <2>3 DEF StreamInv, StreamSafe
    <2>6. s.kind = "aggregate" /\ s.failed => s.at = "returned" /\ s.error # "OK"
      BY <2>2, <2>3
    <2>7. QED
      BY <2>1, <2>3, <2>4, <2>5, <2>6, StreamOnly
  <1>4. CASE CallbackThrows(o)
    BY <1>4, StreamOnly DEF CallbackThrows
  <1>5. CASE StreamReturns(o)
    <2>1. pc[o] = "idle" /\ stream[o].error \in Errors
      BY <1>5, StreamUp DEF StreamReturns, StreamInv, StreamSafe, Streams, ConversionError, Errors
    <2>2. SafeInv'
      BY <1>5, <2>1, ReturnPlain DEF StreamReturns, StreamInv
    <2>3. stream'[o] = NoStream /\ StreamTypeOK'
      BY <1>5, <1>t DEF StreamReturns, StreamTypeOK
    <2>4. ASSUME NEW q \in Objects
          PROVE  StreamSafe(q)' /\ OpenSafe(q)' /\ FailureSafe(q)'
      <3>1. CASE q = o
        BY <2>3, <3>1 DEF StreamSafe, OpenSafe, FailureSafe, Running
      <3>2. CASE q # o
        <4>1. pc'[q] = pc[q] /\ stream'[q] = stream[q]
          BY <1>5, <1>t, <3>2 DEF StreamReturns, Return, TypeOK, StreamTypeOK
        <4>2. QED
          BY <1>5, <4>1 DEF StreamReturns, StreamInv, StreamSafe, OpenSafe, FailureSafe, Running
      <3>3. QED
        BY <3>1, <3>2
    <2>5. QED
      BY <2>2, <2>3, <2>4 DEF StreamInv
  <1>6. QED
    BY <1>1, <1>2, <1>3, <1>4, <1>5 DEF StreamStep

\* moduleShutdown does not run while a stream does.
LEMMA ShutdownStreamInv ==
    ASSUME StreamInv, ShutdownStep \/ Ended, stream' = stream
    PROVE  StreamInv'
  <1>1. SafeInv'
    BY ShutdownSafe, StutterSafe DEF StreamInv, Ended
  <1>2. StreamTypeOK'
    BY DEF StreamInv, StreamTypeOK
  <1>3. ASSUME NEW q \in Objects, Running(q)
        PROVE  UNCHANGED vars
    <2>1. module = "up" /\ as_ref_p[q] # Null
      BY <1>3, StreamUp DEF StreamInv, StreamSafe
    <2>2. QED
      BY <2>1 DEF ShutdownStep, ShutdownStart, ShutdownVisit, ShutdownEnd, Ended
  <1>4. ASSUME NEW q \in Objects PROVE StreamSafe(q)' /\ OpenSafe(q)' /\ FailureSafe(q)'
    <2>1. CASE Running(q)
      BY <1>3, <2>1 DEF StreamInv, StreamSafe, OpenSafe, FailureSafe, Running, vars
    <2>2. CASE ~Running(q)
      BY <2>2 DEF StreamSafe, OpenSafe, FailureSafe, Running
    <2>3. QED
      BY <2>1, <2>2
  <1>5. QED
    BY <1>1, <1>2, <1>4 DEF StreamInv

LEMMA InitStreamInv == StreamInit => StreamInv
  <1> SUFFICES ASSUME StreamInit PROVE StreamInv
    OBVIOUS
  <1>1. SafeInv
    BY InitSafe DEF StreamInit
  <1>2. StreamTypeOK /\ \A o \in Objects : ~Running(o)
    BY DEF StreamInit, StreamTypeOK, Running
  <1>3. QED
    BY <1>1, <1>2 DEF StreamInv, StreamSafe, OpenSafe, FailureSafe

LEMMA NextStreamInv ==
    ASSUME FALSE \notin ReconstructModes, StreamInv, [StreamNext]_allVars
    PROVE  StreamInv'
  <1>1. CASE \E o \in Objects : ScriptStep(o) \/ EndObject(o) \/ StreamStep(o)
    BY <1>1, PoolStreamInv, StreamStepInv
  <1>2. CASE (ShutdownStep \/ Ended) /\ UNCHANGED stream
    BY <1>2, ShutdownStreamInv
  <1>3. CASE UNCHANGED allVars
    <2>1. UNCHANGED vars /\ stream' = stream
      BY <1>3 DEF allVars
    <2>2. SafeInv'
      BY <2>1, StutterSafe DEF StreamInv
    <2>3. QED
      BY <2>1, <2>2 DEF StreamInv, StreamTypeOK, StreamSafe, OpenSafe, FailureSafe, Running, vars
  <1>4. QED
    BY <1>1, <1>2, <1>3 DEF StreamNext

-----------------------------------------------------------------------------
(* Theorems *)

\* The memory that a running scan, query or aggregate works on is not freed under
\* it, by its own callback or by any other request.
THEOREM StreamsUseLiveHandles ==
    ASSUME FALSE \notin ReconstructModes
    PROVE  StreamSpec => []StreamHandleAllocated
  <1>1. StreamInv => StreamHandleAllocated
    BY StreamUp DEF StreamHandleAllocated
  <1>2. StreamInv /\ [StreamNext]_allVars => StreamInv'
    BY NextStreamInv
  <1>3. QED
    BY InitStreamInv, <1>1, <1>2, PTL DEF StreamSpec

\* A stream over a persistent handle keeps its cluster until it returns.
THEOREM SharedStreamsStayOpen ==
    ASSUME FALSE \notin ReconstructModes
    PROVE  StreamSpec => []SharedStreamStaysOpen
  <1>1. StreamInv => SharedStreamStaysOpen
    BY DEF StreamInv, OpenSafe, SharedStreamStaysOpen
  <1>2. StreamInv /\ [StreamNext]_allVars => StreamInv'
    BY NextStreamInv
  <1>3. QED
    BY InitStreamInv, <1>1, <1>2, PTL DEF StreamSpec

\* The step properties behind the two action properties.
ClosesInCallback ==
    \A o \in Objects :
        Running(o) /\ cluster[stream[o].handle] /\ ~cluster'[stream[o].handle]
            => stream[o].at = "callback" /\ ~is_persistent[o]

ReportsFailure ==
    \A o \in Objects :
        Running(o) /\ stream'[o] = NoStream /\ stream[o].kind = "aggregate"
            /\ latest_error'[o] = "OK"
            => ~stream[o].failed

\* The steps that close a cluster are the close and the sweep of a non-persistent
\* object.
LEMMA WhoCloses ==
    ASSUME SafeInv, NEW q \in Objects, PoolStep(q), NEW r \in live, cluster[r], ~cluster'[r]
    PROVE  as_ref_p[q] = r /\ ~is_persistent[q] /\ (CloseStep(q) \/ SweepStep(q))
  <1>t. TypeOK /\ r \in Refs
    BY DEF SafeInv, TypeInv, TypeOK
  <1>1. CASE \E s \in Refs : CreateHostEntry(q, s)
    BY <1>1, <1>t DEF CreateHostEntry, TypeOK
  <1>2. CASE ConnectOK(q) \/ ReconnectPrivate(q)
    BY <1>2, <1>t DEF ConnectOK, ReconnectPrivate, TypeOK
  <1>3. CASE ClosePrivate(q)
    BY <1>3, <1>t DEF ClosePrivate, OwnsHandle, CloseStep, TypeOK
  <1>4. CASE SweepStore(q) \/ SweepDisconnected(q)
    BY <1>4, <1>t DEF SweepStore, SweepDisconnected, SweepHandle, Release, SweepStep, TypeOK
  <1>5. CASE UNCHANGED cluster
    BY <1>5
  <1>6. QED
    BY <1>1, <1>2, <1>3, <1>4, <1>5 DEF PoolStep, ConstructStep, Construct, ConstructBadConfig,
       ConstructAgain, ScanLock, ScanHit, ScanMiss, MatchStore, CreateFails, Publish,
       AddHostEntry, CheckFirst, CheckShared, ConnectFails, UndoLoad, UndoStore, LockAndLoad,
       CloseStep, CloseRefused, ClosePersistent, CloseStore, ReconnectStep,
       ReconnectRefused, ReconnectPersistent, ReconnectStore, SweepStep, SweepConnected

LEMMA NextClosesInCallback ==
    ASSUME StreamInv, [StreamNext]_allVars
    PROVE  [ClosesInCallback]_allVars
  <1> SUFFICES ASSUME NEW o \in Objects, Running(o), cluster[stream[o].handle],
                      ~cluster'[stream[o].handle]
               PROVE  stream[o].at = "callback" /\ ~is_persistent[o]
    BY DEF ClosesInCallback
  <1> DEFINE r == stream[o].handle
  <1>1. module = "up" /\ r \in live /\ r = as_ref_p[o] /\ r \in Refs /\ as_ref_p[o] # Null
    BY StreamUp DEF StreamInv, StreamSafe
  <1>2. PICK q \in Objects : ScriptStep(q) \/ EndObject(q)
    <2>1. cluster' # cluster
      OBVIOUS
    <2>2. ~(ShutdownStep \/ Ended)
      BY <1>1, <2>1 DEF ShutdownStep, ShutdownStart, ShutdownVisit, ShutdownEnd, Ended, vars
    <2>3. \A q \in Objects : ~StreamStep(q)
      BY <2>1 DEF StreamStep, RefuseStream, StartStream, DeliverGood, DeliverBad, CallbackReturns,
         CallbackThrows, EndOfRecords, ClientGivesUp, StreamReturns, vars
    <2>4. QED
      BY <2>1, <2>2, <2>3 DEF StreamNext, allVars, vars
  <1>3. PoolStep(q)
    BY <1>2 DEF ScriptStep, EndObject, PoolStep
  <1>4. as_ref_p[q] = r /\ ~is_persistent[q] /\ (CloseStep(q) \/ SweepStep(q))
    BY <1>1, <1>3, WhoCloses DEF StreamInv
  <1>5. q = o
    <2>1. ref_host_entry[as_ref_p[q]] = 0
      BY <1>1, <1>4, PrivateHandle DEF StreamInv
    <2>2. QED
      BY <1>1, <1>4, <2>1 DEF StreamInv, SafeInv, PairSafe
  <1>6. QED
    BY <1>2, <1>4, <1>5 DEF ScriptStep, EndObject, InScript

LEMMA NextReportsFailure ==
    ASSUME StreamInv, [StreamNext]_allVars
    PROVE  [ReportsFailure]_allVars
  <1> SUFFICES ASSUME NEW o \in Objects, Running(o), stream'[o] = NoStream,
                      stream[o].kind = "aggregate", latest_error'[o] = "OK", stream[o].failed
               PROVE  FALSE
    BY DEF ReportsFailure
  <1>t. TypeOK /\ StreamTypeOK
    BY DEF StreamInv, SafeInv, TypeInv
  <1>1. stream[o].at = "returned" /\ stream[o].error # "OK" /\ stream[o] \in Streams
    BY StreamUp DEF StreamInv, FailureSafe
  <1>2. stream'[o] # stream[o]
    BY DEF Running
  <1>3. PICK q \in Objects : StreamStep(q)
    BY <1>2 DEF StreamNext, ScriptStep, EndObject, allVars
  <1>4. q = o
    BY <1>2, <1>3, <1>t DEF StreamStep, RefuseStream, StartStream, DeliverGood, DeliverBad,
       CallbackReturns, CallbackThrows, EndOfRecords, ClientGivesUp, StreamReturns, StreamTypeOK
  <1>5. StreamReturns(o)
    BY <1>1, <1>2, <1>3, <1>4 DEF StreamStep, RefuseStream, StartStream, CanStream, DeliverGood,
       DeliverBad, CallbackReturns, CallbackThrows, EndOfRecords, ClientGivesUp
  <1>6. latest_error'[o] = stream[o].error
    BY <1>5, <1>t DEF StreamReturns, Return, TypeOK
  <1>7. QED
    BY <1>1, <1>6

\* A handle is closed under a running stream only by a close that its own callback
\* makes on a non-persistent object.
THEOREM ClosedOnlyInCallback ==
    ASSUME FALSE \notin ReconstructModes
    PROVE  StreamSpec => OnlyCallbackCloses
  <1>1. StreamInv /\ [StreamNext]_allVars => StreamInv'
    BY NextStreamInv
  <1>2. StreamInv /\ [StreamNext]_allVars => [ClosesInCallback]_allVars
    BY NextClosesInCallback
  <1>3. QED
    BY InitStreamInv, <1>1, <1>2, PTL DEF StreamSpec, OnlyCallbackCloses, ClosesInCallback

\* aggregate never reports success over a value it could not convert.
THEOREM AggregateFailuresReported ==
    ASSUME FALSE \notin ReconstructModes
    PROVE  StreamSpec => AggregateReportsFailure
  <1>1. StreamInv /\ [StreamNext]_allVars => StreamInv'
    BY NextStreamInv
  <1>2. StreamInv /\ [StreamNext]_allVars => [ReportsFailure]_allVars
    BY NextReportsFailure
  <1>3. QED
    BY InitStreamInv, <1>1, <1>2, PTL DEF StreamSpec, AggregateReportsFailure, ReportsFailure
=============================================================================
