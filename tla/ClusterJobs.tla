---------------------------- MODULE ClusterJobs -----------------------------
(***************************************************************************)
(* The calls that start work in the whole cluster: UDF modules (main/      *)
(* udf_operations.cpp and register, deregister, getRegistered,             *)
(* listRegistered and apply of main/ext_aerospike.cpp), secondary indexes  *)
(* (addIndex, dropIndex) and background scans (scanApply, scanInfo).       *)
(*                                                                         *)
(* The cluster (external) accepts such a request and carries it out later, *)
(* node by node.  register and scanApply wait for the end, by the name of  *)
(* the module and the id of the scan; addIndex does not.  Other requests   *)
(* register, remove and apply modules meanwhile.                           *)
(***************************************************************************)
EXTENDS Naturals

CONSTANTS
    Requests,    \* requests of HHVM worker threads
    Uses,        \* request -> the methods that it calls
    Nodes,       \* nodes of the cluster
    Modules,     \* names of UDF modules
    Files,       \* Lua files, each with its contents
    Scans,       \* ids of background scans (bound on scans started)
    BadName,     \* a module argument that is empty or no string
    Freed,       \* contents of no file: what the allocator leaves in a freed buffer
    None

Methods == {"register", "deregister", "getRegistered", "listRegistered", "apply",
            "addIndex", "dropIndex", "scanApply", "scanInfo"}

ASSUME UsesAssumption == Uses \in [Requests -> SUBSET Methods]

ASSUME NamesAssumption ==
    /\ BadName \notin Modules
    /\ None \notin Files /\ Freed \notin Files /\ Freed # None
    /\ None \notin Scans

Contents == Files \cup {Freed}

VARIABLES
    wanted,    \* module -> what the cluster has accepted for it (external)
    modules,   \* node -> module -> the code that the node has (external)
    index,     \* the cluster has accepted the secondary index (external)
    scans,     \* scan -> its status in the cluster (external)
    lua,       \* file -> the copy of it under lua.user_path
    call,      \* request -> the call that is waiting, or the last one and latest_error
    out,       \* request -> the variables passed by reference
    assured,   \* modules that a successful register vouches for (history)
    clean      \* requests in register whose module nobody has removed (history)

vars == <<wanted, modules, index, scans, lua, call, out, assured, clean>>

cluster == <<wanted, modules, index, scans>>

Status == {"OK", "ERR_PARAM", "ERR_CLIENT", "ERR_UDF_NOT_FOUND"}

NoOut == [code |-> None, list |-> {}, id |-> None, info |-> "none"]

NoCall == [pc |-> "idle", method |-> "none", arg |-> None, error |-> "OK"]

Init ==
    /\ wanted = [m \in Modules |-> None]
    /\ modules = [n \in Nodes |-> [m \in Modules |-> None]]
    /\ index = FALSE
    /\ scans = [s \in Scans |-> "none"]
    /\ lua = [f \in Files |-> None]
    /\ call = [r \in Requests |-> NoCall]
    /\ out = [r \in Requests |-> NoOut]
    /\ assured = {}
    /\ clean = {}

-----------------------------------------------------------------------------
Idle(r) == call[r].pc = "idle"

CanCall(r, method) == Idle(r) /\ method \in Uses[r]

\* The call returns; setError records its error.  What apply and scanApply have
\* returned is kept until the next call, of the others the properties do not ask.
Return(r, method, arg, code) ==
    call' = [call EXCEPT ![r] =
               IF method \in {"apply", "scanApply"}
               THEN [pc |-> "idle", method |-> method, arg |-> arg, error |-> code]
               ELSE NoCall]

Wait(r, method, arg) ==
    call' = [call EXCEPT ![r] = [pc |-> "wait", method |-> method, arg |-> arg,
                                 error |-> "OK"]]

\* The handle, the options or the arguments are refused, or a question to the
\* cluster is not answered.  getRegistered empties its variable in the last cases.
Refuse(r, method) ==
    /\ CanCall(r, method)
    /\ Return(r, method, None, "ERR_PARAM")
    /\ \/ UNCHANGED out
       \/ method = "getRegistered" /\ out' = [out EXCEPT ![r].code = None]
    /\ UNCHANGED <<cluster, lua, assured, clean>>

\* Two calls use what nobody has initialised: addIndex waits for its task when the
\* cluster has refused the index, and register destroys the contents of a file
\* that it could not read.  The process goes on (AddIndexFails, RegisterUnreadable)
\* or ends, and with it every call; another process starts anew.
Crash(r) ==
    /\ CanCall(r, "addIndex") \/ CanCall(r, "register")
    /\ call' = [q \in Requests |-> NoCall]
    /\ out' = [q \in Requests |-> NoOut]
    /\ clean' = {}
    /\ UNCHANGED <<cluster, lua, assured>>

-----------------------------------------------------------------------------
(* UDF modules *)

\* read_udf_file_contents frees the buffer that udf_content wraps: what is sent,
\* and later copied, is the file or what the allocator has left of it.
Sent(file) == {file, Freed}

\* The file cannot be read.
RegisterUnreadable(r, m) ==
    /\ CanCall(r, "register")
    /\ Return(r, "register", m, "ERR_UDF_NOT_FOUND")
    /\ UNCHANGED <<cluster, lua, out, assured, clean>>

\* aerospike_udf_put is accepted.
RegisterPut(r, m, file) ==
    /\ CanCall(r, "register")
    /\ \E c \in Sent(file) : wanted' = [wanted EXCEPT ![m] = c]
    /\ Wait(r, "register", [module |-> m, file |-> file])
    /\ clean' = clean \cup {r}
    /\ UNCHANGED <<modules, index, scans, lua, out, assured>>

\* It is not, or its answer is lost; the file is copied to the user's Lua path all
\* the same.
RegisterFails(r, m, file) ==
    /\ CanCall(r, "register")
    /\ Return(r, "register", m, "ERR_CLIENT")
    /\ \E c \in Sent(file) \cup {wanted[m]} : wanted' = [wanted EXCEPT ![m] = c]
    /\ \E c \in Sent(file) \cup {lua[file]} : lua' = [lua EXCEPT ![file] = c]
    /\ UNCHANGED <<modules, index, scans, out, assured, clean>>

Registering(r) == call[r].pc = "wait" /\ call[r].method = "register"

\* aerospike_udf_put_wait returns when every node lists the name, whatever the
\* code.  Mutant: register does not wait.
OnEveryNodeUnasked(m) == m \in Modules
OnEveryNode(m) == \A n \in Nodes : modules[n][m] # None

\* The copy may fail, or not be made because the path is the default one.
FinishRegister(r, code) ==
    LET file == call[r].arg.file IN
    /\ Return(r, "register", call[r].arg.module, code)
    /\ \E c \in Sent(file) \cup {lua[file]} : lua' = [lua EXCEPT ![file] = c]
    /\ clean' = clean \ {r}
    /\ UNCHANGED <<cluster, out>>

RegisterWaited(r) ==
    /\ Registering(r)
    /\ OnEveryNode(call[r].arg.module)
    /\ FinishRegister(r, "OK")
    /\ assured' = IF r \in clean THEN assured \cup {call[r].arg.module} ELSE assured

RegisterWaitFails(r) ==
    /\ Registering(r)
    /\ FinishRegister(r, "ERR_CLIENT")
    /\ UNCHANGED assured

\* aerospike_udf_remove: accepted or not, and its answer may be lost.
Deregister(r, m) ==
    /\ CanCall(r, "deregister")
    /\ \E code \in {"OK", "ERR_CLIENT"} : Return(r, "deregister", m, code)
    /\ wanted' = [wanted EXCEPT ![m] = None]
    /\ assured' = assured \ {m}
    /\ clean' = {q \in clean : call[q].arg.module # m}
    /\ UNCHANGED <<modules, index, scans, lua, out>>

DeregisterFails(r, m) ==
    /\ CanCall(r, "deregister")
    /\ Return(r, "deregister", m, "ERR_CLIENT")
    /\ UNCHANGED <<cluster, lua, out, assured, clean>>

\* The code is copied into the variable, or the variable is emptied.
GetRegistered(r, m) ==
    /\ CanCall(r, "getRegistered")
    /\ \E n \in Nodes :
        /\ Return(r, "getRegistered", m,
                  IF modules[n][m] = None THEN "ERR_UDF_NOT_FOUND" ELSE "OK")
        /\ out' = [out EXCEPT ![r].code = modules[n][m]]
    /\ UNCHANGED <<cluster, lua, assured, clean>>

ListRegistered(r) ==
    /\ CanCall(r, "listRegistered")
    /\ Return(r, "listRegistered", None, "OK")
    /\ \E n \in Nodes :
        out' = [out EXCEPT ![r].list = {m \in Modules : modules[n][m] # None}]
    /\ UNCHANGED <<cluster, lua, assured, clean>>

\* aerospike_udf_apply sends the call also with names that it has found to be bad.
\* The record's node answers.  What the function returns is left out.
Apply(r, m) ==
    /\ CanCall(r, "apply")
    /\ \E n \in Nodes :
        IF m = BadName \/ (m \in Modules /\ modules[n][m] = None)
        THEN Return(r, "apply", m, "ERR_UDF_NOT_FOUND")
        ELSE \E code \in {"OK", "ERR_CLIENT"} : Return(r, "apply", m, code)
    /\ UNCHANGED <<cluster, lua, out, assured, clean>>

-----------------------------------------------------------------------------
(* Indexes *)

\* aerospike_index_create_complex is accepted: the call returns at once, and the
\* nodes build the index later.
AddIndex(r) ==
    /\ CanCall(r, "addIndex")
    /\ Return(r, "addIndex", None, "OK")
    /\ index' = TRUE
    /\ UNCHANGED <<wanted, modules, scans, lua, out, assured, clean>>

\* It fails: addIndex waits on a task that nobody has initialised.
AddIndexFails(r) ==
    /\ CanCall(r, "addIndex")
    /\ Return(r, "addIndex", None, "ERR_CLIENT")
    /\ UNCHANGED <<cluster, lua, out, assured, clean>>

DropIndex(r) ==
    /\ CanCall(r, "dropIndex")
    /\ \/ Return(r, "dropIndex", None, "OK") /\ index' = FALSE
       \/ Return(r, "dropIndex", None, "ERR_CLIENT") /\ UNCHANGED index
    /\ UNCHANGED <<wanted, modules, scans, lua, out, assured, clean>>

-----------------------------------------------------------------------------
(* Background scans *)

\* Mutant: the id is assigned when the wait has succeeded.
IdAtStartLate(before, s) == before
\* scan_id is assigned as soon as the scan has started.
IdAtStart(before, s) == s

\* aerospike_scan_background is accepted.
ScanApply(r, s) ==
    /\ CanCall(r, "scanApply")
    /\ scans[s] = "none"
    /\ scans' = [scans EXCEPT ![s] = "running"]
    /\ out' = [out EXCEPT ![r].id = IdAtStart(out[r].id, s)]
    /\ Wait(r, "scanApply", s)
    /\ UNCHANGED <<wanted, modules, index, lua, assured, clean>>

\* It fails, or its answer is lost: the variable is left alone.
ScanApplyFails(r, s) ==
    /\ CanCall(r, "scanApply")
    /\ scans[s] = "none"
    /\ \E status \in {"none", "running"} : scans' = [scans EXCEPT ![s] = status]
    /\ Return(r, "scanApply", None, "ERR_CLIENT")
    /\ UNCHANGED <<wanted, modules, index, lua, out, assured, clean>>

Scanning(r) == call[r].pc = "wait" /\ call[r].method = "scanApply"

\* aerospike_scan_wait
ScanWaited(r) ==
    /\ Scanning(r)
    /\ scans[call[r].arg] = "done"
    /\ Return(r, "scanApply", call[r].arg, "OK")
    /\ UNCHANGED <<cluster, lua, out, assured, clean>>

ScanWaitFails(r) ==
    /\ Scanning(r)
    /\ Return(r, "scanApply", call[r].arg, "ERR_CLIENT")
    /\ UNCHANGED <<cluster, lua, out, assured, clean>>

\* scanInfo of the id that the script has; NULL asks for the id 0.
ScanInfo(r) ==
    /\ CanCall(r, "scanInfo")
    /\ Return(r, "scanInfo", out[r].id, "OK")
    /\ out' = [out EXCEPT ![r].info =
                           IF out[r].id = None THEN "none" ELSE scans[out[r].id]]
    /\ UNCHANGED <<cluster, lua, assured, clean>>

-----------------------------------------------------------------------------
(* The cluster (external) *)

Propagate(n, m) ==
    /\ modules' = [modules EXCEPT ![n][m] = wanted[m]]
    /\ UNCHANGED <<wanted, index, scans, lua, call, out, assured, clean>>

ScanEnds(s) ==
    /\ scans[s] = "running"
    /\ scans' = [scans EXCEPT ![s] = "done"]
    /\ UNCHANGED <<wanted, modules, index, lua, call, out, assured, clean>>

UdfCall(r, m) ==
    \/ RegisterUnreadable(r, m) \/ Deregister(r, m) \/ DeregisterFails(r, m)
    \/ GetRegistered(r, m)
    \/ \E file \in Files : RegisterPut(r, m, file) \/ RegisterFails(r, m, file)

RequestStep(r) ==
    \/ \E method \in Uses[r] : Refuse(r, method)
    \/ Crash(r)
    \/ RegisterWaited(r) \/ RegisterWaitFails(r) \/ ListRegistered(r)
    \/ \E m \in Modules : UdfCall(r, m)
    \/ \E m \in Modules \cup {BadName} : Apply(r, m)
    \/ AddIndex(r) \/ AddIndexFails(r) \/ DropIndex(r)
    \/ \E s \in Scans : ScanApply(r, s) \/ ScanApplyFails(r, s)
    \/ ScanWaited(r) \/ ScanWaitFails(r) \/ ScanInfo(r)

ClusterStep ==
    \/ \E n \in Nodes, m \in Modules : Propagate(n, m)
    \/ \E s \in Scans : ScanEnds(s)

Next == ClusterStep \/ \E r \in Requests : RequestStep(r)

Spec == Init /\ [][Next]_vars

-----------------------------------------------------------------------------
(* Properties *)

\* The variables hold what they are for; a waiting call knows its job.
TypeOK ==
    /\ wanted \in [Modules -> Contents \cup {None}]
    /\ modules \in [Nodes -> [Modules -> Contents \cup {None}]]
    /\ index \in BOOLEAN
    /\ scans \in [Scans -> {"none", "running", "done"}]
    /\ lua \in [Files -> Contents \cup {None}]
    /\ DOMAIN call = Requests
    /\ \A r \in Requests :
        /\ call[r].error \in Status
        /\ Registering(r) => call[r].arg \in [module : Modules, file : Files]
        /\ Scanning(r) => call[r].arg \in Scans
    /\ out \in [Requests -> [code : Contents \cup {None}, list : SUBSET Modules,
                            id : Scans \cup {None}, info : {"none", "running", "done"}]]
    /\ assured \subseteq Modules
    /\ clean \subseteq Requests

\* A module is usable once register has returned OK: no apply, of any request and
\* on whatever node its record is, finds the module missing unless someone has
\* asked for its removal after the register began.
RegisteredIsFound ==
    [][\A r \in Requests :
        call'[r] # call[r] /\ call'[r].method = "apply" /\ call'[r].arg \in assured
            => call'[r].error # "ERR_UDF_NOT_FOUND"]_vars

\* scanApply returns OK only when the scan has ended in the whole cluster, and
\* whenever scan_background has returned OK, also if waiting for the scan failed,
\* the script has the id that scanInfo needs.
ScanApplyHonest ==
    \A r \in Requests : Idle(r) /\ call[r].method = "scanApply" =>
        /\ call[r].error = "OK" => call[r].arg # None /\ scans[call[r].arg] = "done"
        /\ call[r].arg # None => out[r].id = call[r].arg
=============================================================================
