------------------------- MODULE ClusterJobsProofs --------------------------
(***************************************************************************)
(* RegisteredIsFound and ScanApplyHonest for any number of requests,       *)
(* nodes, modules, files and scans.                                        *)
(*                                                                         *)
(* RegisteredIsFound rests on UdfInv: while a register waits and nobody    *)
(* has asked for the removal of its module, the cluster wants the module,  *)
(* so that no propagation can take it off a node that has it; a register   *)
(* that sees it on every node therefore sees what stays.  ScanApplyHonest  *)
(* rests on ScanInv: from the start of the scan until scanApply returns    *)
(* the variable of the script holds its id, and a scan that is done stays  *)
(* so.                                                                     *)
(***************************************************************************)
EXTENDS ClusterJobs, TLAPS

UdfInv ==
    /\ \A q \in clean : Registering(q) /\ wanted[call[q].arg.module] # None
    /\ \A m \in assured : wanted[m] # None /\ \A n \in Nodes : modules[n][m] # None

ScanInv ==
    /\ \A r \in Requests : Scanning(r) => out[r].id = call[r].arg
    /\ \A r \in Requests :
        Idle(r) /\ call[r].method = "scanApply" => call[r].arg \in Scans \cup {None}
    /\ ScanApplyHonest

JobsInv == TypeOK /\ UdfInv /\ ScanInv

-----------------------------------------------------------------------------
(* Lemmas *)

\* Nothing runs, and nothing is vouched for, at the start.
LEMMA JobsStart == Init => JobsInv
  <1> SUFFICES ASSUME Init PROVE JobsInv
    OBVIOUS
  <1>1. TypeOK
    BY DEF Init, TypeOK, NoCall, NoOut, Status, Contents, Registering, Scanning
  <1>2. UdfInv
    BY DEF Init, UdfInv
  <1>3. ScanInv
    BY DEF Init, ScanInv, ScanApplyHonest, NoCall, Scanning, Idle
  <1> QED BY <1>1, <1>2, <1>3 DEF JobsInv

\* A refused call changes no job.
LEMMA RefuseKeeps ==
    ASSUME NEW r \in Requests, NEW method, JobsInv, Refuse(r, method)
    PROVE  JobsInv'
  <1>1. TypeOK'
    <2> DEFINE O == [code : Contents \cup {None}, list : SUBSET Modules,
                    id : Scans \cup {None}, info : {"none", "running", "done"}]
    <2>1. out' \in [Requests -> O]
      <3>1. out \in [Requests -> O]
        BY DEF JobsInv, TypeOK
      <3>2. ASSUME NEW o \in O PROVE [o EXCEPT !.code = None] \in O
        BY <3>2
      <3> HIDE DEF O
      <3> QED BY <3>1, <3>2 DEF Refuse, Return, cluster, CanCall, NoCall
    <2>2. /\ wanted' \in [Modules -> Contents \cup {None}]
          /\ modules' \in [Nodes -> [Modules -> Contents \cup {None}]]
          /\ index' \in BOOLEAN
          /\ scans' \in [Scans -> {"none", "running", "done"}]
          /\ lua' \in [Files -> Contents \cup {None}]
          /\ assured' \subseteq Modules
          /\ clean' \subseteq Requests
      BY DEF JobsInv, TypeOK, Refuse, Return, cluster, CanCall, NoCall
    <2>3. DOMAIN call' = Requests
      BY DEF JobsInv, TypeOK, Refuse, Return, cluster, CanCall, NoCall
    <2>4. ASSUME NEW q \in Requests
          PROVE  /\ call'[q].error \in Status
                 /\ Registering(q)' => call'[q].arg \in [module : Modules, file : Files]
                 /\ Scanning(q)' => call'[q].arg \in Scans
      BY NamesAssumption, <2>4 DEF JobsInv, TypeOK, Status, Registering, Scanning, Refuse,
         Return, cluster, CanCall, NoCall
    <2> QED BY <2>1, <2>2, <2>3, <2>4 DEF TypeOK
  <1>2. UdfInv'
    BY NamesAssumption DEF JobsInv, UdfInv, TypeOK, Registering, Idle, Refuse, Return,
       cluster, CanCall, NoCall
  <1>3. ScanInv'
    BY NamesAssumption DEF JobsInv, ScanInv, ScanApplyHonest, TypeOK, Scanning, Idle,
       Registering, Refuse, Return, cluster, CanCall, NoCall
  <1> QED BY <1>1, <1>2, <1>3 DEF JobsInv

\* A crash ends every call and leaves the cluster alone.
LEMMA CrashKeeps ==
    ASSUME NEW r \in Requests, JobsInv, Crash(r)
    PROVE  JobsInv'
  <1>1. TypeOK'
    BY NamesAssumption DEF JobsInv, TypeOK, Status, Contents, Registering, Scanning, Idle,
       Crash, cluster, CanCall, NoCall, NoOut
  <1>2. UdfInv'
    BY NamesAssumption DEF JobsInv, UdfInv, TypeOK, Registering, Idle, Crash, cluster,
       CanCall, NoCall, NoOut
  <1>3. ScanInv'
    BY NamesAssumption DEF JobsInv, ScanInv, ScanApplyHonest, TypeOK, Scanning, Idle,
       Registering, Crash, cluster, CanCall, NoCall, NoOut
  <1> QED BY <1>1, <1>2, <1>3 DEF JobsInv

\* Without a file nothing is registered.
LEMMA RegisterUnreadableKeeps ==
    ASSUME NEW r \in Requests, NEW m \in Modules, JobsInv, RegisterUnreadable(r, m)
    PROVE  JobsInv'
  <1>1. TypeOK'
    BY NamesAssumption DEF JobsInv, TypeOK, Status, Contents, Registering, Scanning, Idle,
       RegisterUnreadable, Return, cluster, CanCall, NoCall
  <1>2. UdfInv'
    BY NamesAssumption DEF JobsInv, UdfInv, TypeOK, Registering, Idle, RegisterUnreadable,
       Return, cluster, CanCall, NoCall
  <1>3. ScanInv'
    BY NamesAssumption DEF JobsInv, ScanInv, ScanApplyHonest, TypeOK, Scanning, Idle,
       Registering, RegisterUnreadable, Return, cluster, CanCall, NoCall
  <1> QED BY <1>1, <1>2, <1>3 DEF JobsInv

\* Once accepted the module is wanted.
LEMMA RegisterPutKeeps ==
    ASSUME NEW r \in Requests, NEW m \in Modules, NEW file \in Files, JobsInv, RegisterPut(r, m, file)
    PROVE  JobsInv'
  <1>1. TypeOK'
    BY NamesAssumption DEF JobsInv, TypeOK, Status, Contents, Registering, Scanning, Idle,
       RegisterPut, Wait, CanCall, Sent
  <1>2. UdfInv'
    BY NamesAssumption DEF JobsInv, UdfInv, TypeOK, Registering, Idle, RegisterPut, Wait,
       CanCall, Sent
  <1>3. ScanInv'
    BY NamesAssumption DEF JobsInv, ScanInv, ScanApplyHonest, TypeOK, Scanning, Idle,
       Registering, RegisterPut, Wait, CanCall, Sent
  <1> QED BY <1>1, <1>2, <1>3 DEF JobsInv

\* A failed register may change the code that is wanted, never remove it.
LEMMA RegisterFailsKeeps ==
    ASSUME NEW r \in Requests, NEW m \in Modules, NEW file \in Files, JobsInv, RegisterFails(r, m, file)
    PROVE  JobsInv'
  <1>1. TypeOK'
    BY NamesAssumption DEF JobsInv, TypeOK, Status, Contents, Registering, Scanning, Idle,
       RegisterFails, Return, CanCall, NoCall, Sent
  <1>2. UdfInv'
    BY NamesAssumption DEF JobsInv, UdfInv, TypeOK, Registering, Idle, RegisterFails,
       Return, CanCall, NoCall, Sent
  <1>3. ScanInv'
    BY NamesAssumption DEF JobsInv, ScanInv, ScanApplyHonest, TypeOK, Scanning, Idle,
       Registering, RegisterFails, Return, CanCall, NoCall, Sent
  <1> QED BY <1>1, <1>2, <1>3 DEF JobsInv

\* A module that is wanted and on every node can be vouched for.
LEMMA RegisterWaitedKeeps ==
    ASSUME NEW r \in Requests, JobsInv, RegisterWaited(r)
    PROVE  JobsInv'
  <1>1. TypeOK'
    BY NamesAssumption DEF JobsInv, TypeOK, Status, Contents, Registering, Scanning, Idle,
       RegisterWaited, Return, cluster, NoCall, FinishRegister, OnEveryNode, Sent
  <1>2. UdfInv'
    BY NamesAssumption DEF JobsInv, UdfInv, TypeOK, Registering, Idle, RegisterWaited,
       Return, cluster, NoCall, FinishRegister, OnEveryNode, Sent
  <1>3. ScanInv'
    BY NamesAssumption DEF JobsInv, ScanInv, ScanApplyHonest, TypeOK, Scanning, Idle,
       Registering, RegisterWaited, Return, cluster, NoCall, FinishRegister, OnEveryNode,
       Sent
  <1> QED BY <1>1, <1>2, <1>3 DEF JobsInv

\* A failed wait vouches for nothing.
LEMMA RegisterWaitFailsKeeps ==
    ASSUME NEW r \in Requests, JobsInv, RegisterWaitFails(r)
    PROVE  JobsInv'
  <1>1. TypeOK'
    BY NamesAssumption DEF JobsInv, TypeOK, Status, Contents, Registering, Scanning, Idle,
       RegisterWaitFails, Return, cluster, NoCall, FinishRegister, Sent
  <1>2. UdfInv'
    BY NamesAssumption DEF JobsInv, UdfInv, TypeOK, Registering, Idle, RegisterWaitFails,
       Return, cluster, NoCall, FinishRegister, Sent
  <1>3. ScanInv'
    BY NamesAssumption DEF JobsInv, ScanInv, ScanApplyHonest, TypeOK, Scanning, Idle,
       Registering, RegisterWaitFails, Return, cluster, NoCall, FinishRegister, Sent
  <1> QED BY <1>1, <1>2, <1>3 DEF JobsInv

\* A removal withdraws every promise about the module.
LEMMA DeregisterKeeps ==
    ASSUME NEW r \in Requests, NEW m \in Modules, JobsInv, Deregister(r, m)
    PROVE  JobsInv'
  <1>1. TypeOK'
    BY NamesAssumption DEF JobsInv, TypeOK, Status, Contents, Registering, Scanning, Idle,
       Deregister, Return, CanCall, NoCall
  <1>2. UdfInv'
    BY NamesAssumption DEF JobsInv, UdfInv, TypeOK, Registering, Idle, Deregister, Return,
       CanCall, NoCall
  <1>3. ScanInv'
    BY NamesAssumption DEF JobsInv, ScanInv, ScanApplyHonest, TypeOK, Scanning, Idle,
       Registering, Deregister, Return, CanCall, NoCall
  <1> QED BY <1>1, <1>2, <1>3 DEF JobsInv

\* A refused removal removes nothing.
LEMMA DeregisterFailsKeeps ==
    ASSUME NEW r \in Requests, NEW m \in Modules, JobsInv, DeregisterFails(r, m)
    PROVE  JobsInv'
  <1>1. TypeOK'
    BY NamesAssumption DEF JobsInv, TypeOK, Status, Contents, Registering, Scanning, Idle,
       DeregisterFails, Return, cluster, CanCall, NoCall
  <1>2. UdfInv'
    BY NamesAssumption DEF JobsInv, UdfInv, TypeOK, Registering, Idle, DeregisterFails,
       Return, cluster, CanCall, NoCall
  <1>3. ScanInv'
    BY NamesAssumption DEF JobsInv, ScanInv, ScanApplyHonest, TypeOK, Scanning, Idle,
       Registering, DeregisterFails, Return, cluster, CanCall, NoCall
  <1> QED BY <1>1, <1>2, <1>3 DEF JobsInv

\* getRegistered only reads.
LEMMA GetRegisteredKeeps ==
    ASSUME NEW r \in Requests, NEW m \in Modules, JobsInv, GetRegistered(r, m)
    PROVE  JobsInv'
  <1>1. TypeOK'
    BY NamesAssumption, SMTT(40) DEF JobsInv, TypeOK, Status, Contents, Registering, Scanning, Idle,
       GetRegistered, Return, cluster, CanCall, NoCall
  <1>2. UdfInv'
    BY NamesAssumption DEF JobsInv, UdfInv, TypeOK, Registering, Idle, GetRegistered,
       Return, cluster, CanCall, NoCall
  <1>3. ScanInv'
    BY NamesAssumption DEF JobsInv, ScanInv, ScanApplyHonest, TypeOK, Scanning, Idle,
       Registering, GetRegistered, Return, cluster, CanCall, NoCall
  <1> QED BY <1>1, <1>2, <1>3 DEF JobsInv

\* listRegistered only reads.
LEMMA ListRegisteredKeeps ==
    ASSUME NEW r \in Requests, JobsInv, ListRegistered(r)
    PROVE  JobsInv'
  <1>1. TypeOK'
    <2> DEFINE O == [code : Contents \cup {None}, list : SUBSET Modules,
                    id : Scans \cup {None}, info : {"none", "running", "done"}]
    <2>1. out' \in [Requests -> O]
      <3>1. out \in [Requests -> O]
        BY DEF JobsInv, TypeOK
      <3>2. ASSUME NEW o \in O, NEW l \in SUBSET Modules PROVE [o EXCEPT !.list = l] \in O
        BY <3>2
      <3> HIDE DEF O
      <3> QED BY <3>1, <3>2 DEF ListRegistered, Return, cluster, CanCall, NoCall
    <2>2. /\ wanted' \in [Modules -> Contents \cup {None}]
          /\ modules' \in [Nodes -> [Modules -> Contents \cup {None}]]
          /\ index' \in BOOLEAN
          /\ scans' \in [Scans -> {"none", "running", "done"}]
          /\ lua' \in [Files -> Contents \cup {None}]
          /\ assured' \subseteq Modules
          /\ clean' \subseteq Requests
      BY DEF JobsInv, TypeOK, ListRegistered, Return, cluster, CanCall, NoCall
    <2>3. DOMAIN call' = Requests
      BY DEF JobsInv, TypeOK, ListRegistered, Return, cluster, CanCall, NoCall
    <2>4. ASSUME NEW q \in Requests
          PROVE  /\ call'[q].error \in Status
                 /\ Registering(q)' => call'[q].arg \in [module : Modules, file : Files]
                 /\ Scanning(q)' => call'[q].arg \in Scans
      BY NamesAssumption, <2>4 DEF JobsInv, TypeOK, Status, Registering, Scanning,
         ListRegistered, Return, cluster, CanCall, NoCall
    <2> QED BY <2>1, <2>2, <2>3, <2>4 DEF TypeOK
  <1>2. UdfInv'
    BY NamesAssumption DEF JobsInv, UdfInv, TypeOK, Registering, Idle, ListRegistered,
       Return, cluster, CanCall, NoCall
  <1>3. ScanInv'
    BY NamesAssumption DEF JobsInv, ScanInv, ScanApplyHonest, TypeOK, Scanning, Idle,
       Registering, ListRegistered, Return, cluster, CanCall, NoCall
  <1> QED BY <1>1, <1>2, <1>3 DEF JobsInv

\* apply changes no job.
LEMMA ApplyKeeps ==
    ASSUME NEW r \in Requests, NEW m \in Modules \cup {BadName}, JobsInv, Apply(r, m)
    PROVE  JobsInv'
  <1>1. TypeOK'
    BY NamesAssumption DEF JobsInv, TypeOK, Status, Contents, Registering, Scanning, Idle,
       Apply, Return, cluster, CanCall, NoCall
  <1>2. UdfInv'
    BY NamesAssumption DEF JobsInv, UdfInv, TypeOK, Registering, Idle, Apply, Return,
       cluster, CanCall, NoCall
  <1>3. ScanInv'
    <2>1. out' = out /\ scans' = scans
      BY DEF Apply, Return, cluster, CanCall, NoCall
    <2>2. ASSUME NEW q \in Requests
          PROVE  call'[q] = call[q] \/ (~Scanning(q)' /\ call'[q].method # "scanApply")
      BY <2>2 DEF JobsInv, TypeOK, Scanning, Apply, Return, cluster, CanCall, NoCall
    <2> QED BY <2>1, <2>2 DEF JobsInv, ScanInv, ScanApplyHonest, Scanning, Idle
  <1> QED BY <1>1, <1>2, <1>3 DEF JobsInv

\* addIndex touches neither modules nor scans.
LEMMA AddIndexKeeps ==
    ASSUME NEW r \in Requests, JobsInv, AddIndex(r)
    PROVE  JobsInv'
  <1>1. TypeOK'
    BY NamesAssumption DEF JobsInv, TypeOK, Status, Contents, Registering, Scanning, Idle,
       AddIndex, Return, CanCall, NoCall
  <1>2. UdfInv'
    BY NamesAssumption DEF JobsInv, UdfInv, TypeOK, Registering, Idle, AddIndex, Return,
       CanCall, NoCall
  <1>3. ScanInv'
    BY NamesAssumption DEF JobsInv, ScanInv, ScanApplyHonest, TypeOK, Scanning, Idle,
       Registering, AddIndex, Return, CanCall, NoCall
  <1> QED BY <1>1, <1>2, <1>3 DEF JobsInv

\* Nor does it when it fails.
LEMMA AddIndexFailsKeeps ==
    ASSUME NEW r \in Requests, JobsInv, AddIndexFails(r)
    PROVE  JobsInv'
  <1>1. TypeOK'
    BY NamesAssumption DEF JobsInv, TypeOK, Status, Contents, Registering, Scanning, Idle,
       AddIndexFails, Return, cluster, CanCall, NoCall
  <1>2. UdfInv'
    BY NamesAssumption DEF JobsInv, UdfInv, TypeOK, Registering, Idle, AddIndexFails,
       Return, cluster, CanCall, NoCall
  <1>3. ScanInv'
    BY NamesAssumption DEF JobsInv, ScanInv, ScanApplyHonest, TypeOK, Scanning, Idle,
       Registering, AddIndexFails, Return, cluster, CanCall, NoCall
  <1> QED BY <1>1, <1>2, <1>3 DEF JobsInv

\* dropIndex touches neither modules nor scans.
LEMMA DropIndexKeeps ==
    ASSUME NEW r \in Requests, JobsInv, DropIndex(r)
    PROVE  JobsInv'
  <1>1. TypeOK'
    <2> DEFINE O == [code : Contents \cup {None}, list : SUBSET Modules,
                    id : Scans \cup {None}, info : {"none", "running", "done"}]
    <2>1. out' \in [Requests -> O]
      <3>1. out \in [Requests -> O]
        BY DEF JobsInv, TypeOK
      <3>2. ASSUME NEW o \in O PROVE [o EXCEPT !.code = None] \in O
        BY <3>2
      <3> HIDE DEF O
      <3> QED BY <3>1, <3>2 DEF DropIndex, Return, CanCall, NoCall
    <2>2. /\ wanted' \in [Modules -> Contents \cup {None}]
          /\ modules' \in [Nodes -> [Modules -> Contents \cup {None}]]
          /\ index' \in BOOLEAN
          /\ scans' \in [Scans -> {"none", "running", "done"}]
          /\ lua' \in [Files -> Contents \cup {None}]
          /\ assured' \subseteq Modules
          /\ clean' \subseteq Requests
      BY DEF JobsInv, TypeOK, DropIndex, Return, CanCall, NoCall
    <2>3. DOMAIN call' = Requests
      BY DEF JobsInv, TypeOK, DropIndex, Return, CanCall, NoCall
    <2>4. ASSUME NEW q \in Requests
          PROVE  /\ call'[q].error \in Status
                 /\ Registering(q)' => call'[q].arg \in [module : Modules, file : Files]
                 /\ Scanning(q)' => call'[q].arg \in Scans
      BY NamesAssumption, <2>4 DEF JobsInv, TypeOK, Status, Registering, Scanning,
         DropIndex, Return, CanCall, NoCall
    <2> QED BY <2>1, <2>2, <2>3, <2>4 DEF TypeOK
  <1>2. UdfInv'
    BY NamesAssumption DEF JobsInv, UdfInv, TypeOK, Registering, Idle, DropIndex, Return,
       CanCall, NoCall
  <1>3. ScanInv'
    <2>1. out' = out /\ scans' = scans
      BY DEF DropIndex, Return, CanCall, NoCall
    <2>2. ASSUME NEW q \in Requests
          PROVE  call'[q] = call[q] \/ (~Scanning(q)' /\ call'[q].method # "scanApply")
      BY <2>2 DEF JobsInv, TypeOK, Scanning, DropIndex, Return, CanCall, NoCall
    <2> QED BY <2>1, <2>2 DEF JobsInv, ScanInv, ScanApplyHonest, Scanning, Idle
  <1> QED BY <1>1, <1>2, <1>3 DEF JobsInv

\* The script has the id as soon as the scan has started.
LEMMA ScanApplyKeeps ==
    ASSUME NEW r \in Requests, NEW s \in Scans, JobsInv, ScanApply(r, s)
    PROVE  JobsInv'
  <1>1. TypeOK'
    <2> DEFINE O == [code : Contents \cup {None}, list : SUBSET Modules,
                    id : Scans \cup {None}, info : {"none", "running", "done"}]
    <2>1. out' \in [Requests -> O]
      <3>1. out \in [Requests -> O]
        BY DEF JobsInv, TypeOK
      <3>2. ASSUME NEW o \in O, NEW t \in Scans PROVE [o EXCEPT !.id = t] \in O
        BY <3>2
      <3> HIDE DEF O
      <3> QED BY <3>1, <3>2 DEF ScanApply, Wait, CanCall, IdAtStart
    <2>2. /\ wanted' \in [Modules -> Contents \cup {None}]
          /\ modules' \in [Nodes -> [Modules -> Contents \cup {None}]]
          /\ index' \in BOOLEAN
          /\ scans' \in [Scans -> {"none", "running", "done"}]
          /\ lua' \in [Files -> Contents \cup {None}]
          /\ assured' \subseteq Modules
          /\ clean' \subseteq Requests
      BY DEF JobsInv, TypeOK, ScanApply, Wait, CanCall, IdAtStart
    <2>3. DOMAIN call' = Requests
      BY DEF JobsInv, TypeOK, ScanApply, Wait, CanCall, IdAtStart
    <2>4. ASSUME NEW q \in Requests
          PROVE  /\ call'[q].error \in Status
                 /\ Registering(q)' => call'[q].arg \in [module : Modules, file : Files]
                 /\ Scanning(q)' => call'[q].arg \in Scans
      BY NamesAssumption, <2>4 DEF JobsInv, TypeOK, Status, Registering, Scanning,
         ScanApply, Wait, CanCall, IdAtStart
    <2> QED BY <2>1, <2>2, <2>3, <2>4 DEF TypeOK
  <1>2. UdfInv'
    BY NamesAssumption DEF JobsInv, UdfInv, TypeOK, Registering, Idle, ScanApply, Wait,
       CanCall, IdAtStart
  <1>3. ScanInv'
    BY NamesAssumption DEF JobsInv, ScanInv, ScanApplyHonest, TypeOK, Scanning, Idle,
       Registering, ScanApply, Wait, CanCall, IdAtStart
  <1> QED BY <1>1, <1>2, <1>3 DEF JobsInv

\* A scan that is not accepted gives no id.
LEMMA ScanApplyFailsKeeps ==
    ASSUME NEW r \in Requests, NEW s \in Scans, JobsInv, ScanApplyFails(r, s)
    PROVE  JobsInv'
  <1>1. TypeOK'
    BY NamesAssumption DEF JobsInv, TypeOK, Status, Contents, Registering, Scanning, Idle,
       ScanApplyFails, Return, CanCall, NoCall
  <1>2. UdfInv'
    BY NamesAssumption DEF JobsInv, UdfInv, TypeOK, Registering, Idle, ScanApplyFails,
       Return, CanCall, NoCall
  <1>3. ScanInv'
    BY NamesAssumption DEF JobsInv, ScanInv, ScanApplyHonest, TypeOK, Scanning, Idle,
       Registering, ScanApplyFails, Return, CanCall, NoCall
  <1> QED BY <1>1, <1>2, <1>3 DEF JobsInv

\* The wait ends when the scan has.
LEMMA ScanWaitedKeeps ==
    ASSUME NEW r \in Requests, JobsInv, ScanWaited(r)
    PROVE  JobsInv'
  <1>1. TypeOK'
    BY NamesAssumption DEF JobsInv, TypeOK, Status, Contents, Registering, Scanning, Idle,
       ScanWaited, Return, cluster, NoCall
  <1>2. UdfInv'
    BY NamesAssumption DEF JobsInv, UdfInv, TypeOK, Registering, Scanning, ScanWaited,
       Return, cluster, NoCall
  <1>3. ScanInv'
    BY NamesAssumption DEF JobsInv, ScanInv, ScanApplyHonest, TypeOK, Scanning, Idle,
       Registering, ScanWaited, Return, cluster, NoCall
  <1> QED BY <1>1, <1>2, <1>3 DEF JobsInv

\* A failed wait keeps the id.
LEMMA ScanWaitFailsKeeps ==
    ASSUME NEW r \in Requests, JobsInv, ScanWaitFails(r)
    PROVE  JobsInv'
  <1>1. TypeOK'
    BY NamesAssumption DEF JobsInv, TypeOK, Status, Contents, Registering, Scanning, Idle,
       ScanWaitFails, Return, cluster, NoCall
  <1>2. UdfInv'
    BY NamesAssumption DEF JobsInv, UdfInv, TypeOK, Registering, Scanning, ScanWaitFails,
       Return, cluster, NoCall
  <1>3. ScanInv'
    BY NamesAssumption DEF JobsInv, ScanInv, ScanApplyHonest, TypeOK, Scanning, Idle,
       Registering, ScanWaitFails, Return, cluster, NoCall
  <1> QED BY <1>1, <1>2, <1>3 DEF JobsInv

\* scanInfo leaves the id alone.
LEMMA ScanInfoKeeps ==
    ASSUME NEW r \in Requests, JobsInv, ScanInfo(r)
    PROVE  JobsInv'
  <1>1. TypeOK'
    BY NamesAssumption, SMTT(40) DEF JobsInv, TypeOK, Status, Contents, Registering, Scanning, Idle,
       ScanInfo, Return, cluster, CanCall, NoCall
  <1>2. UdfInv'
    BY NamesAssumption DEF JobsInv, UdfInv, TypeOK, Registering, Idle, ScanInfo, Return,
       cluster, CanCall, NoCall
  <1>3. ScanInv'
    BY NamesAssumption DEF JobsInv, ScanInv, ScanApplyHonest, TypeOK, Scanning, Idle,
       Registering, ScanInfo, Return, cluster, CanCall, NoCall
  <1> QED BY <1>1, <1>2, <1>3 DEF JobsInv

\* A node that takes what is wanted keeps the modules that are vouched for.
LEMMA PropagateKeeps ==
    ASSUME NEW n \in Nodes, NEW m \in Modules, JobsInv, Propagate(n, m)
    PROVE  JobsInv'
  <1>1. TypeOK'
    BY NamesAssumption DEF JobsInv, TypeOK, Status, Contents, Registering, Scanning, Idle,
       Propagate
  <1>2. UdfInv'
    BY NamesAssumption DEF JobsInv, UdfInv, TypeOK, Registering, Idle, Propagate
  <1>3. ScanInv'
    BY NamesAssumption DEF JobsInv, ScanInv, ScanApplyHonest, TypeOK, Scanning, Idle,
       Registering, Propagate
  <1> QED BY <1>1, <1>2, <1>3 DEF JobsInv

\* A scan that is done stays done.
LEMMA ScanEndsKeeps ==
    ASSUME NEW s \in Scans, JobsInv, ScanEnds(s)
    PROVE  JobsInv'
  <1>1. TypeOK'
    BY NamesAssumption DEF JobsInv, TypeOK, Status, Contents, Registering, Scanning, Idle,
       ScanEnds
  <1>2. UdfInv'
    BY NamesAssumption DEF JobsInv, UdfInv, TypeOK, Registering, Idle, ScanEnds
  <1>3. ScanInv'
    BY NamesAssumption DEF JobsInv, ScanInv, ScanApplyHonest, TypeOK, Scanning, Idle,
       Registering, ScanEnds
  <1> QED BY <1>1, <1>2, <1>3 DEF JobsInv

\* Every step keeps the invariant.
LEMMA JobsStep == JobsInv /\ [Next]_vars => JobsInv'
  <1> SUFFICES ASSUME JobsInv, [Next]_vars PROVE JobsInv'
    OBVIOUS
  <1>1. CASE UNCHANGED vars
    BY <1>1 DEF JobsInv, TypeOK, UdfInv, ScanInv, ScanApplyHonest, Registering, Scanning,
       Idle,
                vars
  <1>2. CASE ClusterStep
    BY <1>2, PropagateKeeps, ScanEndsKeeps DEF ClusterStep
  <1>3. ASSUME NEW r \in Requests, RequestStep(r) PROVE JobsInv'
    <2>1. ASSUME NEW method \in Uses[r], Refuse(r, method) PROVE JobsInv'
      BY <2>1, RefuseKeeps
    <2>2. CASE Crash(r) \/ RegisterWaited(r) \/ RegisterWaitFails(r) \/ ListRegistered(r)
      BY <2>2, CrashKeeps, RegisterWaitedKeeps, RegisterWaitFailsKeeps,
         ListRegisteredKeeps
    <2>3. ASSUME NEW m \in Modules, UdfCall(r, m) PROVE JobsInv'
      BY <2>3, RegisterUnreadableKeeps, DeregisterKeeps, DeregisterFailsKeeps,
         GetRegisteredKeeps, RegisterPutKeeps, RegisterFailsKeeps DEF UdfCall
    <2>4. ASSUME NEW m \in Modules \cup {BadName}, Apply(r, m) PROVE JobsInv'
      BY <2>4, ApplyKeeps
    <2>5. CASE AddIndex(r) \/ AddIndexFails(r) \/ DropIndex(r)
      BY <2>5, AddIndexKeeps, AddIndexFailsKeeps, DropIndexKeeps
    <2>6. ASSUME NEW s \in Scans, ScanApply(r, s) \/ ScanApplyFails(r, s) PROVE JobsInv'
      BY <2>6, ScanApplyKeeps, ScanApplyFailsKeeps
    <2>7. CASE ScanWaited(r) \/ ScanWaitFails(r) \/ ScanInfo(r)
      BY <2>7, ScanWaitedKeeps, ScanWaitFailsKeeps, ScanInfoKeeps
    <2> QED BY <1>3, <2>1, <2>2, <2>3, <2>4, <2>5, <2>6, <2>7 DEF RequestStep
  <1> QED BY <1>1, <1>2, <1>3 DEF Next

-----------------------------------------------------------------------------
(* Theorems *)

\* The inductive invariant, type correctness included, holds in every state.
THEOREM JobsInvariant == Spec => []JobsInv
  <1>1. Init => JobsInv
    BY JobsStart
  <1>2. JobsInv /\ [Next]_vars => JobsInv'
    BY JobsStep
  <1> QED BY <1>1, <1>2, PTL DEF Spec

\* scanApply says OK only when the scan has ended, and gives the script the id of
\* every scan that the cluster has accepted.
THEOREM ScanAppliesHonest == Spec => []ScanApplyHonest
  <1>1. JobsInv => ScanApplyHonest
    BY DEF JobsInv, ScanInv
  <1> QED BY <1>1, JobsInvariant, PTL

\* No step but apply itself leaves a request with a new apply.
LEMMA OnlyApplyAnswers ==
    ASSUME JobsInv, NEW q \in Requests, [Next]_vars,
           call'[q] # call[q], call'[q].method = "apply", call'[q].arg \in assured
    PROVE  call'[q].error # "ERR_UDF_NOT_FOUND"
  <1>1. call' # call
    OBVIOUS
  <1>2. Next /\ ~ClusterStep
    BY <1>1 DEF vars, ClusterStep, Propagate, ScanEnds
  <1>3. PICK r \in Requests : RequestStep(r)
    BY <1>2 DEF Next
  <1>4. ASSUME NEW m \in Modules \cup {BadName}, Apply(r, m)
        PROVE  call'[q].error # "ERR_UDF_NOT_FOUND"
    <2>1. q = r /\ call'[q].arg = m
      BY <1>4 DEF Apply, Return, JobsInv, TypeOK
    <2>2. m \in Modules /\ m # BadName /\ \A n \in Nodes : modules[n][m] # None
      BY <2>1, NamesAssumption DEF JobsInv, UdfInv, TypeOK
    <2>3. \E code \in {"OK", "ERR_CLIENT"} : Return(r, "apply", m, code)
      BY <1>4, <2>2 DEF Apply
    <2> QED BY <2>1, <2>3 DEF Return, JobsInv, TypeOK
  <1>5. ASSUME NEW method \in Uses[r], Refuse(r, method)
        PROVE  call'[q].error # "ERR_UDF_NOT_FOUND"
    BY <1>5 DEF Refuse, Return, NoCall, JobsInv, TypeOK
  <1>6. CASE Crash(r)
    BY <1>6 DEF Crash, NoCall
  <1>7. CASE RegisterWaited(r) \/ RegisterWaitFails(r)
    BY <1>7 DEF RegisterWaited, RegisterWaitFails, FinishRegister, Return, NoCall,
       JobsInv, TypeOK
  <1>8. CASE ListRegistered(r)
    BY <1>8 DEF ListRegistered, Return, NoCall, JobsInv, TypeOK
  <1>9. ASSUME NEW m \in Modules, UdfCall(r, m)
        PROVE  call'[q].error # "ERR_UDF_NOT_FOUND"
    BY <1>9 DEF UdfCall, RegisterUnreadable, Deregister, DeregisterFails, GetRegistered,
                RegisterPut, RegisterFails, Return, Wait, NoCall, JobsInv, TypeOK
  <1>10. CASE AddIndex(r) \/ AddIndexFails(r) \/ DropIndex(r)
    BY <1>10 DEF AddIndex, AddIndexFails, DropIndex, Return, NoCall, JobsInv, TypeOK
  <1>11. ASSUME NEW s \in Scans, ScanApply(r, s) \/ ScanApplyFails(r, s)
         PROVE  call'[q].error # "ERR_UDF_NOT_FOUND"
    BY <1>11 DEF ScanApply, ScanApplyFails, Return, Wait, JobsInv, TypeOK
  <1>12. CASE ScanWaited(r) \/ ScanWaitFails(r) \/ ScanInfo(r)
    BY <1>12 DEF ScanWaited, ScanWaitFails, ScanInfo, Return, NoCall, JobsInv, TypeOK
  <1> QED BY <1>3, <1>4, <1>5, <1>6, <1>7, <1>8, <1>9, <1>10, <1>11, <1>12 DEF RequestStep

\* After a successful register apply finds the module on every node, whatever
\* other requests do, until someone asks for its removal.
THEOREM RegisteredModulesFound == Spec => RegisteredIsFound
  <1>1. JobsInv /\ [Next]_vars
        => [\A r \in Requests :
              call'[r] # call[r] /\ call'[r].method = "apply" /\ call'[r].arg \in assured
                => call'[r].error # "ERR_UDF_NOT_FOUND"]_vars
    BY OnlyApplyAnswers
  <1> QED BY <1>1, JobsInvariant, PTL DEF Spec, RegisteredIsFound
=============================================================================
