------------------------- MODULE RecordCallsProofs --------------------------
(***************************************************************************)
(* Proofs about RecordCalls: types, the optimistic lock of POLICY_GEN_EQ,  *)
(* and the agreement of what a call returns with what became of its write. *)
(***************************************************************************)
EXTENDS RecordCalls, TLAPS

\* What a client knows of its call.  While the request is on its way at most
\* the earlier attempts have been applied; once the answer is there, OK means
\* that the write was applied, and a refusal that it was not unless an earlier
\* attempt was.
CallAgrees ==
    \A c \in Clients :
        /\ pc[c] # "idle" => call[c] \in Inputs
        /\ pc[c] = "sent" => attempts[c] \in 1 .. 2 /\ applied[c] < attempts[c]
        /\ pc[c] = "sent" /\ ~call[c].retry => attempts[c] = 1
        /\ pc[c] = "replied" =>
            /\ error[c] \notin LocalErrors
            /\ error[c] = "OK" /\ call[c].method \in WriteMethods => applied[c] >= 1
            /\ error[c] \in Refusals /\ ~call[c].retry => applied[c] = 0

\* The guarded writes that were applied met generations that are gone.
WinsBelow == \A v \in 0 .. MaxGen : wins[v] <= 1 /\ (wins[v] = 1 => v < generation)

\* The request of a call is well formed: set_generation_value always yields a
\* value that fits the field of the request.
LEMMA RequestType == ASSUME NEW in \in Inputs PROVE RequestOf(in) \in Request
<1>1. in \in Arguments
  BY RecordAssumption
<1>2. SetGenerationValue(in.gen.value) \in 0 .. MaxGen
  <2>1. in.gen.value \in Int \cup {BadValue}
    BY <1>1 DEF Arguments, GenOptions
  <2>2. \A v \in Int : v % GenModulus \in 0 .. GenModulus - 1
    BY RecordAssumption
  <2>3. 0 \in 0 .. MaxGen
    BY RecordAssumption DEF MaxGen
  <2> QED
    BY <2>1, <2>2, <2>3 DEF SetGenerationValue, MaxGen
<1>3. in.method \in Methods /\ in.gen.policy \in {"ignore", "eq", "gt"}
  BY <1>1 DEF Arguments, GenOptions
<1> QED
  BY <1>2, <1>3 DEF RequestOf, Request, SetPolicy

\* Whatever request the cluster handles, the record and the count of winners
\* keep their types, and no generation gets a second winner.
LEMMA HandleKeepsWinners ==
    ASSUME NEW req \in Request, NEW guarded \in BOOLEAN,
           generation \in 0 .. MaxGen, wins \in [0 .. MaxGen -> Nat], WinsBelow,
           guarded => req.policy = "eq",
           Handle(req, guarded)
    PROVE  /\ generation' \in 0 .. MaxGen
           /\ wins' \in [0 .. MaxGen -> Nat]
           /\ WinsBelow'
<1>0. MaxGen \in Nat
  BY RecordAssumption DEF MaxGen
<1>1. PICK after \in Effects(req) :
        after <= MaxGen /\ generation' = after /\ wins' = Wins(req, guarded, after)
  BY DEF Handle
<1>2. req.gen \in 0 .. MaxGen
  BY DEF Request
<1>3. CASE ~Writes(req)
  <2>1. after = generation
    BY <1>3 DEF Effects
  <2> QED
    BY <1>1, <1>3, <2>1 DEF Wins, WinsBelow
<1>4. CASE Writes(req) /\ after = 0
  BY <1>0, <1>1, <1>4 DEF Wins, NoWins, WinsBelow
<1>5. CASE Writes(req) /\ after # 0
  <2>1. after = generation + 1
    BY <1>1, <1>5 DEF Effects
  <2>2. CASE ~guarded
    BY <1>0, <1>1, <1>5, <2>1, <2>2, SMTT(40) DEF Wins, WinsBelow
  <2>3. CASE guarded
    <3>1. req.gen = generation
      BY <1>5, <2>3 DEF Writes, Answer, GenerationAllows
    <3>2. wins[generation] = 0
      BY <1>0 DEF WinsBelow
    <3>3. wins' = [wins EXCEPT ![generation] = 1]
      BY <1>1, <1>5, <2>3, <3>1, <3>2 DEF Wins
    <3>4. generation' = generation + 1 /\ generation' \in 0 .. MaxGen
      BY <1>0, <1>1, <2>1
    <3>5. wins' \in [0 .. MaxGen -> Nat]
      BY <3>3
    <3>6. \A v \in 0 .. MaxGen : wins'[v] = IF v = generation THEN 1 ELSE wins[v]
      BY <3>3
    <3>7. \A v \in 0 .. MaxGen : wins'[v] <= 1 /\ (wins'[v] = 1 => v < generation + 1)
      BY <1>0, <3>6, SMTT(40) DEF WinsBelow
    <3> QED
      BY <3>4, <3>5, <3>7 DEF WinsBelow
  <2> QED
    BY <2>2, <2>3
<1> QED
  BY <1>3, <1>4, <1>5

-----------------------------------------------------------------------------
\* The client side of a step: what each action does to the calls, and that the
\* types and CallAgrees survive it.
ClientTypes ==
    /\ pc \in [Clients -> {"idle", "sent", "replied"}]
    /\ call \in [Clients -> Inputs \cup {NoCall}]
    /\ attempts \in [Clients -> 0 .. 2]
    /\ error \in [Clients -> Status]
    /\ out \in [Clients -> {"null", "empty", "partial", "record"}]
    /\ applied \in [Clients -> 0 .. 2]

ServerTypes ==
    /\ generation \in 0 .. MaxGen
    /\ delayed \subseteq Request
    /\ wins \in [0 .. MaxGen -> Nat]

IInv == ServerTypes /\ ClientTypes /\ CallAgrees /\ WinsBelow

LEMMA CheckErrors ==
    ASSUME NEW method \in Methods, NEW i \in DOMAIN ArgumentChecks(method),
           NEW e \in ArgumentChecks(method)[i].errors
    PROVE  e \in LocalErrors
<1> DEFINE Entry == [defect : Defects, errors : SUBSET LocalErrors]
<1>1. \A d \in Defects, E \in SUBSET LocalErrors : Check(d, E) \in Entry
  BY DEF Check
<1> HIDE DEF Entry
<1>2. CommonChecks \in Seq(Entry)
  <2>1. /\ Check("handle", {"ERR_CLIENT"}) \in Entry
        /\ Check("connection", {"ERR_CLUSTER"}) \in Entry
        /\ KeyCheck \in Entry /\ OptionsCheck \in Entry
    BY <1>1 DEF KeyCheck, OptionsCheck, Defects, LocalErrors
  <2> QED
    BY <2>1 DEF CommonChecks
<1>3. OwnChecks(method) \in Seq(Entry)
  <2>1. /\ RecordCheck \in Entry /\ OperationsCheck \in Entry
        /\ GenerationCheck \in Entry /\ TtlCheck \in Entry
    BY <1>1 DEF RecordCheck, OperationsCheck, GenerationCheck, TtlCheck, Defects, LocalErrors
  <2>2. BinsCheck \in Entry /\ FilterCheck \in Entry /\ FilterBinCheck \in Entry
    BY <1>1 DEF BinsCheck, FilterCheck, FilterBinCheck, Defects, LocalErrors
  <2>3. PutChecks \in Seq(Entry) /\ OperateChecks \in Seq(Entry)
    BY <2>1 DEF PutChecks, OperateChecks
  <2>4. RemoveBinChecks \in Seq(Entry) /\ GetChecks \in Seq(Entry)
    BY <2>1, <2>2 DEF RemoveBinChecks, GetChecks
  <2>5. RemoveChecks \in Seq(Entry) /\ ExistsChecks \in Seq(Entry)
    BY DEF RemoveChecks, ExistsChecks
  <2> QED
    BY <2>3, <2>4, <2>5 DEF OwnChecks, Methods, WriteMethods
<1>4. ArgumentChecks(method) \in Seq(Entry)
  BY <1>2, <1>3 DEF ArgumentChecks
<1>5. ArgumentChecks(method)[i] \in Entry
  BY <1>4
<1> QED
  BY <1>5 DEF Entry

LEMMA RefusedStep ==
    ASSUME IInv, NEW c \in Clients, NEW in \in Inputs, CallRefused(c, in)
    PROVE  IInv'
<1>1. PICK i \in DOMAIN ArgumentChecks(in.method) :
        /\ \E e \in ArgumentChecks(in.method)[i].errors : error' = [error EXCEPT ![c] = e]
        /\ out' = [out EXCEPT ![c] = OutOnFailedCheck(c, ArgumentChecks(in.method)[i].defect)]
  BY DEF CallRefused
<1>2. PICK e \in LocalErrors : error' = [error EXCEPT ![c] = e]
  <2>1. in.method \in Methods
    BY RecordAssumption DEF Arguments
  <2> QED
    BY <1>1, <2>1, CheckErrors
<1>3. ClientTypes'
  BY <1>1, <1>2 DEF IInv, ClientTypes, CallRefused, OutOnFailedCheck, Status
<1>4. CallAgrees'
  BY <1>2 DEF IInv, ClientTypes, CallAgrees, CallRefused
<1> QED
  BY <1>3, <1>4 DEF IInv, CallRefused, ServerTypes, WinsBelow

LEMMA SentStep ==
    ASSUME IInv, NEW c \in Clients, NEW in \in Inputs, CallSent(c, in)
    PROVE  IInv'
<1>1. ClientTypes'
  BY DEF IInv, ClientTypes, CallSent, Status
<1>2. CallAgrees'
  BY DEF IInv, ClientTypes, CallAgrees, CallSent
<1> QED
  BY <1>1, <1>2 DEF IInv, CallSent, ServerTypes, WinsBelow

LEMMA ReturnStep ==
    ASSUME IInv, NEW c \in Clients, Return(c)
    PROVE  IInv'
<1>1. ClientTypes'
  BY DEF IInv, ClientTypes, Return, ReturnOK, ReturnError, ReturnUnconvertible, EndCall,
         OutOnOK, OutOnError, FinalCode, Status, LocalErrors
<1>2. CallAgrees'
  BY DEF IInv, ClientTypes, CallAgrees, Return, ReturnOK, ReturnError,
         ReturnUnconvertible, EndCall
<1> QED
  BY <1>1, <1>2 DEF IInv, Return, ReturnOK, ReturnError, ReturnUnconvertible, EndCall,
                    ServerTypes, WinsBelow

-----------------------------------------------------------------------------
(***************************************************************************)
(* The steps of the network and the cluster.                               *)
(***************************************************************************)
\* A step that leaves the client waiting, or gives up on the request.
LEMMA NoAnswerStep ==
    ASSUME ClientTypes, CallAgrees, NEW c \in Clients, pc[c] = "sent",
           NEW n \in {applied[c], applied[c] + 1},
           applied' = [applied EXCEPT ![c] = n],
           NoAnswer(c), UNCHANGED <<call, out>>
    PROVE  ClientTypes' /\ CallAgrees'
<1>1. /\ attempts[c] \in 1 .. 2 /\ applied[c] \in 0 .. 2 /\ applied[c] < attempts[c]
      /\ call[c] \in Inputs
      /\ ~call[c].retry => attempts[c] = 1
  BY DEF ClientTypes, CallAgrees
<1>2. CASE MayRetry(c)
  <2>1. attempts[c] = 1 /\ applied[c] = 0
    BY <1>1, <1>2 DEF MayRetry
  <2>2. attempts' = [attempts EXCEPT ![c] = 2] /\ n \in 0 .. 1 /\ UNCHANGED <<pc, error>>
    BY <1>2, <2>1 DEF NoAnswer, ClientTypes
  <2>3. ClientTypes'
    BY <2>2 DEF ClientTypes
  <2>4. CallAgrees'
    BY <1>1, <1>2, <2>2 DEF ClientTypes, CallAgrees, MayRetry
  <2> QED
    BY <2>3, <2>4
<1>3. CASE ~MayRetry(c)
  <2>1. /\ pc' = [pc EXCEPT ![c] = "replied"]
        /\ error' = [error EXCEPT ![c] = "ERR_TIMEOUT"]
        /\ UNCHANGED attempts
    BY <1>3 DEF NoAnswer
  <2>2. n \in 0 .. 2
    BY <1>1
  <2>3. ClientTypes'
    BY <2>1, <2>2 DEF ClientTypes, Status
  <2>4. CallAgrees'
    BY <1>1, <2>1, <2>2 DEF ClientTypes, CallAgrees, LocalErrors, Refusals
  <2> QED
    BY <2>3, <2>4
<1> QED
  BY <1>2, <1>3

\* The facts that make the lemmas about the cluster applicable to a call.
LEMMA SentRequest ==
    ASSUME ClientTypes, CallAgrees, NEW c \in Clients, pc[c] = "sent"
    PROVE  /\ call[c] \in Inputs
           /\ RequestOf(call[c]) \in Request
           /\ RequestOf(call[c]).method = call[c].method
           /\ RequestOf(call[c]).policy = call[c].gen.policy
<1>1. call[c] \in Inputs
  BY DEF CallAgrees
<1> QED
  BY <1>1, RequestType DEF RequestOf, SetPolicy

LEMMA ServedStep ==
    ASSUME IInv, NEW c \in Clients, Served(c)
    PROVE  IInv'
<1> DEFINE req == RequestOf(call[c])
<1>1. /\ pc[c] = "sent"
      /\ Handle(req, call[c].gen.policy = "eq")
      /\ applied' = [applied EXCEPT ![c] = IF Writes(req) THEN @ + 1 ELSE @]
      /\ pc' = [pc EXCEPT ![c] = "replied"]
      /\ error' = [error EXCEPT ![c] = Answer(req)]
      /\ UNCHANGED <<delayed, call, attempts, out>>
  BY DEF Served, CountApplied
<1>2. /\ call[c] \in Inputs /\ req \in Request
      /\ req.method = call[c].method /\ req.policy = call[c].gen.policy
  BY <1>1, SentRequest DEF IInv
<1>3. ServerTypes' /\ WinsBelow'
  BY <1>1, <1>2, HandleKeepsWinners DEF IInv, ServerTypes
<1>4. /\ attempts[c] \in 1 .. 2 /\ applied[c] \in 0 .. 2 /\ applied[c] < attempts[c]
      /\ ~call[c].retry => attempts[c] = 1
  BY <1>1 DEF IInv, ClientTypes, CallAgrees
<1>5. /\ Answer(req) \in {"OK"} \cup Refusals
      /\ Answer(req) \in Refusals => ~Writes(req)
      /\ Answer(req) = "OK" /\ req.method \in WriteMethods => Writes(req)
  BY DEF Answer, Writes, Refusals
<1> HIDE DEF req
<1>6. ClientTypes'
  BY <1>1, <1>4, <1>5 DEF IInv, ClientTypes, Status
<1>7. CallAgrees'
  <2>1. applied'[c] = IF Writes(req) THEN applied[c] + 1 ELSE applied[c]
    BY <1>1 DEF IInv, ClientTypes
  <2>2. /\ Answer(req) \notin LocalErrors
        /\ Answer(req) = "OK" /\ call[c].method \in WriteMethods => applied'[c] >= 1
        /\ Answer(req) \in Refusals /\ ~call[c].retry => applied'[c] = 0
    BY <1>2, <1>4, <1>5, <2>1 DEF Refusals, LocalErrors
  <2> QED
    BY <1>1, <1>2, <2>2 DEF IInv, ClientTypes, CallAgrees
<1> QED
  BY <1>3, <1>6, <1>7 DEF IInv

LEMMA AnswerLostStep ==
    ASSUME IInv, NEW c \in Clients, AnswerLost(c)
    PROVE  IInv'
<1> DEFINE req == RequestOf(call[c])
           n == IF Writes(req) THEN applied[c] + 1 ELSE applied[c]
<1>1. /\ pc[c] = "sent"
      /\ Handle(req, call[c].gen.policy = "eq")
      /\ applied' = [applied EXCEPT ![c] = n]
      /\ NoAnswer(c)
      /\ UNCHANGED <<delayed, call, out>>
  BY DEF AnswerLost, CountApplied
<1>2. req \in Request /\ req.policy = call[c].gen.policy
  BY <1>1, SentRequest DEF IInv
<1>3. ServerTypes' /\ WinsBelow'
  BY <1>1, <1>2, HandleKeepsWinners DEF IInv, ServerTypes
<1>4. n \in {applied[c], applied[c] + 1}
  OBVIOUS
<1> HIDE DEF n
<1>5. ClientTypes' /\ CallAgrees'
  BY <1>1, <1>4, NoAnswerStep DEF IInv
<1> QED
  BY <1>3, <1>5 DEF IInv

LEMMA RequestGoneStep ==
    ASSUME IInv, NEW c \in Clients, RequestLost(c) \/ RequestDelayed(c)
    PROVE  IInv'
<1>1. /\ pc[c] = "sent" /\ NoAnswer(c)
      /\ UNCHANGED <<generation, call, out, applied, wins>>
      /\ delayed' = delayed \/ delayed' = delayed \cup {RequestOf(call[c])}
  BY DEF RequestLost, RequestDelayed
<1>2. RequestOf(call[c]) \in Request
  BY <1>1, SentRequest DEF IInv
<1>3. applied' = [applied EXCEPT ![c] = applied[c]]
  BY <1>1 DEF IInv, ClientTypes
<1>4. ClientTypes' /\ CallAgrees'
  BY <1>1, <1>3, NoAnswerStep DEF IInv
<1> QED
  BY <1>1, <1>2, <1>4 DEF IInv, ServerTypes, WinsBelow

LEMMA DelayedStep ==
    ASSUME IInv, NEW req \in delayed, DelayedArrives(req)
    PROVE  IInv'
<1>1. req \in Request
  BY DEF IInv, ServerTypes
<1>2. ServerTypes' /\ WinsBelow'
  BY <1>1, HandleKeepsWinners DEF IInv, ServerTypes, DelayedArrives
<1>3. ClientTypes' /\ CallAgrees'
  BY DEF IInv, DelayedArrives, client, ClientTypes, CallAgrees
<1> QED
  BY <1>2, <1>3 DEF IInv

-----------------------------------------------------------------------------
(***************************************************************************)
(* IInv is inductive, and the properties follow from it.                   *)
(***************************************************************************)
LEMMA InitIInv == ASSUME Init PROVE IInv
<1>1. 0 \in 0 .. MaxGen
  BY RecordAssumption DEF MaxGen
<1> QED
  BY <1>1 DEF Init, IInv, ServerTypes, ClientTypes, CallAgrees, WinsBelow, NoWins, Status

LEMMA NextIInv == ASSUME IInv, [Next]_vars PROVE IInv'
<1>1. CASE UNCHANGED vars
  BY <1>1 DEF vars, client, IInv, ServerTypes, ClientTypes, CallAgrees, WinsBelow
<1>2. ASSUME NEW c \in Clients, NEW in \in Inputs, CallRefused(c, in) PROVE IInv'
  BY <1>2, RefusedStep
<1>3. ASSUME NEW c \in Clients, NEW in \in Inputs, CallSent(c, in) PROVE IInv'
  BY <1>3, SentStep
<1>4. ASSUME NEW c \in Clients, Served(c) PROVE IInv'
  BY <1>4, ServedStep
<1>5. ASSUME NEW c \in Clients, AnswerLost(c) PROVE IInv'
  BY <1>5, AnswerLostStep
<1>6. ASSUME NEW c \in Clients, RequestLost(c) \/ RequestDelayed(c) PROVE IInv'
  BY <1>6, RequestGoneStep
<1>7. ASSUME NEW c \in Clients, Return(c) PROVE IInv'
  BY <1>7, ReturnStep
<1>8. ASSUME NEW req \in delayed, DelayedArrives(req) PROVE IInv'
  BY <1>8, DelayedStep
<1> QED
  BY <1>1, <1>2, <1>3, <1>4, <1>5, <1>6, <1>7, <1>8 DEF Next

LEMMA Invariance == Spec => []IInv
BY InitIInv, NextIInv, PTL DEF Spec

\* Types: the state of the record, of the network and of every call stays in
\* range; in particular every request carries a generation that fits 16 bits.
THEOREM RecordTypes == Spec => []TypeOK
<1>1. IInv => TypeOK
  BY DEF IInv, ServerTypes, ClientTypes, TypeOK
<1> QED
  BY <1>1, Invariance, PTL

\* The optimistic lock: for any number of requests, argument lists and delayed
\* messages, a generation of the record has at most one winner among the
\* writes that POLICY_GEN_EQ guards against it.
THEOREM GenerationHasOneWinner == Spec => []OneWinner
<1>1. IInv => OneWinner
  BY DEF IInv, WinsBelow, OneWinner
<1> QED
  BY <1>1, Invariance, PTL

\* Only the last step of a call ends it.
LEMMA ReturnsByReturn == ASSUME IInv, Next, NEW c \in Clients, Returns(c) PROVE Return(c)
<1>1. PICK d \in Clients :
          \/ \E in \in Inputs : CallRefused(d, in) \/ CallSent(d, in)
          \/ Served(d) \/ AnswerLost(d) \/ RequestLost(d) \/ RequestDelayed(d)
          \/ Return(d)
  BY DEF Next, Returns, DelayedArrives, client
<1>2. pc \in [Clients -> {"idle", "sent", "replied"}]
  BY DEF IInv, ClientTypes
<1>3. ~\E in \in Inputs : CallRefused(d, in) \/ CallSent(d, in)
  BY <1>2 DEF Returns, CallRefused, CallSent
<1>4. ~(Served(d) \/ AnswerLost(d) \/ RequestLost(d) \/ RequestDelayed(d))
  BY <1>2 DEF Returns, Served, AnswerLost, RequestLost, RequestDelayed, NoAnswer
<1>5. d = c
  BY <1>1, <1>2, <1>3, <1>4
     DEF Returns, Return, ReturnOK, ReturnError, ReturnUnconvertible, EndCall
<1> QED
  BY <1>1, <1>3, <1>4, <1>5

\* The status a write returns agrees with what became of the write.
THEOREM ReportsAgree == Spec => ReportAgrees
<1> DEFINE Agrees ==
        \A c \in Clients :
            Returns(c) /\ call[c].method \in WriteMethods =>
                /\ error'[c] = "OK" => applied[c] >= 1
                /\ error'[c] \in Refusals /\ ~call[c].retry => applied[c] = 0
                /\ error'[c] \in LocalErrors => call[c].method = "operate"
<1>1. ASSUME IInv, Next PROVE Agrees
  <2> SUFFICES ASSUME NEW c \in Clients, Returns(c), call[c].method \in WriteMethods
               PROVE  /\ error'[c] = "OK" => applied[c] >= 1
                      /\ error'[c] \in Refusals /\ ~call[c].retry => applied[c] = 0
                      /\ error'[c] \in LocalErrors => call[c].method = "operate"
    OBVIOUS
  <2>1. Return(c)
    BY <1>1, ReturnsByReturn
  <2>2. /\ error[c] \notin LocalErrors
        /\ error[c] = "OK" => applied[c] >= 1
        /\ error[c] \in Refusals /\ ~call[c].retry => applied[c] = 0
        /\ error \in [Clients -> Status]
    BY <1>1 DEF IInv, CallAgrees, ClientTypes, Returns
  <2>3. CASE ReturnOK(c) \/ ReturnError(c)
    BY <2>2, <2>3 DEF ReturnOK, ReturnError, FinalCode
  <2>4. CASE ReturnUnconvertible(c)
    BY <2>2, <2>4 DEF ReturnUnconvertible, Converts, WriteMethods, Refusals
  <2> QED
    BY <2>1, <2>3, <2>4 DEF Return
<1>2. ASSUME IInv, [Next]_vars PROVE [Agrees]_vars
  BY <1>1, <1>2
<1> QED
  BY <1>2, Invariance, PTL DEF Spec, ReportAgrees

\* Once get or operate has sent its request, a failure never leaves an earlier
\* record in the variable that the caller passed.
THEOREM NoRecordIsStale == Spec => NoStaleRecord
<1> DEFINE Fresh ==
        \A c \in Clients :
            Returns(c) /\ Converts(call[c].method) /\ error'[c] # "OK" => out'[c] # "record"
<1>1. ASSUME IInv, Next PROVE Fresh
  <2> SUFFICES ASSUME NEW c \in Clients, Returns(c), Converts(call[c].method),
                      error'[c] # "OK"
               PROVE  out'[c] # "record"
    OBVIOUS
  <2>1. Return(c)
    BY <1>1, ReturnsByReturn
  <2>2. DOMAIN out = Clients
    BY <1>1 DEF IInv, ClientTypes
  <2>3. ~ReturnOK(c)
    BY DEF ReturnOK
  <2>4. CASE ReturnError(c)
    BY <2>2, <2>4 DEF ReturnError, OutOnError
  <2>5. CASE ReturnUnconvertible(c)
    BY <2>2, <2>5 DEF ReturnUnconvertible
  <2> QED
    BY <2>1, <2>3, <2>4, <2>5 DEF Return
<1>2. ASSUME IInv, [Next]_vars PROVE [Fresh]_vars
  BY <1>1, <1>2
<1> QED
  BY <1>2, Invariance, PTL DEF Spec, NoStaleRecord
=============================================================================
