---------------------------- MODULE RecordCalls -----------------------------
(***************************************************************************)
(* The single-record methods of main/ext_aerospike.cpp: put, get, operate, *)
(* remove, removeBin and exists, called by several requests on one record. *)
(*                                                                         *)
(* A call checks and converts its arguments, sends one request through the *)
(* C client, and converts the answer into the variable the PHP caller      *)
(* passed by reference.  Arguments are represented by the set of defects   *)
(* that the checks tell apart; a record by its generation, 0 if there is   *)
(* none.  The cluster, the network and the retry of the C client are       *)
(* external: a request or its answer may be lost, and a request may reach  *)
(* the cluster after the caller has given up on it.                        *)
(***************************************************************************)
EXTENDS Integers, Sequences, FiniteSets

CONSTANTS
    Clients,      \* the requests that call the methods
    Inputs,       \* the argument lists they pass
    GenModulus,   \* 2^16 in the code: as_record.gen is a uint16_t
    BadValue,     \* a generation that is no integer, or missing in the option
    MaxDelayed    \* bound on the requests that linger in the network

MaxGen == GenModulus - 1

WriteMethods == {"put", "operate", "remove", "removeBin"}

Methods == WriteMethods \cup {"get", "exists"}

\* The early errors of the methods, in the order of ArgumentChecks, ...
LocalErrors == {"ERR_CLIENT", "ERR_CLUSTER", "ERR_PARAM", "ERR_BIN_NAME"}

\* ... and what the cluster answers when it refuses a request.
Refusals == {"ERR_RECORD_NOT_FOUND", "ERR_RECORD_GENERATION"}

Status == {"OK", "ERR_TIMEOUT"} \cup LocalErrors \cup Refusals

Defects == {"handle", "connection", "key", "options", "record", "operations",
            "generation", "ttl", "bins", "filter", "filterBin"}

\* OPT_POLICY_GEN => array(policy, value).  An option that is absent or no array
\* leaves the default policy, which is "ignore".
GenOptions == [policy : {"ignore", "eq", "gt"}, value : Int \cup {BadValue}]

Arguments == [method : Methods, gen : GenOptions, retry : BOOLEAN, bad : SUBSET Defects]

ASSUME RecordAssumption ==
    /\ GenModulus \in Nat \ {0, 1}
    /\ BadValue \notin Int
    /\ Inputs \subseteq Arguments
    /\ \A in \in Inputs : in.retry => in.method \in WriteMethods
    /\ MaxDelayed \in Nat

VARIABLES
    \* the cluster (external): the record's generation and the requests that
    \* the network still holds although their caller has given up
    generation, delayed,
    \* per client: the progress of its call, the arguments, the requests sent,
    \* the code of its local error, which is latest_error between calls, and the
    \* variable passed by reference
    pc, call, attempts, error, out,
    \* history: how often the record was written during the current call, and
    \* how many writes guarded by "eq" were applied to each generation since
    \* the record was created
    applied, wins

client == <<pc, call, attempts, error, out, applied>>
vars == <<generation, delayed, client, wins>>

NoCall == [method |-> "none"]

Request == [method : Methods, policy : {"ignore", "eq", "gt"}, gen : 0 .. MaxGen]

TypeOK ==
    /\ generation \in 0 .. MaxGen
    /\ delayed \subseteq Request
    /\ pc \in [Clients -> {"idle", "sent", "replied"}]
    /\ call \in [Clients -> Inputs \cup {NoCall}]
    /\ attempts \in [Clients -> 0 .. 2]
    /\ error \in [Clients -> Status]
    /\ out \in [Clients -> {"null", "empty", "partial", "record"}]
    /\ applied \in [Clients -> 0 .. 2]
    /\ wins \in [0 .. MaxGen -> Nat]

NoWins == [v \in 0 .. MaxGen |-> 0]

Init ==
    /\ generation = 0
    /\ delayed = {}
    /\ pc = [c \in Clients |-> "idle"]
    /\ call = [c \in Clients |-> NoCall]
    /\ attempts = [c \in Clients |-> 0]
    /\ error = [c \in Clients |-> "OK"]
    /\ out = [c \in Clients |-> "null"]
    /\ applied = [c \in Clients |-> 0]
    /\ wins = NoWins

-----------------------------------------------------------------------------
(***************************************************************************)
(* The checks before the request, per method in the order of the code:     *)
(* what may be wrong and the error that as_error_update sets.  put and     *)
(* remove also call set_generation_value, but go on whatever it returns,   *)
(* and the C client resets the error: for them a bad generation is no      *)
(* early return.                                                           *)
(***************************************************************************)
Check(defect, errors) == [defect |-> defect, errors |-> errors]

\* php_key_to_as_key; as_key_init_* may fail as well.
KeyCheck == Check("key", {"ERR_PARAM", "ERR_CLIENT"})

\* set_policy: the options must be an array or null.
OptionsCheck == Check("options", {"ERR_PARAM"})

\* php_record_to_as_record: bin names, bin values, and the pool they come from.
RecordCheck == Check("record", {"ERR_PARAM", "ERR_BIN_NAME", "ERR_CLIENT"})

\* php_operations_to_as_operations.
OperationsCheck == Check("operations", {"ERR_PARAM", "ERR_CLIENT"})

\* set_generation_value and set_ttl_value, where their result is looked at.
GenerationCheck == Check("generation", {"ERR_PARAM"})

TtlCheck == Check("ttl", {"ERR_PARAM"})

\* set_nil_bins.
BinsCheck == Check("bins", {"ERR_PARAM", "ERR_CLIENT"})

\* The filter of get must be an array, and (process_filter_bins) one of strings.
FilterCheck == Check("filter", {"ERR_PARAM"})

FilterBinCheck == Check("filterBin", {"ERR_PARAM"})

CommonChecks ==
    << Check("handle", {"ERR_CLIENT"}), Check("connection", {"ERR_CLUSTER"}),
       KeyCheck, OptionsCheck >>

PutChecks == << RecordCheck >>

OperateChecks == << OperationsCheck, GenerationCheck, TtlCheck >>

RemoveBinChecks == << GenerationCheck, TtlCheck, BinsCheck >>

GetChecks == << FilterCheck, FilterBinCheck >>

\* remove calls set_generation_value without looking at its result.
RemoveChecks == << >>

ExistsChecks == << >>

OwnChecks(method) ==
    CASE method = "put" -> PutChecks
      [] method = "operate" -> OperateChecks
      [] method = "removeBin" -> RemoveBinChecks
      [] method = "get" -> GetChecks
      [] method = "remove" -> RemoveChecks
      [] method = "exists" -> ExistsChecks

ArgumentChecks(method) == CommonChecks \o OwnChecks(method)

DefectsOf(in) ==
    in.bad \cup IF in.gen.value = BadValue THEN {"generation"} ELSE {}

\* The check that a call with these arguments returns at.
FailsAt(in, i) ==
    LET checks == ArgumentChecks(in.method)
    IN  /\ i \in DOMAIN checks
        /\ checks[i].defect \in DefectsOf(in)
        /\ \A j \in 1 .. i - 1 : checks[j].defect \notin DefectsOf(in)

\* Mutant: the generation is sent as it was given.
FullGenerationValue(value) == IF value = BadValue THEN 0 ELSE value

\* set_generation_value: the integer is cut to the uint16_t of the request, which
\* keeps its initial 0 if the value is no integer.
SetGenerationValue(value) == IF value = BadValue THEN 0 ELSE value % GenModulus

\* Mutant: set_policy forgets the generation policy.
SetPolicyForgets(in) == "ignore"

\* set_policy: the first element of the option, whatever the second is.
SetPolicy(in) == in.gen.policy

RequestOf(in) == [method |-> in.method,
                  policy |-> SetPolicy(in),
                  gen    |-> SetGenerationValue(in.gen.value)]

\* get assigns an empty array to php_rec when process_filter_bins fails, and
\* leaves it alone when the filter is no array.
OutOnFailedCheck(c, defect) == IF defect = "filterBin" THEN "empty" ELSE out[c]

\* The call returns before anything is sent; setError keeps the code.
CallRefused(c, in) ==
    /\ pc[c] = "idle"
    /\ \E i \in DOMAIN ArgumentChecks(in.method) :
        LET check == ArgumentChecks(in.method)[i]
        IN  /\ FailsAt(in, i)
            /\ \E e \in check.errors : error' = [error EXCEPT ![c] = e]
            /\ out' = [out EXCEPT ![c] = OutOnFailedCheck(c, check.defect)]
    /\ UNCHANGED <<generation, delayed, pc, call, attempts, applied, wins>>

\* The checks hold; the C client sends the request.
CallSent(c, in) ==
    /\ pc[c] = "idle"
    /\ \A i \in DOMAIN ArgumentChecks(in.method) : ~FailsAt(in, i)
    /\ pc' = [pc EXCEPT ![c] = "sent"]
    /\ call' = [call EXCEPT ![c] = in]
    /\ attempts' = [attempts EXCEPT ![c] = 1]
    /\ error' = [error EXCEPT ![c] = "OK"]
    /\ applied' = [applied EXCEPT ![c] = 0]
    /\ UNCHANGED <<generation, delayed, out, wins>>

-----------------------------------------------------------------------------
(***************************************************************************)
(* The cluster (external).  A record that does not exist counts as one of  *)
(* generation 0; a write raises the generation by one, and removing the    *)
(* record or its last bin ends it.                                         *)
(***************************************************************************)
GenerationAllows(req) ==
    CASE req.policy = "eq" -> req.gen = generation
      [] req.policy = "gt" -> req.gen > generation
      [] OTHER -> TRUE

NeedsRecord(req) == req.method \in {"get", "exists", "remove", "removeBin"}

Answer(req) ==
    IF NeedsRecord(req) /\ generation = 0 THEN "ERR_RECORD_NOT_FOUND"
    ELSE IF req.method \in WriteMethods /\ ~GenerationAllows(req) THEN "ERR_RECORD_GENERATION"
    ELSE "OK"

Writes(req) == req.method \in WriteMethods /\ Answer(req) = "OK"

\* What the record's generation may become.
Effects(req) ==
    IF Writes(req)
    THEN (IF req.method \in {"remove", "removeBin"} THEN {0} ELSE {})
            \cup (IF req.method = "remove" THEN {} ELSE {generation + 1})
    ELSE {generation}

\* A write that its caller guarded by "eq" against the value that was sent.
Wins(req, guarded, after) ==
    IF ~Writes(req) THEN wins
    ELSE IF after = 0 THEN NoWins
    ELSE IF guarded THEN [wins EXCEPT ![req.gen] = @ + 1]
    ELSE wins

\* The cluster handles req.  MaxGen bounds the generation.
Handle(req, guarded) ==
    \E after \in Effects(req) :
        /\ after <= MaxGen
        /\ generation' = after
        /\ wins' = Wins(req, guarded, after)

\* OPT_POLICY_RETRY: the C client sends the request once more.
MayRetry(c) == call[c].retry /\ attempts[c] < 2

\* The client hears nothing: it tries again or gives up.
NoAnswer(c) ==
    IF MayRetry(c)
    THEN /\ attempts' = [attempts EXCEPT ![c] = @ + 1]
         /\ UNCHANGED <<pc, error>>
    ELSE /\ pc' = [pc EXCEPT ![c] = "replied"]
         /\ error' = [error EXCEPT ![c] = "ERR_TIMEOUT"]
         /\ UNCHANGED attempts

CountApplied(c, req) ==
    applied' = [applied EXCEPT ![c] = IF Writes(req) THEN @ + 1 ELSE @]

Served(c) ==
    LET req == RequestOf(call[c])
    IN  /\ pc[c] = "sent"
        /\ Handle(req, call[c].gen.policy = "eq")
        /\ CountApplied(c, req)
        /\ pc' = [pc EXCEPT ![c] = "replied"]
        /\ error' = [error EXCEPT ![c] = Answer(req)]
        /\ UNCHANGED <<delayed, call, attempts, out>>

AnswerLost(c) ==
    LET req == RequestOf(call[c])
    IN  /\ pc[c] = "sent"
        /\ Handle(req, call[c].gen.policy = "eq")
        /\ CountApplied(c, req)
        /\ NoAnswer(c)
        /\ UNCHANGED <<delayed, call, out>>

RequestLost(c) ==
    /\ pc[c] = "sent"
    /\ NoAnswer(c)
    /\ UNCHANGED <<generation, delayed, call, out, applied, wins>>

RequestDelayed(c) ==
    /\ pc[c] = "sent"
    /\ call[c].method \in WriteMethods
    /\ Cardinality(delayed) < MaxDelayed
    /\ delayed' = delayed \cup {RequestOf(call[c])}
    /\ NoAnswer(c)
    /\ UNCHANGED <<generation, call, out, applied, wins>>

DelayedArrives(req) ==
    /\ Handle(req, req.policy = "eq")
    /\ delayed' = delayed \ {req}
    /\ UNCHANGED client

-----------------------------------------------------------------------------
(***************************************************************************)
(* The rest of a call.  Whatever it does to error is in latest_error and   *)
(* in the return value when it ends.                                       *)
(***************************************************************************)
Converts(method) == method \in {"get", "operate"}

\* Mutant: get and operate assign their result only if there is one.
OutOnErrorKept(c) == out[c]

\* get and operate assign the array they have created even if it is empty;
\* exists assigns metadata only in the branch of AEROSPIKE_OK.
OutOnError(c) == IF Converts(call[c].method) THEN "empty" ELSE out[c]

OutOnOK(c) == IF call[c].method \in {"get", "operate", "exists"} THEN "record" ELSE out[c]

\* Mutant: the error of the C client is reset before setError.
FinalCodeReset(c) == "OK"

FinalCode(c) == error[c]

EndCall(c) ==
    /\ pc' = [pc EXCEPT ![c] = "idle"]
    /\ call' = [call EXCEPT ![c] = NoCall]
    /\ attempts' = [attempts EXCEPT ![c] = 0]
    /\ applied' = [applied EXCEPT ![c] = 0]
    /\ UNCHANGED <<generation, delayed, wins>>

ReturnOK(c) ==
    /\ pc[c] = "replied" /\ error[c] = "OK"
    /\ out' = [out EXCEPT ![c] = OutOnOK(c)]
    /\ EndCall(c)
    /\ UNCHANGED error

ReturnError(c) ==
    /\ pc[c] = "replied" /\ error[c] # "OK"
    /\ out' = [out EXCEPT ![c] = OutOnError(c)]
    /\ error' = [error EXCEPT ![c] = FinalCode(c)]
    /\ EndCall(c)

\* bins_to_php_bins meets a value it cannot convert: the bins before it are
\* handed out, and the call fails although the cluster has carried it out.
ReturnUnconvertible(c) ==
    /\ pc[c] = "replied" /\ error[c] = "OK"
    /\ Converts(call[c].method)
    /\ out' = [out EXCEPT ![c] = "partial"]
    /\ \E e \in {"ERR_CLIENT", "ERR_PARAM"} : error' = [error EXCEPT ![c] = e]
    /\ EndCall(c)

Return(c) == ReturnOK(c) \/ ReturnError(c) \/ ReturnUnconvertible(c)

Next ==
    \/ \E c \in Clients :
        \/ \E in \in Inputs : CallRefused(c, in) \/ CallSent(c, in)
        \/ Served(c) \/ AnswerLost(c) \/ RequestLost(c) \/ RequestDelayed(c)
        \/ Return(c)
    \/ \E req \in delayed : DelayedArrives(req)

Spec == Init /\ [][Next]_vars
-----------------------------------------------------------------------------
(***************************************************************************)
(* Properties.                                                             *)
(***************************************************************************)
\* The optimistic lock that POLICY_GEN_EQ gives to put, operate, remove and
\* removeBin: of all writes guarded against the same generation of a record at
\* most one is applied, whichever requests send them and however often the
\* C client repeats them or the network delays them.
OneWinner == \A v \in 0 .. MaxGen : wins[v] <= 1

Returns(c) == pc[c] = "replied" /\ pc'[c] = "idle"

\* What a method returns agrees with what became of its write, over losses and
\* retries.  OK: it was applied.  A refusal without a retry: it was not.  An
\* error of the extension itself: it was not, except that operate may fail to
\* convert the answer to a write that was applied.
ReportAgrees ==
    [][\A c \in Clients :
        Returns(c) /\ call[c].method \in WriteMethods =>
            /\ error'[c] = "OK" => applied[c] >= 1
            /\ error'[c] \in Refusals /\ ~call[c].retry => applied[c] = 0
            /\ error'[c] \in LocalErrors => call[c].method = "operate"]_vars

\* get and operate never leave the result of an earlier call in the caller's
\* variable once they have sent a request: when they fail, it holds an empty
\* array or the bins converted before the failure.
NoStaleRecord ==
    [][\A c \in Clients :
        Returns(c) /\ Converts(call[c].method) /\ error'[c] # "OK" => out'[c] # "record"]_vars
=============================================================================
