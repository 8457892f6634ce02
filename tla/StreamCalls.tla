---------------------------- MODULE StreamCalls -----------------------------
(***************************************************************************)
(* scan, query and aggregate (main/ext_aerospike.cpp) with their callbacks *)
(* (main/scan_operation.cpp), on the connections of ConnectionPool.        *)
(*                                                                         *)
(* These calls run inside the C client (external), which reads records and *)
(* calls back for each of them.  The callback of scan and query runs PHP   *)
(* code of the script, which may call any method, also on the object whose *)
(* scan is running; at the same time other requests construct, close and   *)
(* sweep objects that share the handle.  The handle is the one that the    *)
(* object had when the call began.                                         *)
(*                                                                         *)
(* The error of the call is one as_error, which every conversion resets    *)
(* and the C client reports into.                                          *)
(***************************************************************************)
EXTENDS ConnectionPool

VARIABLE
    stream    \* per object: the scan, query or aggregate it is executing

allVars == <<vars, stream>>

\* scan and query have the same callback: "scan" stands for both.
Kinds == {"scan", "aggregate"}

\* The errors of a conversion are one here.
ConversionError == "PARAM"

\* at: the C client is reading, the PHP callback is running, or the C client has
\* returned; opened: the handle had a cluster when the call began; failed: the
\* conversion of some record failed; error: the as_error of the call.
Streams == [kind : Kinds, at : {"reading", "callback", "returned"}, handle : Refs,
            opened : BOOLEAN, failed : BOOLEAN, error : {"OK", ConversionError, "CLUSTER"}]

NoStream == [kind |-> "none"]

Running(o) == stream[o] # NoStream

StreamTypeOK ==
    stream \in [Objects -> Streams \cup {NoStream}]

StreamInit ==
    /\ Init
    /\ stream = [o \in Objects |-> NoStream]

-----------------------------------------------------------------------------
(* The calls *)

\* The script can call a method of the object: it is not inside the C client.
InScript(o) == Running(o) => stream[o].at = "callback"

\* Bound: a callback does not start a second stream on its own object.
CanStream(o) == CanCall(o) /\ ~Running(o)

\* What the methods check before they call the C client: the handle, the
\* connection, then the arguments (initialize_scan, initialize_query,
\* initialize_aggregate, set_policy, set_scan_policies).
Refusals(o) ==
    IF as_ref_p[o] = Null THEN {"CLIENT"}
    ELSE IF ~is_connected[o] THEN {"CLUSTER"}
    ELSE {"PARAM"}

RefuseStream(o) ==
    /\ CanStream(o)
    /\ \E e \in Refusals(o) : Return(o, e)
    /\ UNCHANGED <<lock, persistent_list, refs, as_ref_p, is_connected,
                   is_persistent, main, stream>>

\* The handle that aerospike_scan_foreach and aerospike_query_foreach work on.
StartStream(o, kind) ==
    /\ CanStream(o)
    /\ as_ref_p[o] # Null
    /\ is_connected[o]
    /\ stream' = [stream EXCEPT ![o] =
                    [kind |-> kind, at |-> "reading", handle |-> as_ref_p[o],
                     opened |-> cluster[as_ref_p[o]], failed |-> FALSE, error |-> "OK"]]
    /\ UNCHANGED vars

\* aggregate_callback stops at a value it cannot convert; scan_query_callback
\* hands what it has to the script and goes on.  Mutant: so does aggregate.
AfterFailureGoesOn(kind) == IF kind = "aggregate" THEN "reading" ELSE "callback"
AfterFailure(kind) == IF kind = "aggregate" THEN "returned" ELSE "callback"

AfterSuccess(kind) == IF kind = "aggregate" THEN "reading" ELSE "callback"

\* A record arrives and is converted: the conversion resets the error first.
DeliverGood(o) ==
    /\ Running(o)
    /\ stream[o].at = "reading"
    /\ cluster[stream[o].handle]
    /\ stream' = [stream EXCEPT ![o].at = AfterSuccess(stream[o].kind), ![o].error = "OK"]
    /\ UNCHANGED vars

DeliverBad(o) ==
    /\ Running(o)
    /\ stream[o].at = "reading"
    /\ cluster[stream[o].handle]
    /\ stream' = [stream EXCEPT ![o].at = AfterFailure(stream[o].kind),
                                ![o].error = ConversionError, ![o].failed = TRUE]
    /\ UNCHANGED vars

\* The callback of the script returns: false ends the scan, anything else does not.
CallbackReturns(o) ==
    /\ Running(o)
    /\ stream[o].at = "callback"
    /\ pc[o] = "idle"
    /\ \E next \in {"reading", "returned"} : stream' = [stream EXCEPT ![o].at = next]
    /\ UNCHANGED vars

\* The callback throws: the exception leaves the C client and the method, which
\* does not get to setError.
CallbackThrows(o) ==
    /\ Running(o)
    /\ stream[o].at = "callback"
    /\ pc[o] = "idle"
    /\ stream' = [stream EXCEPT ![o] = NoStream]
    /\ UNCHANGED vars

\* The C client has read all records.
EndOfRecords(o) ==
    /\ Running(o)
    /\ stream[o].at = "reading"
    /\ stream' = [stream EXCEPT ![o].at = "returned"]
    /\ UNCHANGED vars

\* The C client gives up, as it must when its cluster has been closed.
ClientGivesUp(o) ==
    /\ Running(o)
    /\ stream[o].at = "reading"
    /\ stream' = [stream EXCEPT ![o].at = "returned", ![o].error = "CLUSTER"]
    /\ UNCHANGED vars

\* The call returns.  aggregate assigns the values it has, also after a failure.
StreamReturns(o) ==
    /\ Running(o)
    /\ stream[o].at = "returned"
    /\ Return(o, stream[o].error)
    /\ stream' = [stream EXCEPT ![o] = NoStream]
    /\ UNCHANGED <<lock, persistent_list, refs, as_ref_p, is_connected,
                   is_persistent, main>>

StreamStep(o) ==
    \/ RefuseStream(o) \/ \E kind \in Kinds : StartStream(o, kind)
    \/ DeliverGood(o) \/ DeliverBad(o) \/ CallbackReturns(o) \/ CallbackThrows(o)
    \/ EndOfRecords(o) \/ ClientGivesUp(o) \/ StreamReturns(o)

-----------------------------------------------------------------------------
(* The composition *)

\* The lifecycle calls that a script makes: between its streams and in their
\* callbacks.  Mutant: the objects of a request are swept while it scans.
ScriptStepSweeps(o) ==
    /\ InScript(o)
    /\ ConstructStep(o) \/ LockAndLoad(o) \/ CloseStep(o) \/ ReconnectStep(o) \/ SweepStep(o)
    /\ UNCHANGED stream
ScriptStep(o) ==
    /\ InScript(o)
    /\ ConstructStep(o) \/ LockAndLoad(o) \/ CloseStep(o) \/ ReconnectStep(o)
    /\ UNCHANGED stream

\* The running call holds a reference to its object, which keeps it from being
\* swept.
EndObject(o) ==
    /\ ~Running(o)
    /\ SweepStep(o)
    /\ UNCHANGED stream

StreamNext ==
    \/ \E o \in Objects : ScriptStep(o) \/ EndObject(o) \/ StreamStep(o)
    \/ (ShutdownStep \/ Ended) /\ UNCHANGED stream

StreamSpec == StreamInit /\ [][StreamNext]_allVars

-----------------------------------------------------------------------------
(* Properties *)

\* The aerospike_ref that a running scan, query or aggregate works on stays
\* allocated until the call has returned, whatever the callback calls on the same
\* object and whatever other requests do to objects that share it.
StreamHandleAllocated ==
    \A o \in Objects : Running(o) => stream[o].handle \in live

\* A scan over a persistent handle is never cut off from its cluster: if it was
\* open when the call began, then neither close in the callback nor close and
\* sweep in other requests close it under the C client.
SharedStreamStaysOpen ==
    \A o \in Objects :
        Running(o) /\ stream[o].opened /\ ref_host_entry[stream[o].handle] > 0
            => cluster[stream[o].handle]

\* Nobody but the callback itself can close a handle that a stream is using.
OnlyCallbackCloses ==
    [][\A o \in Objects :
        Running(o) /\ cluster[stream[o].handle] /\ ~cluster'[stream[o].handle]
            => stream[o].at = "callback" /\ ~is_persistent[o]]_allVars

\* aggregate does not return OK over a value that it could not convert.  (scan and
\* query do return OK over such a record, if another one comes after it.)
AggregateReportsFailure ==
    [][\A o \in Objects :
        Running(o) /\ stream'[o] = NoStream /\ stream[o].kind = "aggregate"
            /\ latest_error'[o] = "OK"
            => ~stream[o].failed]_allVars
=============================================================================
