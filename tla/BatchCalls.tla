----------------------------- MODULE BatchCalls -----------------------------
(***************************************************************************)
(* getMany and existsMany (main/ext_aerospike.cpp) with the class that     *)
(* carries them out (main/batch_op_manager.cpp).                           *)
(*                                                                         *)
(* A call copies the PHP keys into an as_batch, the C client (external)    *)
(* fetches a result per key and hands all of them to the callback, and the *)
(* callback fills the PHP array that the caller finds in its variable.     *)
(* That array is indexed by the label of a key, its value or its digest,   *)
(* not by namespace and set: different keys may have the same label.       *)
(* The error of the call is one as_error, shared by the call, the C client *)
(* and the callback.                                                       *)
(***************************************************************************)
EXTENDS Integers, Sequences, FiniteSets

CONSTANTS
    Keys,           \* keys that php_key_to_as_key accepts
    Labels,         \* the array keys of the results
    Label,          \* the label that populate_result_for_get_exists_many uses
    BadKey,         \* an element that is no array, or no key
    Null,           \* PHP's null: the result of a key without a record
    Garbage,        \* an as_key that nobody has initialised
    Requests,       \* the arguments that callers pass
    IndexModulus    \* 2^16 in the code: batch_iter and i are uint16_t

\* What is wrong with the arguments other than the keys.
Defects == {"handle", "connection", "options", "filter", "filterBin"}

\* What a result holds: a record, a record that cannot be converted, no record,
\* or another status of the C client.
Codes == {"OK", "OK_UNCONVERTIBLE", "NOT_FOUND", "OTHER"}

ASSUME BatchAssumption ==
    /\ Label \in [Keys -> Labels]
    /\ Null \notin Keys /\ BadKey \notin Keys /\ Garbage \notin Keys
    /\ Requests \subseteq [method : {"getMany", "existsMany"},
                           keys   : Seq(Keys \cup {BadKey}),
                           bad    : SUBSET Defects]
    /\ IndexModulus \in Nat \ {0}

\* The loops over fewer keys than the index can count; with more of them the
\* callback starts over for ever.
ASSUME SizeAssumption == \A r \in Requests : Len(r.keys) < IndexModulus

VARIABLES
    pc,           \* where the call is
    call,         \* its arguments; those of the last call between calls
    batch,        \* the keys of BatchOpManager::batch
    index,        \* batch_iter, then the i of the callback
    results,      \* what the C client got for every key of the batch
    data,         \* the array that the callback fills
    error,        \* the as_error of the call, then latest_error
    out           \* the variable that was passed by reference

vars == <<pc, call, batch, index, results, data, error, out>>

Status == {"OK", "ERR_CLIENT", "ERR_CLUSTER", "ERR_PARAM", "ERR_TIMEOUT"}

NoCall == [method |-> "none", keys |-> <<>>, bad |-> {}]

Entries == UNION {[D -> Keys \cup {Null}] : D \in SUBSET Labels}

Empty == [l \in {} |-> Null]

Results(n) == [1 .. n -> Codes]

TypeOK ==
    /\ pc \in {"idle", "keys", "send", "callback", "stopped"}
    /\ call \in Requests \cup {NoCall}
    /\ batch \in [1 .. Len(call.keys) -> Keys \cup {Garbage}]
    /\ index \in 0 .. IndexModulus - 1
    /\ results \in Results(Len(call.keys)) \cup {<<>>}
    /\ data \in Entries
    /\ error \in Status
    /\ out \in Entries

Init ==
    /\ pc = "idle"
    /\ call = NoCall
    /\ batch = <<>>
    /\ index = 0
    /\ results = <<>>
    /\ data = Empty
    /\ error = "OK"
    /\ out = Empty

-----------------------------------------------------------------------------
(* The calls, up to the request *)

\* The call returns; setError records its error.
Return(code, value) ==
    /\ pc' = "idle"
    /\ error' = code
    /\ out' = value

\* There is no handle, or no connection.
RefuseConnection(r) ==
    /\ pc = "idle"
    /\ r.bad \cap {"handle", "connection"} # {}
    /\ call' = r
    /\ batch' = [j \in 1 .. Len(r.keys) |-> Garbage]
    /\ index' = 0
    /\ results' = <<>>
    /\ data' = Empty
    /\ Return(IF "handle" \in r.bad THEN "ERR_CLIENT" ELSE "ERR_CLUSTER", out)

\* as_batch_init reserves a slot for every key.
Begin(r) ==
    /\ pc = "idle"
    /\ r.bad \cap {"handle", "connection"} = {}
    /\ pc' = "keys"
    /\ call' = r
    /\ batch' = [j \in 1 .. Len(r.keys) |-> Garbage]
    /\ index' = 0
    /\ results' = <<>>
    /\ data' = Empty
    /\ error' = "OK"
    /\ UNCHANGED out

\* Both indexes are 16 bits wide.  Mutant: narrower ones.
SuccNarrow(i) == (i + 1) % (IndexModulus - 1)
Succ(i) == (i + 1) % IndexModulus

\* The number of keys that the constructor has seen: as long as batch_iter has not
\* wrapped, it is batch_iter.
NextKey == call.keys[index + 1]

\* as_batch_keyat of the current index.
Slot(i) == i + 1

\* The constructor copies a key.
AddKey ==
    /\ pc = "keys"
    /\ index < Len(call.keys)
    /\ NextKey \in Keys
    /\ batch' = [batch EXCEPT ![Slot(index)] = NextKey]
    /\ index' = Succ(index)
    /\ UNCHANGED <<pc, call, results, data, error, out>>

\* It throws, and getMany and existsMany catch the exception.
RejectKey ==
    /\ pc = "keys"
    /\ index < Len(call.keys)
    /\ NextKey \notin Keys
    /\ Return("ERR_CLIENT", out)
    /\ UNCHANGED <<call, batch, index, results, data>>

\* set_policy refuses the options: the caller's variable is not assigned.
RejectOptions ==
    /\ pc = "keys"
    /\ index = Len(call.keys)
    /\ "options" \in call.bad
    /\ Return("ERR_PARAM", out)
    /\ UNCHANGED <<call, batch, index, results, data>>

BadFilter ==
    call.method = "getMany" /\ call.bad \cap {"filter", "filterBin"} # {}

\* execute_batch_get refuses the filter: the variable gets the empty array.
RejectFilter ==
    /\ pc = "keys"
    /\ index = Len(call.keys)
    /\ "options" \notin call.bad
    /\ BadFilter
    /\ Return("ERR_PARAM", data)
    /\ UNCHANGED <<call, batch, index, results, data>>

Send ==
    /\ pc = "keys"
    /\ index = Len(call.keys)
    /\ "options" \notin call.bad
    /\ ~BadFilter
    /\ pc' = "send"
    /\ UNCHANGED <<call, batch, index, results, data, error, out>>

-----------------------------------------------------------------------------
(* The C client (external) and the callback *)

\* The request fails as a whole: the callback is not called, and the variable
\* gets the empty array.
RequestFails ==
    /\ pc = "send"
    /\ Return("ERR_TIMEOUT", data)
    /\ UNCHANGED <<call, batch, index, results, data>>

\* existsMany converts metadata only, which cannot fail.
Possible(codes) ==
    call.method = "existsMany" => \A j \in DOMAIN codes : codes[j] # "OK_UNCONVERTIBLE"

\* The callback is called with a result for every key of the batch.
Answered ==
    /\ pc = "send"
    /\ \E codes \in Results(Len(call.keys)) :
        /\ Possible(codes)
        /\ results' = codes
    /\ pc' = "callback"
    /\ index' = 0
    /\ UNCHANGED <<call, batch, data, error, out>>

Current == results[index + 1]

CurrentKey == batch[index + 1]

\* populate_result_for_get_exists_many.  Mutant: an entry that is there already
\* stays.
PopulateFirst(entries, l, value) ==
    IF l \in DOMAIN entries THEN entries
    ELSE [m \in DOMAIN entries \cup {l} |-> IF m = l THEN value ELSE entries[m]]
Populate(entries, l, value) ==
    [m \in DOMAIN entries \cup {l} |-> IF m = l THEN value ELSE entries[m]]

EntryOf(k, code) == IF code = "OK" THEN k ELSE Null

\* A record or the absence of one becomes an entry.
VisitResult ==
    /\ pc = "callback"
    /\ index < Len(call.keys)
    /\ Current \in {"OK", "NOT_FOUND"}
    /\ data' = Populate(data, Label[CurrentKey], EntryOf(CurrentKey, Current))
    /\ index' = Succ(index)
    /\ UNCHANGED <<pc, call, batch, results, error, out>>

\* as_record_to_php_record fails.  Mutant: its error is left to the next result,
\* where populate_result_for_get_exists_many resets it.
ConversionFailsUnreported == pc' = "stopped" /\ UNCHANGED error
ConversionFails ==
    /\ pc' = "stopped"
    /\ error' \in {"ERR_CLIENT", "ERR_PARAM"}

StopUnconvertible ==
    /\ pc = "callback"
    /\ index < Len(call.keys)
    /\ Current = "OK_UNCONVERTIBLE"
    /\ ConversionFails
    /\ UNCHANGED <<call, batch, index, results, data, out>>

\* Any other result: the callback returns false and sets no error.
StopOther ==
    /\ pc = "callback"
    /\ index < Len(call.keys)
    /\ Current = "OTHER"
    /\ pc' = "stopped"
    /\ UNCHANGED <<call, batch, index, results, data, error, out>>

\* All results are visited: the callback returns true.
ReturnAll ==
    /\ pc = "callback"
    /\ index = Len(call.keys)
    /\ Return(error, data)
    /\ UNCHANGED <<call, batch, index, results, data>>

\* The callback has returned false.  Whether the C client reports that as an error
\* of its own is up to it; it does not withdraw one.
ReturnStopped ==
    /\ pc = "stopped"
    /\ Return(error, data) \/ (error = "OK" /\ Return("ERR_CLIENT", data))
    /\ UNCHANGED <<call, batch, index, results, data>>

Step ==
    \/ AddKey \/ RejectKey \/ RejectOptions \/ RejectFilter \/ Send
    \/ RequestFails \/ Answered
    \/ VisitResult \/ StopUnconvertible \/ StopOther
    \/ ReturnAll \/ ReturnStopped

Next == Step \/ \E r \in Requests : RefuseConnection(r) \/ Begin(r)

Spec == Init /\ [][Next]_vars

\* A call goes on until it returns: it waits for nobody but the C client, which
\* has a timeout.
FairSpec == Spec /\ WF_vars(Step)

-----------------------------------------------------------------------------
(* Properties *)

\* The results up to position n.
LabelAt(j) == Label[call.keys[j]]

LastWithLabel(j, n) == \A m \in j + 1 .. n : LabelAt(m) # LabelAt(j)

\* The entries that the first n results call for: one for every label among the
\* requested keys, the answer to the last key with that label.
HoldsPrefix(entries, n) ==
    /\ DOMAIN entries = {LabelAt(j) : j \in 1 .. n}
    /\ \A j \in 1 .. n :
        LastWithLabel(j, n) => entries[LabelAt(j)] = EntryOf(call.keys[j], results[j])

\* The array that the callback of getMany and existsMany builds holds the answers
\* to the keys the script passed, key by key up to where the callback is, also
\* when it stops early: never a record under the label of another key, never an
\* entry for a key that was not asked for.
AnswersMatchKeys ==
    pc \in {"callback", "stopped"} => HoldsPrefix(data, index)

\* getMany and existsMany return OK only with the complete answer: the variable
\* holds an entry for every label of the request, and nothing of an earlier call.
\* The exception is a key whose result was neither a record nor its absence, which
\* the callback meets without setting an error.
OkIsComplete ==
    pc = "idle" /\ call # NoCall /\ error = "OK" =>
        \/ HoldsPrefix(out, Len(call.keys))
        \/ \E j \in DOMAIN results : results[j] = "OTHER"

\* A record that cannot be converted is never passed over: unless a result of
\* another status stopped the callback before it, getMany reports an error.
BadRecordReported ==
    pc = "idle" /\ error = "OK" =>
        \A j \in DOMAIN results :
            results[j] = "OK_UNCONVERTIBLE" => \E m \in 1 .. j - 1 : results[m] = "OTHER"

\* Every call returns, also one with as many keys as the 16-bit index can count.
CallReturns == pc # "idle" ~> pc = "idle"
=============================================================================
