-------------------------- MODULE BatchCallsProofs --------------------------
(***************************************************************************)
(* getMany and existsMany answer key by key, for every set of keys, every  *)
(* labelling and every batch that the 16-bit index can count.              *)
(*                                                                         *)
(* The invariant follows a call through its three phases: the constructor  *)
(* has copied the keys before batch_iter; once the request is sent all of  *)
(* them are copied; and in the callback the array holds the answers before *)
(* i, with the reason why the callback stopped, if it did.                 *)
(***************************************************************************)
EXTENDS BatchCalls, TLAPS

N == Len(call.keys)

\* The first n keys of the batch are those that the script passed.
Copied(n) == \A j \in 1 .. n : call.keys[j] \in Keys /\ batch[j] = call.keys[j]

Filling ==
    pc \in {"keys", "send"} =>
        /\ Copied(index)
        /\ data = Empty
        /\ error = "OK"
        /\ pc = "send" => index = N

Calling ==
    pc \in {"callback", "stopped"} =>
        /\ Copied(N)
        /\ results \in Results(N)
        /\ HoldsPrefix(data, index)
        /\ \A j \in 1 .. index : results[j] \in {"OK", "NOT_FOUND"}

Stopping ==
    /\ pc = "callback" => error = "OK"
    /\ pc = "stopped" =>
        /\ index < N
        /\ \/ results[index + 1] = "OTHER" /\ error = "OK"
           \/ results[index + 1] = "OK_UNCONVERTIBLE" /\ error # "OK"

Basics ==
    /\ pc \in {"idle", "keys", "send", "callback", "stopped"}
    /\ call \in Requests \cup {NoCall}
    /\ DOMAIN batch = 1 .. N
    /\ index \in 0 .. N
    /\ pc = "idle" /\ error = "OK" => results = <<>> \/ results \in Results(N)

BatchInv ==
    /\ Basics
    /\ Filling
    /\ Calling
    /\ Stopping
    /\ OkIsComplete
    /\ BadRecordReported

-----------------------------------------------------------------------------
\* The length of a key list is a number below the modulus.
LEMMA KeyCount ==
    ASSUME NEW r \in Requests \cup {NoCall}
    PROVE  /\ Len(r.keys) \in Nat
           /\ r \in Requests => Len(r.keys) < IndexModulus
           /\ r.keys \in Seq(Keys \cup {BadKey})
<1>1. CASE r \in Requests
  <2>1. r.keys \in Seq(Keys \cup {BadKey})
    BY <1>1, BatchAssumption
  <2> QED
    BY <1>1, <2>1, SizeAssumption
<1>2. CASE r = NoCall /\ r \notin Requests
  <2>1. r.keys = <<>>
    BY <1>2 DEF NoCall
  <2> QED
    BY <1>2, <2>1
<1> QED
  BY <1>1, <1>2

\* The 16-bit index does not wrap while there is a key left.
LEMMA NoWrap ==
    ASSUME Basics, index < N
    PROVE  Succ(index) = index + 1 /\ index + 1 \in 0 .. N
<1>1. N \in Nat /\ index \in Nat /\ (call \in Requests => N < IndexModulus)
  BY KeyCount DEF Basics, N
<1>2. call \in Requests
  <2>1. call # NoCall
    BY <1>1 DEF NoCall, N
  <2> QED
    BY <2>1 DEF Basics
<1>3. index + 1 < IndexModulus
  BY <1>1, <1>2, BatchAssumption
<1> QED
  BY <1>1, <1>3, BatchAssumption DEF Succ

\* The answer to one more key extends a prefix of the answers by one.
LEMMA PrefixGrows ==
    ASSUME NEW entries, NEW n \in Nat, NEW k,
           HoldsPrefix(entries, n),
           k = call.keys[n + 1],
           Label[k] = LabelAt(n + 1)
    PROVE  HoldsPrefix(Populate(entries, Label[k], EntryOf(k, results[n + 1])), n + 1)
<1> DEFINE new == Populate(entries, Label[k], EntryOf(k, results[n + 1]))
<1>1. DOMAIN new = {LabelAt(j) : j \in 1 .. n + 1}
  <2>1. DOMAIN new = DOMAIN entries \cup {LabelAt(n + 1)}
    BY DEF Populate
  <2>2. DOMAIN entries = {LabelAt(j) : j \in 1 .. n}
    BY DEF HoldsPrefix
  <2>3. 1 .. n + 1 = (1 .. n) \cup {n + 1}
    OBVIOUS
  <2> QED
    BY <2>1, <2>2, <2>3
<1>2. ASSUME NEW j \in 1 .. n + 1, LastWithLabel(j, n + 1)
      PROVE  new[LabelAt(j)] = EntryOf(call.keys[j], results[j])
  <2>1. CASE j = n + 1
    BY <2>1 DEF Populate
  <2>2. CASE j # n + 1
    <3>1. j \in 1 .. n
      BY <2>2
    <3>2. LabelAt(n + 1) # LabelAt(j)
      BY <1>2, <3>1 DEF LastWithLabel
    <3>3. LastWithLabel(j, n)
      BY <1>2, <3>1 DEF LastWithLabel
    <3>4. entries[LabelAt(j)] = EntryOf(call.keys[j], results[j]) /\ LabelAt(j) \in DOMAIN entries
      BY <3>1, <3>3 DEF HoldsPrefix
    <3> QED
      BY <3>2, <3>4 DEF Populate
  <2> QED
    BY <2>1, <2>2
<1> QED
  BY <1>1, <1>2 DEF HoldsPrefix

-----------------------------------------------------------------------------
LEMMA InitBatch == Init => BatchInv
<1> SUFFICES ASSUME Init PROVE BatchInv
  OBVIOUS
<1>1. Basics
  BY DEF Init, Basics, N, NoCall
<1>2. Filling /\ Calling /\ Stopping
  BY DEF Init, Filling, Calling, Stopping
<1>3. OkIsComplete /\ BadRecordReported
  BY DEF Init, OkIsComplete, BadRecordReported
<1> QED
  BY <1>1, <1>2, <1>3 DEF BatchInv

\* A new call.
LEMMA StartBatch ==
    ASSUME BatchInv, NEW r \in Requests, RefuseConnection(r) \/ Begin(r)
    PROVE  BatchInv'
<1>1. Len(r.keys) \in Nat
  BY KeyCount
<1>2. Basics'
  BY <1>1 DEF RefuseConnection, Begin, Return, Basics, N
<1>3. Filling' /\ Calling' /\ Stopping'
  BY <1>1 DEF RefuseConnection, Begin, Return, Filling, Calling, Stopping, Copied
<1>4. OkIsComplete' /\ BadRecordReported'
  BY DEF RefuseConnection, Begin, Return, OkIsComplete, BadRecordReported
<1> QED
  BY <1>2, <1>3, <1>4 DEF BatchInv

\* A call that returns with an error.
LEMMA FailBatch ==
    ASSUME BatchInv, pc' = "idle", error' # "OK", UNCHANGED <<call, batch, index>>
    PROVE  BatchInv'
<1>1. Basics'
  BY DEF BatchInv, Basics, N
<1>2. Filling' /\ Calling' /\ Stopping' /\ OkIsComplete' /\ BadRecordReported'
  BY DEF Filling, Calling, Stopping, OkIsComplete, BadRecordReported
<1> QED
  BY <1>1, <1>2 DEF BatchInv

LEMMA AddKeyBatch == BatchInv /\ AddKey => BatchInv'
<1> SUFFICES ASSUME BatchInv, AddKey PROVE BatchInv'
  OBVIOUS
<1>1. Succ(index) = index + 1 /\ index + 1 \in 0 .. N /\ index \in Nat /\ N \in Nat
  BY NoWrap, KeyCount DEF BatchInv, AddKey, N, Basics
<1>2. index' = index + 1 /\ pc' = "keys" /\ N' = N
  BY <1>1 DEF AddKey, N
<1>3. Basics'
  BY <1>1, <1>2 DEF BatchInv, Basics, AddKey, N
<1>4. Copied(index)'
  <2> SUFFICES ASSUME NEW j \in 1 .. index + 1
               PROVE  call.keys[j] \in Keys /\ batch'[j] = call.keys[j]
    BY <1>2 DEF Copied, AddKey
  <2>1. index + 1 \in DOMAIN batch
    BY <1>1 DEF BatchInv, Basics
  <2>2. CASE j = index + 1
    BY <2>1, <2>2 DEF AddKey, NextKey, Slot
  <2>3. CASE j # index + 1
    <3>1. j \in 1 .. index
      BY <2>3, <1>1
    <3>2. call.keys[j] \in Keys /\ batch[j] = call.keys[j]
      BY <3>1 DEF BatchInv, Filling, Copied, AddKey
    <3>3. batch'[j] = batch[j]
      BY <2>1, <2>3, <1>1, <3>1 DEF AddKey, Slot, BatchInv, Basics
    <3> QED
      BY <3>2, <3>3
  <2> QED
    BY <2>2, <2>3
<1>5. Filling'
  BY <1>2, <1>4 DEF BatchInv, Filling, AddKey
<1>6. Calling' /\ Stopping' /\ OkIsComplete' /\ BadRecordReported'
  BY <1>2 DEF Calling, Stopping, OkIsComplete, BadRecordReported
<1> QED
  BY <1>3, <1>5, <1>6 DEF BatchInv

LEMMA SendBatch == BatchInv /\ Send => BatchInv'
<1> SUFFICES ASSUME BatchInv, Send PROVE BatchInv'
  OBVIOUS
<1>1. Basics'
  BY DEF BatchInv, Basics, Send, N
<1>2. Filling'
  BY DEF BatchInv, Filling, Send, Copied, N
<1>3. Calling' /\ Stopping' /\ OkIsComplete' /\ BadRecordReported'
  BY DEF Send, Calling, Stopping, OkIsComplete, BadRecordReported
<1> QED
  BY <1>1, <1>2, <1>3 DEF BatchInv

LEMMA AnsweredBatch == BatchInv /\ Answered => BatchInv'
<1> SUFFICES ASSUME BatchInv, Answered PROVE BatchInv'
  OBVIOUS
<1>1. N \in Nat /\ N' = N /\ results' \in Results(N)
  BY KeyCount DEF BatchInv, Basics, Answered, N
<1>2. Basics'
  BY <1>1 DEF BatchInv, Basics, Answered, N
<1>3. Copied(N)'
  BY <1>1 DEF BatchInv, Filling, Answered, Copied
<1>4. HoldsPrefix(data, index)'
  BY DEF BatchInv, Filling, Answered, HoldsPrefix, Empty
<1>5. Calling'
  BY <1>1, <1>3, <1>4 DEF Calling, Answered, Results
<1>6. Filling' /\ Stopping' /\ OkIsComplete' /\ BadRecordReported'
  BY DEF BatchInv, Answered, Filling, Stopping, OkIsComplete, BadRecordReported
<1> QED
  BY <1>2, <1>5, <1>6 DEF BatchInv

LEMMA VisitBatch == BatchInv /\ VisitResult => BatchInv'
<1> SUFFICES ASSUME BatchInv, VisitResult PROVE BatchInv'
  OBVIOUS
<1>1. Succ(index) = index + 1 /\ index + 1 \in 0 .. N /\ index \in Nat /\ N \in Nat
  BY NoWrap, KeyCount DEF BatchInv, VisitResult, N, Basics
<1>2. index' = index + 1 /\ pc' = "callback" /\ UNCHANGED <<call, batch, results, error, out>>
  BY <1>1 DEF VisitResult
<1>3. Basics'
  BY <1>1, <1>2 DEF BatchInv, Basics, N
<1>4. Copied(N) /\ results \in Results(N) /\ HoldsPrefix(data, index)
      /\ \A j \in 1 .. index : results[j] \in {"OK", "NOT_FOUND"}
  BY DEF BatchInv, Calling, VisitResult
<1>5. CurrentKey = call.keys[index + 1]
  BY <1>1, <1>4 DEF Copied, CurrentKey
<1>6. HoldsPrefix(data', index + 1)
  <2>1. data' = Populate(data, Label[CurrentKey], EntryOf(CurrentKey, results[index + 1]))
    BY DEF VisitResult, Current
  <2>2. Label[CurrentKey] = LabelAt(index + 1)
    BY <1>5 DEF LabelAt
  <2> QED
    BY <1>1, <1>4, <1>5, <2>1, <2>2, PrefixGrows
<1>7. HoldsPrefix(data, index)'
  BY <1>2, <1>6 DEF HoldsPrefix, LastWithLabel, LabelAt
<1>8. \A j \in 1 .. index + 1 : results[j] \in {"OK", "NOT_FOUND"}
  BY <1>1, <1>4 DEF VisitResult, Current
<1>9. Calling'
  BY <1>2, <1>4, <1>7, <1>8 DEF Calling, Copied, N
<1>10. Filling' /\ Stopping' /\ OkIsComplete' /\ BadRecordReported'
  BY <1>2 DEF BatchInv, Filling, Stopping, OkIsComplete, BadRecordReported, VisitResult
<1> QED
  BY <1>3, <1>9, <1>10 DEF BatchInv

LEMMA StopBatch == BatchInv /\ (StopUnconvertible \/ StopOther) => BatchInv'
<1> SUFFICES ASSUME BatchInv, StopUnconvertible \/ StopOther PROVE BatchInv'
  OBVIOUS
<1>1. pc = "callback" /\ pc' = "stopped" /\ UNCHANGED <<call, batch, index, results, data, out>>
  BY DEF StopUnconvertible, StopOther, ConversionFails
<1>2. Basics'
  BY <1>1 DEF BatchInv, Basics, N
<1>3. Calling'
  BY <1>1 DEF BatchInv, Calling, Copied, N, HoldsPrefix, LastWithLabel, LabelAt
<1>4. Stopping'
  BY <1>1 DEF BatchInv, Stopping, StopUnconvertible, StopOther, ConversionFails, Current, N
<1>5. Filling' /\ OkIsComplete' /\ BadRecordReported'
  BY <1>1 DEF Filling, OkIsComplete, BadRecordReported
<1> QED
  BY <1>2, <1>3, <1>4, <1>5 DEF BatchInv

LEMMA ReturnAllBatch == BatchInv /\ ReturnAll => BatchInv'
<1> SUFFICES ASSUME BatchInv, ReturnAll PROVE BatchInv'
  OBVIOUS
<1>1. pc = "callback" /\ pc' = "idle" /\ index = N /\ out' = data
      /\ UNCHANGED <<call, batch, index, results, data>>
  BY DEF ReturnAll, Return, N
<1>2. results \in Results(N) /\ HoldsPrefix(data, N)
      /\ \A j \in 1 .. N : results[j] \in {"OK", "NOT_FOUND"}
  BY <1>1 DEF BatchInv, Calling
<1>3. Basics'
  BY <1>1, <1>2 DEF BatchInv, Basics, N, Results
<1>4. OkIsComplete'
  BY <1>1, <1>2 DEF OkIsComplete, HoldsPrefix, LastWithLabel, LabelAt, N
<1>5. BadRecordReported'
  BY <1>1, <1>2 DEF BadRecordReported, Results
<1>6. Filling' /\ Calling' /\ Stopping'
  BY <1>1 DEF Filling, Calling, Stopping
<1> QED
  BY <1>3, <1>4, <1>5, <1>6 DEF BatchInv

LEMMA ReturnStoppedBatch == BatchInv /\ ReturnStopped => BatchInv'
<1> SUFFICES ASSUME BatchInv, ReturnStopped PROVE BatchInv'
  OBVIOUS
<1>1. pc = "stopped" /\ pc' = "idle" /\ UNCHANGED <<call, batch, index, results, data>>
  BY DEF ReturnStopped, Return
<1>2. CASE error' # "OK"
  BY <1>1, <1>2, FailBatch
<1>3. CASE error' = "OK"
  <2>1. error = "OK"
    BY <1>3 DEF ReturnStopped, Return
  <2>2. index < N /\ results[index + 1] = "OTHER" /\ results \in Results(N)
        /\ \A j \in 1 .. index : results[j] \in {"OK", "NOT_FOUND"}
    BY <1>1, <2>1 DEF BatchInv, Stopping, Calling
  <2>3. N \in Nat /\ index \in Nat
    BY KeyCount DEF BatchInv, Basics, N
  <2>4. index + 1 \in DOMAIN results
    BY <2>2, <2>3 DEF Results
  <2>5. Basics'
    BY <1>1, <2>2 DEF BatchInv, Basics, N, Results
  <2>6. OkIsComplete'
    BY <1>1, <2>2, <2>4 DEF OkIsComplete
  <2>7. ASSUME NEW j \in DOMAIN results, results[j] = "OK_UNCONVERTIBLE"
        PROVE  \E m \in 1 .. j - 1 : results[m] = "OTHER"
    <3>1. j \in 1 .. N
      BY <2>2 DEF Results
    <3>2. j \notin 1 .. index /\ j # index + 1
      BY <2>2, <2>7
    <3>3. index + 1 \in 1 .. j - 1
      BY <3>1, <3>2, <2>3
    <3> QED
      BY <2>2, <3>3
  <2>8. BadRecordReported'
    BY <1>1, <2>7 DEF BadRecordReported
  <2>9. Filling' /\ Calling' /\ Stopping'
    BY <1>1 DEF Filling, Calling, Stopping
  <2> QED
    BY <2>5, <2>6, <2>8, <2>9 DEF BatchInv
<1> QED
  BY <1>2, <1>3

LEMMA StutterBatch == BatchInv /\ UNCHANGED vars => BatchInv'
<1> SUFFICES ASSUME BatchInv, UNCHANGED vars PROVE BatchInv'
  OBVIOUS
<1>1. Basics'
  BY DEF BatchInv, Basics, vars, N
<1>2. Filling' /\ Stopping'
  BY DEF BatchInv, Filling, Stopping, Copied, vars, N
<1>3. Calling'
  BY DEF BatchInv, Calling, Copied, vars, N, HoldsPrefix, LastWithLabel, LabelAt
<1>4. OkIsComplete' /\ BadRecordReported'
  BY DEF BatchInv, OkIsComplete, BadRecordReported, vars, HoldsPrefix, LastWithLabel, LabelAt
<1> QED
  BY <1>1, <1>2, <1>3, <1>4 DEF BatchInv

LEMMA NextBatch == BatchInv /\ [Next]_vars => BatchInv'
<1> SUFFICES ASSUME BatchInv, [Next]_vars PROVE BatchInv'
  OBVIOUS
<1>1. CASE RejectKey \/ RejectOptions \/ RejectFilter \/ RequestFails
  BY <1>1, FailBatch DEF RejectKey, RejectOptions, RejectFilter, RequestFails, Return
<1>2. CASE Step /\ ~(RejectKey \/ RejectOptions \/ RejectFilter \/ RequestFails)
  BY <1>2, AddKeyBatch, SendBatch, AnsweredBatch, VisitBatch, StopBatch, ReturnAllBatch,
     ReturnStoppedBatch DEF Step
<1>3. CASE \E r \in Requests : RefuseConnection(r) \/ Begin(r)
  BY <1>3, StartBatch
<1>4. CASE UNCHANGED vars
  BY <1>4, StutterBatch
<1> QED
  BY <1>1, <1>2, <1>3, <1>4 DEF Next

-----------------------------------------------------------------------------
\* The arrays of getMany and existsMany hold the answers to the requested keys and
\* nothing else at every moment of the callback, for every batch size below the
\* index's modulus and however labels coincide.
THEOREM AnswersHold == Spec => []AnswersMatchKeys
<1>1. BatchInv => AnswersMatchKeys
  BY DEF BatchInv, Calling, AnswersMatchKeys
<1> QED
  BY InitBatch, NextBatch, <1>1, PTL DEF Spec

\* OK from getMany or existsMany means a complete and fresh answer, but for results
\* of another status.
THEOREM OkHolds == Spec => []OkIsComplete
<1>1. BatchInv => OkIsComplete
  BY DEF BatchInv
<1> QED
  BY InitBatch, NextBatch, <1>1, PTL DEF Spec

\* getMany does not return OK over a record that it could not convert.
THEOREM BadRecordsReported == Spec => []BadRecordReported
<1>1. BatchInv => BadRecordReported
  BY DEF BatchInv
<1> QED
  BY InitBatch, NextBatch, <1>1, PTL DEF Spec
=============================================================================
