---------------------------- MODULE Conversions -----------------------------
(***************************************************************************)
(* The conversion of PHP values to as_vals and back (main/conversions.cpp),*)
(* with the serializers and their request-local callbacks.                 *)
(*                                                                         *)
(* put and operate take the as_vals of nested values from the pools of a   *)
(* StaticPoolManager, which lives as long as the call and has a fixed size *)
(* per type.  A value that is no integer, string or array is serialized to *)
(* as_bytes, by PHP or by a callback that the request registered.  get     *)
(* converts in the other direction, in the same request or another one.    *)
(*                                                                         *)
(* A PHP value is the sequence of its elements in the order in which the   *)
(* code meets them: the value itself, then what it contains, depth first.  *)
(* An element has the index of the array that it is in (up, 0 for a bin),  *)
(* its key there (for a bin, its name) and its value, a kind with a        *)
(* payload: "int", "str", "obj" (any other scalar or object) or "arr".     *)
(* The as_val that is made of it, and the PHP value that get makes, are    *)
(* functions on these indices.  The index stands for the identity of an    *)
(* element and not for its place: the order of a map is not kept.          *)
(***************************************************************************)
EXTENDS Integers, Sequences, FiniteSets

CONSTANTS
    Requests,       \* requests of HHVM worker threads
    Records,        \* arrays that put gets: sequences of values
    Writes,         \* values of a write operation of operate
    Foreign,        \* records that other clients have stored
    Cut,            \* string -> its C string, which ends at the first NUL
    Decimal,        \* string that is a decimal integer -> that integer
    UserString,     \* payload -> what the user's serializer makes of it, or Null
    LongNames,      \* C strings of more than AS_BIN_NAME_MAX_LEN characters
    PoolMax,        \* STATIC_POOL_MAX_SIZE: 4096
    CountModulus,   \* 2^16: iter_count of is_assoc is a uint16_t
    Null

\* All pools together are smaller than what is_assoc can count: 5 * 4096 < 65536.
ASSUME SizeAssumption == /\ PoolMax \in Nat /\ CountModulus \in Nat \ {0}
                         /\ 5 * PoolMax <= CountModulus

Strings == DOMAIN Cut
Keys == ({"int"} \X Int) \cup ({"str"} \X Strings)
Values == Keys \cup ({"obj"} \X DOMAIN UserString) \cup {<<"arr", Null>>}

\* "05" and "+5" are no decimal integers to PHP: different ones are different numbers.
ASSUME StringAssumption == /\ Cut \in [Strings -> Strings]
                           /\ Decimal \in [DOMAIN Decimal -> Int]
                           /\ \A s, t \in DOMAIN Decimal : Decimal[s] = Decimal[t] => s = t
                           /\ UserString \in [DOMAIN UserString -> Strings \cup {Null}]

\* A PHP array has no decimal integer for a string key: it would be the integer.
IsArrayKey(k) == k[1] = "str" => k[2] \notin DOMAIN Decimal

\* A PHP value: every element but the first is in an array before it, the elements
\* of an array have different keys, and those of an element follow it at once.
IsPhpValue(v) ==
    /\ v \in Seq([up : Nat, key : Keys, val : Values]) /\ v # <<>>
    /\ \A i \in DOMAIN v :
        /\ IF i = 1 THEN v[i].up = 0
           ELSE /\ v[i].up \in 1 .. i - 1 /\ v[v[i].up].val = <<"arr", Null>>
                /\ IsArrayKey(v[i].key)
        /\ \A j \in 1 .. i - 1 :
            /\ v[j].up = v[i].up => v[j].key # v[i].key
            /\ v[i].up < j => v[i].up <= v[j].up

ASSUME ValueAssumption ==
    /\ \A bins \in Records :
        /\ DOMAIN bins = 1 .. Len(bins) /\ Len(bins) \in Nat
        /\ \A b \in DOMAIN bins : IsPhpValue(bins[b]) /\ IsArrayKey(bins[b][1].key)
        /\ \A b, c \in DOMAIN bins : b # c => bins[b][1].key # bins[c][1].key
    /\ \A v \in Writes : IsPhpValue(v) /\ v[1].key[1] = "str"
    /\ \A t \in Foreign : \A b \in DOMAIN t : \A n \in DOMAIN t[b] :
        /\ t[b][n] = [up |-> t[b][n].up, key |-> t[b][n].key, val |-> t[b][n].val]
        /\ \A m \in DOMAIN t[b] : t[b][n].up = t[b][m].up /\ t[b][n].key = t[b][m].key => n = m

\* "OTHER": SERIALIZER_NONE, SERIALIZER_JSON and unknown ones, which end in an error.
Serializers == {"PHP", "USER", "OTHER"}
Pools == {"int", "str", "list", "map", "bytes"}

VARIABLES
    registered,   \* request -> the callbacks that it has set
    stored,       \* bin name -> the as_val in the cluster
    written,      \* bin name -> the PHP value that was written, or Null (history)
    call,         \* the call in progress or the last one, with its arguments
    status,       \* "none", "busy" or what the call has returned
    enc,          \* how far php_record_to_as_record has come
    dec           \* how far bins_to_php_bins has come, and what it has made

vars == <<registered, stored, written, call, status, enc, dec>>

Empty == [x \in {} |-> Null]

\* The functions f and g as one; g has precedence.
Merge(f, g) == [x \in DOMAIN f \cup DOMAIN g |-> IF x \in DOMAIN g THEN g[x] ELSE f[x]]
With(f, x, v) == [y \in DOMAIN f \cup {x} |-> IF y = x THEN v ELSE f[y]]

NoCall == [op |-> "none", bins |-> <<>>, type |-> "OTHER", has |-> {}]
NoEnc == [bin |-> 1, pos |-> 1, at |-> "key", pool |-> [p \in Pools |-> 0],
          val |-> Empty, record |-> Empty]
NoDec == [left |-> {}, bin |-> Null, stack |-> <<>>, read |-> {}, php |-> Empty,
          out |-> Empty]

Init ==
    /\ registered = [r \in Requests |-> {}]
    /\ stored = Empty /\ written = Empty
    /\ call = NoCall /\ status = "none" /\ enc = NoEnc /\ dec = NoDec

-----------------------------------------------------------------------------
(* PHP to as_val *)

\* Mutant: the limit is tested after the object is handed out.
ExhaustedLate(pool, p) == pool[p] > PoolMax
\* get_as_string and the like return NULL.
Exhausted(pool, p) == pool[p] >= PoolMax

Take(pool, p) == [pool EXCEPT ![p] = @ + 1]

Elements(v, i) == {j \in DOMAIN v : v[j].up = i}

\* How many elements of its array come before element i.
Before(v, i) == Cardinality({j \in 1 .. i - 1 : v[j].up = v[i].up})

\* Mutant: the counter is narrower than a pool.
IsAssocNarrow(v, i) ==
    \E j \in Elements(v, i) : v[j].key # <<"int", Before(v, j) % (PoolMax - 1)>>
\* is_assoc: some key of the array is not the value of the counter.
IsAssoc(v, i) ==
    \E j \in Elements(v, i) : v[j].key # <<"int", Before(v, j) % CountModulus>>

\* The pool for a value, if an array is taken for a list as list says.
PoolOf(val, list) ==
    CASE val[1] \in {"int", "str"} -> val[1]
      [] val[1] = "obj" -> "bytes"
      [] val[1] = "arr" -> IF list THEN "list" ELSE "map"

\* php_record_to_as_record puts integers and strings into a bin without a pool.
FromPool(op, v, i) == ~(op = "put" /\ i = 1 /\ v[i].val[1] \in {"int", "str"})

\* serialize_based_on_serializer_policy.  The path of the user's callback looks into
\* the as_bytes before it is tested: without one it crashes.
SerializeError(x, pool, type, has) ==
    CASE type = "PHP" /\ ~Exhausted(pool, "bytes") -> "OK"
      [] type = "USER" /\ "serializer" \in has ->
            IF Exhausted(pool, "bytes") THEN "CRASH"
            ELSE IF UserString[x] = Null THEN "ERR_PARAM" ELSE "OK"
      [] OTHER -> "ERR_PARAM"

\* php_variant_to_as_val and, for the value of a bin, php_record_to_as_record: the
\* error for the value of element i, and the as_val.
ValueError(v, i, c, pool) ==
    IF v[i].val[1] = "obj" THEN SerializeError(v[i].val[2], pool, c.type, c.has)
    ELSE IF FromPool(c.op, v, i) /\ Exhausted(pool, PoolOf(v[i].val, ~IsAssoc(v, i)))
    THEN "ERR_CLIENT" ELSE "OK"

AsVal(v, i, type) ==
    CASE v[i].val[1] = "int" -> v[i].val
      [] v[i].val[1] = "str" -> <<"str", Cut[v[i].val[2]]>>
      [] v[i].val[1] = "arr" -> <<IF IsAssoc(v, i) THEN "map" ELSE "list", Null>>
      [] v[i].val[1] = "obj" -> IF type = "PHP" THEN <<"PHP", v[i].val[2]>>
                                ELSE <<"BLOB", UserString[v[i].val[2]]>>

\* The name of a bin or the key in a map is a C string, the elements of a list are
\* appended.
AsKey(v, i) ==
    IF i > 1 /\ ~IsAssoc(v, v[i].up) THEN <<"int", Before(v, i)>>
    ELSE IF v[i].key[1] = "str" THEN <<"str", Cut[v[i].key[2]]>>
    ELSE v[i].key

AsElement(v, i, type) ==
    [up |-> v[i].up, key |-> AsKey(v, i), val |-> AsVal(v, i, type)]

\* as_map_set, and Array::set of HHVM: an element replaces the one with its key.
\* What was in that one stays in the function, out of reach.
Attach(t, i, e) ==
    With([j \in {k \in DOMAIN t : t[k].up # e.up \/ t[k].key # e.key} |-> t[j]], i, e)

-----------------------------------------------------------------------------
(* put and operate.  One call is followed at a time, as calls have nothing in *)
(* common but the record and the callbacks of their own request.             *)

Encoding == status = "busy" /\ call.op \in {"put", "operate"}
Value == call.bins[enc.bin]
InBin == Encoding /\ enc.bin <= Len(call.bins) /\ enc.pos <= Len(Value)

\* Mutant: the conversion goes on without the element that has failed.
FailOn(code) ==
    /\ status' = IF enc.pos = 1 THEN code ELSE status
    /\ enc' = IF enc.pos = 1 THEN NoEnc ELSE [enc EXCEPT !.pos = @ + 1, !.at = "key"]
    /\ UNCHANGED <<registered, stored, written, call, dec>>
\* The call returns an error.  A crash ends all requests of the process.
Fail(code) ==
    /\ status' = code
    /\ registered' = IF code = "CRASH" THEN [r \in Requests |-> {}] ELSE registered
    /\ enc' = NoEnc
    /\ UNCHANGED <<stored, written, call, dec>>

Proceed(e) ==
    /\ enc' = e
    /\ UNCHANGED <<registered, stored, written, call, status, dec>>

StartWrite(r, op, bins, type) ==
    /\ status # "busy"
    /\ call' = [op |-> op, bins |-> bins, type |-> type, has |-> registered[r]]
    /\ status' = "busy"
    /\ enc' = NoEnc /\ dec' = NoDec
    /\ UNCHANGED <<registered, stored, written>>

\* Bound: a record is created by put and changed by operate.
Put(r, bins, type) == call.op = "none" /\ stored = Empty /\ StartWrite(r, "put", bins, type)

\* operate with one write operation.
Operate(r, v, type) == call.op \in {"none", "get"} /\ StartWrite(r, "operate", <<v>>, type)

\* php_record_to_as_record looks at the name of a bin first.
CheckName ==
    LET name == Value[1].key
    IN /\ InBin /\ enc.pos = 1 /\ enc.at = "key"
       /\ IF call.op = "put" /\ name[1] # "str" THEN Fail("ERR_PARAM")
          ELSE IF call.op = "put" /\ Cut[name[2]] \in LongNames THEN Fail("ERR_BIN_NAME")
          ELSE Proceed([enc EXCEPT !.at = "value"])

\* php_map_to_as_map converts the key of an element, php_list_to_as_list has none.
ConvertKey ==
    LET p == Value[enc.pos].key[1]
    IN /\ InBin /\ enc.pos > 1 /\ enc.at = "key"
       /\ IF ~IsAssoc(Value, Value[enc.pos].up) THEN Proceed([enc EXCEPT !.at = "value"])
          ELSE IF Exhausted(enc.pool, p) THEN Fail("ERR_CLIENT")
          ELSE Proceed([enc EXCEPT !.at = "value", !.pool = Take(@, p)])

ConvertValue ==
    LET i == enc.pos
        code == ValueError(Value, i, call, enc.pool)
        p == PoolOf(Value[i].val, ~IsAssoc(Value, i))
    IN /\ InBin /\ enc.at = "value"
       /\ IF code # "OK" THEN Fail(code)
          ELSE Proceed([enc EXCEPT !.at = "key", !.pos = i + 1,
                          !.pool = IF FromPool(call.op, Value, i) THEN Take(@, p) ELSE @,
                          !.val = Attach(@, i, AsElement(Value, i, call.type))])

\* as_record_set_str and the like, as_operations_add_write: the value is complete.
\* Both have room for every bin; as_operations_add_write refuses a long name, which
\* operate has not looked at.
SetBin ==
    LET name == Cut[Value[1].key[2]]
    IN /\ Encoding /\ enc.bin <= Len(call.bins) /\ enc.pos > Len(Value)
       /\ IF call.op = "operate" /\ name \in LongNames THEN Fail("ERR_PARAM")
          ELSE Proceed([enc EXCEPT !.bin = @ + 1, !.pos = 1, !.val = Empty,
                          !.record = With(@, name, enc.val)])

\* The PHP bins by name.
PhpBins(bins) ==
    [name \in {bins[b][1].key[2] : b \in DOMAIN bins} |->
        bins[CHOOSE b \in DOMAIN bins : bins[b][1].key[2] = name]]

\* The server sets the bins of the converted record.
EndWrite ==
    /\ Encoding /\ enc.bin > Len(call.bins)
    /\ stored' = Merge(stored, enc.record)
    /\ written' = IF written = Null THEN Null ELSE Merge(written, PhpBins(call.bins))
    /\ status' = "OK" /\ enc' = NoEnc
    /\ UNCHANGED <<registered, call, dec>>

-----------------------------------------------------------------------------
(* get.  chance has the outcomes that the code leaves open: whether the C   *)
(* string of a blob ends where the blob does, what the user's deserializer  *)
(* makes of a string that it did not produce, and whether an "obj" that is  *)
(* the key of a map is a bool or a double.                                  *)

Chances == [ends : BOOLEAN, reply : {Null, <<"obj", "other">>}, scalar : BOOLEAN]

Decoding == status = "busy" /\ call.op = "get"
Tree == stored[dec.bin]
Top == dec.stack[Len(dec.stack)]

\* execute_user_callback passes String(bytes->value), without the size.
DeserializerGets(s, chance) == IF Cut[s] # s THEN Cut[s]
                               ELSE IF chance.ends THEN s ELSE Null

DeserializerReturns(s, chance) ==
    IF \E x \in DOMAIN UserString : s # Null /\ UserString[x] = s
    THEN <<"obj", CHOOSE x \in DOMAIN UserString : UserString[x] = s>>
    ELSE chance.reply

\* unserialize_based_on_as_bytes_type, for as_bytes of type AS_BYTES_BLOB
Deserialized(s, chance) == DeserializerReturns(DeserializerGets(s, chance), chance)

\* as_val_to_php_variant: the error for v, and the PHP value.
DecodeError(v, has, chance) ==
    IF \/ v[1] \in {"int", "str", "list", "map", "nil", "PHP"}
       \/ v[1] = "BLOB" /\ "deserializer" \in has /\ Deserialized(v[2], chance) # Null
    THEN "OK"
    ELSE IF v[1] \in {"BLOB", "other bytes"} THEN "ERR_PARAM" ELSE "ERR_CLIENT"

PhpVal(v, chance) ==
    CASE v[1] \in {"int", "str"}  -> v
      [] v[1] \in {"list", "map"} -> <<"arr", Null>>
      [] v[1] = "nil"  -> <<"obj", Null>>
      [] v[1] = "PHP"  -> <<"obj", v[2]>>
      [] v[1] = "BLOB" -> Deserialized(v[2], chance)

Container(v) == v[1] \in {"list", "map"}

\* What Array::set of HHVM takes for a key (external); it ignores the element if the
\* key is another value.
IsOffset(x, chance) ==
    x[1] \in {"int", "str"} \/ (x[1] = "obj" /\ (x[2] = Null \/ chance.scalar))

\* The key that it becomes: a decimal integer is that integer, null is the empty
\* string, a bool or a double is an integer, for which 0 stands.
ArrayKey(x) ==
    CASE x[1] = "int" -> x
      [] x[1] = "str" -> IF x[2] \in DOMAIN Decimal THEN <<"int", Decimal[x[2]]>> ELSE x
      [] x[1] = "obj" -> IF x[2] = Null THEN <<"str", "">> ELSE <<"int", 0>>

PhpElement(e, chance) ==
    [up |-> e.up, key |-> ArrayKey(PhpVal(e.key, chance)), val |-> PhpVal(e.val, chance)]

\* The elements that the foreach of container i has not reached.
Unread(i) == {n \in DOMAIN Tree \ dec.read : Tree[n].up = i}

\* data.set(php_key, php_value), data.append(php_value)
SetElement(php, n, e, chance) ==
    IF IsOffset(PhpVal(e.key, chance), chance) THEN Attach(php, n, PhpElement(e, chance))
    ELSE php

Get(r) ==
    /\ status # "busy" /\ stored # Empty
    /\ call' = [op |-> "get", bins |-> <<>>, type |-> "OTHER", has |-> registered[r]]
    /\ status' = "busy"
    /\ dec' = [NoDec EXCEPT !.left = DOMAIN stored]
    /\ UNCHANGED <<registered, stored, written, enc>>

\* bins_to_php_bins: as_record_foreach comes to the next bin.
NextBin(b) ==
    /\ Decoding /\ dec.stack = <<>> /\ b \in dec.left
    /\ dec' = [dec EXCEPT !.bin = b, !.stack = <<0>>, !.read = {}, !.php = Empty]
    /\ UNCHANGED <<registered, stored, written, call, status, enc>>

\* Mutant: the loop goes on.
FailReadOn(n, code) ==
    /\ dec' = [dec EXCEPT !.read = @ \cup {n}, !.php = With(@, n, Tree[n])]
    /\ UNCHANGED <<registered, stored, written, call, status, enc>>
\* A foreach callback returns false: the loops around it end too, and the array
\* that get returns has the bins before this one.
FailRead(n, code) ==
    /\ status' = code
    /\ dec' = [dec EXCEPT !.left = {}, !.stack = <<>>, !.read = {}, !.php = Empty]
    /\ UNCHANGED <<registered, stored, written, call, enc>>

\* The foreach callbacks: the key, unless an element of a list is appended, then
\* the value, for which the next foreach begins if it is a list or a map.  What that
\* one reads is set in an array of its own.
ReadElement(n, chance) ==
    LET t == Tree
        keyCode == DecodeError(t[n].key, call.has, chance)
        valCode == DecodeError(t[n].val, call.has, chance)
    IN /\ Decoding /\ dec.stack # <<>> /\ n \in Unread(Top)
       /\ Top # 0 /\ t[Top].val[1] = "list" =>
            \A m \in Unread(Top) : t[n].key[2] <= t[m].key[2]
       /\ IF keyCode # "OK" THEN FailRead(n, keyCode)
          ELSE IF valCode # "OK" THEN FailRead(n, valCode)
          ELSE /\ dec' = [dec EXCEPT !.read = @ \cup {n},
                            !.php = SetElement(@, n, t[n], chance),
                            !.stack = IF Container(t[n].val) THEN Append(@, n) ELSE @]
               /\ UNCHANGED <<registered, stored, written, call, status, enc>>

\* as_list_to_php_list, as_map_to_php_map: the foreach ends, and the array is an
\* element of the one around it; the last one sets the bin.
LeaveContainer ==
    /\ Decoding /\ dec.stack # <<>> /\ Unread(Top) = {}
    /\ dec' = IF Len(dec.stack) > 1
              THEN [dec EXCEPT !.stack = SubSeq(@, 1, Len(@) - 1)]
              ELSE [dec EXCEPT !.stack = <<>>, !.left = @ \ {dec.bin}, !.read = {},
                      !.php = Empty, !.out = With(@, dec.bin, dec.php)]
    /\ UNCHANGED <<registered, stored, written, call, status, enc>>

EndGet ==
    /\ Decoding /\ dec.stack = <<>> /\ dec.left = {}
    /\ status' = "OK"
    /\ UNCHANGED <<registered, stored, written, call, enc, dec>>

-----------------------------------------------------------------------------
(* The callbacks of a request, and others that change the record. *)

SetSerializer(r) ==
    /\ registered' = [registered EXCEPT ![r] = @ \cup {"serializer"}]
    /\ UNCHANGED <<stored, written, call, status, enc, dec>>

SetDeserializer(r) ==
    /\ registered' = [registered EXCEPT ![r] = @ \cup {"deserializer"}]
    /\ UNCHANGED <<stored, written, call, status, enc, dec>>

\* AerospikeRequestLocals::requestShutdown
EndRequest(r) ==
    /\ registered' = [registered EXCEPT ![r] = {}]
    /\ UNCHANGED <<stored, written, call, status, enc, dec>>

\* Another client replaces the record, or it is removed or expires (external).
ForeignPut ==
    /\ status # "busy"
    /\ \/ stored' \in Foreign /\ written' = Null
       \/ stored' = Empty /\ written' = Empty
    /\ call' = NoCall /\ status' = "none" /\ dec' = NoDec
    /\ UNCHANGED <<registered, enc>>

Next ==
    \/ \E r \in Requests :
        \/ SetSerializer(r) \/ SetDeserializer(r) \/ EndRequest(r) \/ Get(r)
        \/ \E type \in Serializers :
            \/ \E bins \in Records : Put(r, bins, type)
            \/ \E v \in Writes : Operate(r, v, type)
    \/ CheckName \/ ConvertKey \/ ConvertValue \/ SetBin \/ EndWrite
    \/ \E b \in dec.left : NextBin(b)
    \/ \E n \in (IF dec.stack = <<>> THEN {} ELSE Unread(Top)), chance \in Chances :
        ReadElement(n, chance)
    \/ LeaveContainer \/ EndGet \/ ForeignPut

Spec == Init /\ [][Next]_vars

-----------------------------------------------------------------------------
(* Properties *)

Returned(ops) == call.op \in ops /\ status # "busy"

\* The reference for is_assoc: the keys are 0, 1, 2...
IsList(v, i) == \A j \in Elements(v, i) : v[j].key = <<"int", Before(v, j)>>

Places(bins) == UNION {{b} \X DOMAIN bins[b] : b \in DOMAIN bins}

\* The elements whose value, and those whose key, comes from pool p, if the arrays
\* in lists are the ones that become lists.
ValuesFrom(c, lists, p) ==
    {x \in Places(c.bins) :
        LET v == c.bins[x[1]] IN
        FromPool(c.op, v, x[2]) /\ PoolOf(v[x[2]].val, x \in lists) = p}
KeysFrom(c, lists, p) ==
    {x \in Places(c.bins) :
        LET e == c.bins[x[1]][x[2]] IN
        x[2] > 1 /\ <<x[1], e.up>> \notin lists /\ e.key[1] = p}

Serializable(val, c) ==
    val[1] = "obj" =>
        \/ c.type = "PHP"
        \/ c.type = "USER" /\ "serializer" \in c.has /\ UserString[val[2]] # Null

Fits(c) ==
    LET lists == {x \in Places(c.bins) : IsList(c.bins[x[1]], x[2])}
    IN /\ \A b \in DOMAIN c.bins :
            c.bins[b][1].key[1] = "str" /\ Cut[c.bins[b][1].key[2]] \notin LongNames
       /\ \A x \in Places(c.bins) : Serializable(c.bins[x[1]][x[2]].val, c)
       /\ \A p \in Pools : Cardinality(ValuesFrom(c, lists, p))
                            + Cardinality(KeysFrom(c, lists, p)) <= PoolMax

\* put and operate accept exactly the values that they can convert completely:
\* every name is valid, be it put that looks at it before the value or the C client
\* that refuses operate's after the value has been converted, every value has a
\* serializer and the whole value fits into the pools of the call, however it is
\* nested and in whatever order it fills them.
AcceptedExactly == Returned({"put", "operate"}) => (status = "OK" <=> Fits(call))

\* No other bin of the PHP record has the C string of this name.
Alone(b) == \A c \in DOMAIN written : Cut[c] = Cut[b] => c = b

\* An array with the keys 0, 1, 2... that put or operate accepts becomes a list of
\* the cluster with all its elements at their index, and no other array does,
\* although is_assoc counts in 16 bits and takes a longer array for a map: such an
\* array never gets through the pools.
ListsStayLists ==
    written # Null => \A b \in DOMAIN written : Alone(b) =>
        LET v == written[b]
            t == stored[Cut[b]]
        IN /\ 1 \in DOMAIN t
           /\ \A i \in DOMAIN t : v[i].val[1] = "arr" =>
                /\ t[i].val[1] = IF IsList(v, i) THEN "list" ELSE "map"
                /\ IsList(v, i) => \A j \in Elements(v, i) :
                                    j \in DOMAIN t /\ t[j].key = v[j].key

PlainString(x) == x[1] = "str" => Cut[x[2]] = x[2]
Plain(v) == /\ IsArrayKey(v[1].key)
            /\ \A i \in DOMAIN v : PlainString(v[i].key) /\ PlainString(v[i].val)

\* What put or operate accepted is what get returns, in the same request or in
\* another one and whatever callbacks that one has set, as long as the strings
\* have no NUL in them, no bin that operate wrote has a number for a name, which get
\* returns as an integer key, and no callback of the user has serialized a part.
RoundTrip ==
    /\ Returned({"get"}) /\ written # Null
    /\ \A b \in DOMAIN written : Plain(written[b])
    /\ \A b \in DOMAIN stored : \A i \in DOMAIN stored[b] : stored[b][i].val[1] # "BLOB"
    => status = "OK" /\ dec.out = written

\* get returns OK only with the whole record: every bin, and with each array every
\* element of it, as a PHP value, also of a record that another client wrote with
\* types PHP has no value for.  An element is missing only from a map, and only if
\* its key is no key of a PHP array or another element that is there has the same
\* one there: as_map_to_php_map sets "5" and 5 of a map as one element.
OkIsWhole ==
    Returned({"get"}) /\ status = "OK" =>
        /\ DOMAIN dec.out = DOMAIN stored
        /\ \A b \in DOMAIN stored :
            LET t == stored[b]
                php == dec.out[b]
            IN /\ \A n \in DOMAIN t :
                    t[n].up = 0 \/ (t[n].up \in DOMAIN php /\ Container(t[t[n].up].val))
                    => \/ n \in DOMAIN php
                       \/ t[n].key[1] \notin {"int", "str"}
                       \/ \E m \in DOMAIN php :
                            /\ php[m].up = t[n].up /\ t[m].key # t[n].key
                            /\ php[m].key = ArrayKey(t[n].key)
               /\ \A n \in DOMAIN php :
                    /\ php[n].up = t[n].up /\ php[n].val[1] \in {"int", "str", "obj", "arr"}
                    /\ t[n].val[1] \in {"int", "str"} => php[n].val = t[n].val
                    /\ Container(t[n].val) => php[n].val = <<"arr", Null>>
=============================================================================
