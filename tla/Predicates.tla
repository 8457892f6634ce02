----------------------------- MODULE Predicates -----------------------------
(***************************************************************************)
(* The where argument of query and aggregate: the helpers predicateEquals, *)
(* predicateContains, predicateBetween and predicateRange, and             *)
(* isPredicate and initialize_where_predicate of main/scan_operation.cpp,  *)
(* which read what the helpers, or the script itself, have put together.   *)
(*                                                                         *)
(* The two halves agree only by convention: an associative array with the  *)
(* keys bin, index_type, op and val, in which anything may stand.  A query *)
(* without a clause returns the whole set.                                 *)
(***************************************************************************)
EXTENDS Naturals, Sequences

CONSTANTS
    BinArgs,     \* arguments of the helpers, of any PHP type
    IndexArgs,
    ValueArgs,
    OpArgs       \* what a script that writes the array itself puts under op

\* PHP values.  Strings are names; the empty one is "".
Null == [null |-> 0]
Bool(b) == [bool |-> b]
Int(n) == [int |-> n]
Str(s) == [str |-> s]
Arr(items) == [array |-> items]

isInteger(x) == DOMAIN x = {"int"}
isString(x) == DOMAIN x = {"str"}
isBoolean(x) == DOMAIN x = {"bool"}
isArray(x) == DOMAIN x = {"array"}

NonEmpty(x) == isString(x) /\ x # Str("")

\* Variant::toInt64 and toString as they are used here (external).
toInt64(x) ==
    IF isInteger(x) THEN x
    ELSE IF isBoolean(x) THEN Int(x.bool)
    ELSE IF isArray(x) THEN Int(IF x.array = <<>> THEN 0 ELSE 1)
    ELSE Int(0)

toText(x) == IF isArray(x) THEN Str("Array") ELSE IF isString(x) THEN x ELSE Str("")

\* AS_INDEX_TYPE_DEFAULT and the three types of index that have elements.
DEFAULT == Int(0)
ElementIndexes == {Int(1), Int(2), Int(3)}

VARIABLES
    where,     \* the variable that the script passes
    asked,     \* the helper call that it comes from (history)
    query      \* the clause of the query or aggregate, "all" or "refused"

vars == <<where, asked, query>>

Empty == [k \in {} |-> Null]

NoAsk == [helper |-> "none"]

Init ==
    /\ where = Empty
    /\ asked = NoAsk
    /\ query = [status |-> "none"]

-----------------------------------------------------------------------------
(* The helpers *)

constructEquals(bin, value) ==
    IF ~NonEmpty(bin) \/ ~(isInteger(value) \/ NonEmpty(value)) THEN Null
    ELSE [bin |-> bin, op |-> Str("="), val |-> value]

constructContains(bin, index, value) ==
    IF ~NonEmpty(bin) \/ ~(isInteger(value) \/ NonEmpty(value)) THEN Null
    ELSE [bin |-> bin, index_type |-> toInt64(index), op |-> Str("CONTAINS"), val |-> value]

\* The test of max asks again whether min is a boolean.
constructBetween(bin, min, max) ==
    IF \/ ~NonEmpty(bin)
       \/ ~(min = Null \/ isInteger(min) \/ isBoolean(min))
       \/ ~(max = Null \/ isInteger(max) \/ isBoolean(min))
    THEN Null
    ELSE [bin |-> bin, op |-> Str("BETWEEN"), val |-> Arr(<<toInt64(min), toInt64(max)>>)]

constructRange(bin, index, min, max) ==
    IF ~NonEmpty(bin) \/ ~((isInteger(min) /\ isInteger(max)) \/ (isString(min) /\ isString(max)))
    THEN Null
    ELSE [bin |-> bin, index_type |-> toInt64(index), op |-> Str("RANGE"),
          val |-> Arr(<<min, max>>)]

IndexGiven(index) == index = Null \/ isInteger(index)

Fresh == where = Empty /\ query.status = "none"

Built(helper, bin, index, min, max, predicate) ==
    /\ Fresh
    /\ where' = predicate
    /\ asked' = [helper |-> helper, bin |-> bin, index |-> index, min |-> min, max |-> max]
    /\ UNCHANGED query

predicateEquals(bin, value) ==
    Built("Equals", bin, DEFAULT, value, value, constructEquals(bin, value))

predicateContains(bin, index, value) ==
    Built("Contains", bin, index, value, value,
          IF IndexGiven(index) THEN constructContains(bin, index, value) ELSE Null)

predicateBetween(bin, min, max) ==
    Built("Between", bin, DEFAULT, min, max, constructBetween(bin, min, max))

predicateRange(bin, index, min, max) ==
    Built("Range", bin, index, min, max,
          IF IndexGiven(index) THEN constructRange(bin, index, min, max) ELSE Null)

\* The script writes the array itself, with any of the keys.
WriteArray(keys, bin, index, op, val) ==
    LET all == [bin |-> bin, index_type |-> index, op |-> op, val |-> val] IN
    /\ Fresh
    /\ where' = [k \in keys |-> all[k]]
    /\ UNCHANGED <<asked, query>>

\* It passes NULL or something that is no array.
WriteScalar(x) ==
    /\ Fresh
    /\ ~isArray(x)
    /\ where' = x
    /\ UNCHANGED <<asked, query>>

-----------------------------------------------------------------------------
(* query and aggregate *)

At(items, i) == IF i \in DOMAIN items THEN items[i] ELSE Null

\* The key of a predicate, NULL when it is absent.
Key(p, k) == IF k \in DOMAIN p THEN p[k] ELSE Null

isPredicate(p) ==
    /\ {"bin", "op", "val"} \subseteq DOMAIN p
    /\ NonEmpty(p.bin)
    /\ "index_type" \in DOMAIN p => isInteger(p.index_type)
    /\ NonEmpty(p.op)
    /\ IF isArray(p.val)
       THEN isInteger(At(p.val.array, 1)) /\ isInteger(At(p.val.array, 2))
       ELSE isInteger(p.val) \/ isString(p.val)

\* The clause on an index that the cluster searches for the values from lo to hi,
\* those of a string and of an exact match being one.
Clause(p, index, lo, hi) ==
    [status |-> "clause", bin |-> p.bin, index |-> index, lo |-> lo, hi |-> hi]

\* A scalar where an array is expected is an array of one item.
Items(x) == IF isArray(x) THEN x.array ELSE <<x>>

Scalar(x) == IF isInteger(x) THEN x ELSE toText(x)

\* Mutant: the type of the index is not passed on.
RangeClauseDefault(p, index) ==
    Clause(p, DEFAULT, At(Items(p.val), 1), At(Items(p.val), 2))
RangeClause(p, index) ==
    LET lo == At(Items(p.val), 1)
        hi == At(Items(p.val), 2)
    IN  IF isInteger(lo) THEN Clause(p, index, lo, toInt64(hi))
        ELSE Clause(p, index, toText(lo), toText(hi))

\* An operator that is none of the four adds no clause.
initialize_where_predicate(p) ==
    LET index == toInt64(Key(p, "index_type")) IN
    IF p.op = Str("=") THEN Clause(p, DEFAULT, Scalar(p.val), Scalar(p.val))
    ELSE IF p.op = Str("BETWEEN") THEN
        Clause(p, DEFAULT, toInt64(At(Items(p.val), 1)), toInt64(At(Items(p.val), 2)))
    ELSE IF p.op \notin {Str("CONTAINS"), Str("RANGE")} THEN [status |-> "all"]
    ELSE IF index \notin ElementIndexes THEN [status |-> "refused"]
    ELSE IF p.op = Str("CONTAINS") THEN Clause(p, index, Scalar(p.val), Scalar(p.val))
    ELSE RangeClause(p, index)

\* initialize_query and initialize_aggregate
Query ==
    /\ query.status = "none"
    /\ query' = IF where = Null \/ where = Empty THEN [status |-> "all"]
                ELSE IF ~isPredicate(where)
                THEN [status |-> "refused"]
                ELSE initialize_where_predicate(where)
    /\ UNCHANGED <<where, asked>>

\* The script goes on to its next query.
Again ==
    /\ query.status # "none"
    /\ where' = Empty /\ asked' = NoAsk /\ query' = [status |-> "none"]

Next ==
    \/ \E bin \in BinArgs, min \in ValueArgs :
        \/ predicateEquals(bin, min)
        \/ \E index \in IndexArgs : predicateContains(bin, index, min)
        \/ \E max \in ValueArgs :
            \/ predicateBetween(bin, min, max)
            \/ \E index \in IndexArgs : predicateRange(bin, index, min, max)
        \/ \E keys \in SUBSET {"bin", "index_type", "op", "val"},
              index \in IndexArgs, op \in OpArgs : WriteArray(keys, bin, index, op, min)
    \/ \E x \in ValueArgs : WriteScalar(x)
    \/ Query
    \/ Again

Spec == Init /\ [][Next]_vars

-----------------------------------------------------------------------------
(* Properties *)

\* The arguments that the manual gives for the helpers.
Documented(a) ==
    /\ NonEmpty(a.bin)
    /\ a.helper \in {"Contains", "Range"} => a.index \in ElementIndexes
    /\ IF a.helper \in {"Between", "Range"} THEN isInteger(a.min) /\ isInteger(a.max)
       ELSE isInteger(a.min) \/ NonEmpty(a.min)

\* A predicate of a helper means to query and aggregate what the call of the helper
\* said: with documented arguments it is accepted and becomes the clause on that
\* bin, that index and those values; with any others the helper returns NULL, or
\* the query is refused, or it is still a clause on that bin, never the whole set.
PredicatesMeanWhatIsAsked ==
    asked.helper # "none" /\ query.status # "none" =>
        /\ Documented(asked) =>
            query = [status |-> "clause", bin |-> asked.bin, index |-> asked.index,
                     lo |-> asked.min, hi |-> asked.max]
        /\ query.status = "all" => where = Null
        /\ query.status = "clause" => query.bin = asked.bin
=============================================================================
