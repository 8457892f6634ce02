-------------------------- MODULE PredicatesProofs --------------------------
(***************************************************************************)
(* PredicatesMeanWhatIsAsked for every set of arguments: whatever a script *)
(* passes to the predicate helpers, and whatever it writes itself between  *)
(* two queries.                                                            *)
(***************************************************************************)
EXTENDS Predicates, TLAPS

\* What a helper returns for the arguments that asked remembers.
BuiltBy(a) ==
    \/ /\ a.helper = "Equals"
       /\ a.index = DEFAULT /\ a.max = a.min
       /\ where = constructEquals(a.bin, a.min)
    \/ /\ a.helper = "Contains"
       /\ a.max = a.min
       /\ where = IF IndexGiven(a.index) THEN constructContains(a.bin, a.index, a.min) ELSE Null
    \/ /\ a.helper = "Between"
       /\ a.index = DEFAULT
       /\ where = constructBetween(a.bin, a.min, a.max)
    \/ /\ a.helper = "Range"
       /\ where = IF IndexGiven(a.index) THEN constructRange(a.bin, a.index, a.min, a.max)
                  ELSE Null

\* The clause that query and aggregate make of a predicate.
Answer(p) ==
    IF p = Null \/ p = Empty THEN [status |-> "all"]
    ELSE IF ~isPredicate(p) THEN [status |-> "refused"]
    ELSE initialize_where_predicate(p)

\* Between the helper and the query nothing touches the predicate, and the
\* query has been computed from it.
PredicateInv ==
    /\ asked.helper # "none" => BuiltBy(asked)
    /\ query.status # "none" => query = Answer(where)

-----------------------------------------------------------------------------
(* PHP values *)

\* A value has one type.
LEMMA OneType ==
    ASSUME NEW x
    PROVE  /\ isInteger(x) => ~isString(x) /\ ~isBoolean(x) /\ ~isArray(x) /\ x # Null
           /\ isString(x) => ~isBoolean(x) /\ ~isArray(x) /\ x # Null
           /\ isArray(x) => x # Null
<1>1. DOMAIN Null = {"null"}
  BY DEF Null
<1> QED
  BY <1>1 DEF isInteger, isString, isBoolean, isArray

\* What the constructors make.
LEMMA Constructed ==
    ASSUME NEW x
    PROVE  /\ isInteger(Int(x)) /\ isString(Str(x)) /\ isArray(Arr(x))
           /\ Arr(x).array = x
           /\ \A y : Str(x) = Str(y) => x = y
<1>1. isInteger(Int(x))
  BY DEF isInteger, Int
<1>2. isString(Str(x))
  BY DEF isString, Str
<1>3. isArray(Arr(x)) /\ Arr(x).array = x
  BY DEF isArray, Arr
<1>4. ASSUME NEW y, Str(x) = Str(y) PROVE x = y
  <2>1. Str(x).str = x /\ Str(y).str = y
    BY DEF Str
  <2> QED
    BY <1>4, <2>1
<1> QED
  BY <1>1, <1>2, <1>3, <1>4

\* A predicate of a helper, with or without an index, is neither NULL nor the
\* empty array.
LEMMA PredicateIsSomething ==
    ASSUME NEW p, "bin" \in DOMAIN p
    PROVE  p # Null /\ p # Empty
<1>1. DOMAIN Null = {"null"} /\ DOMAIN Empty = {}
  BY DEF Null, Empty
<1> QED
  BY <1>1

\* Integers and strings are what a clause takes as they are.
LEMMA ScalarsStay ==
    ASSUME NEW x, isInteger(x) \/ isString(x)
    PROVE  ~isArray(x) /\ Scalar(x) = x
<1>1. CASE isInteger(x)
  BY <1>1, OneType DEF Scalar
<1>2. CASE isString(x)
  <2>1. ~isInteger(x) /\ ~isArray(x)
    BY <1>2, OneType
  <2>2. toText(x) = x
    BY <1>2, <2>1, Zenon DEF toText
  <2> QED
    BY <2>1, <2>2 DEF Scalar
<1> QED
  BY <1>1, <1>2

LEMMA TwoItems ==
    ASSUME NEW x, NEW y
    PROVE  At(<<x, y>>, 1) = x /\ At(<<x, y>>, 2) = y
BY DEF At

-----------------------------------------------------------------------------
(* What query makes of a predicate *)

Ops == {Str("="), Str("BETWEEN"), Str("CONTAINS"), Str("RANGE")}

LEMMA OpsDiffer ==
    /\ Str("=") # Str("BETWEEN") /\ Str("=") # Str("CONTAINS") /\ Str("=") # Str("RANGE")
    /\ Str("BETWEEN") # Str("CONTAINS") /\ Str("BETWEEN") # Str("RANGE")
    /\ Str("CONTAINS") # Str("RANGE")
    /\ \A op \in Ops : NonEmpty(op)
<1>1. /\ Str("=") # Str("BETWEEN") /\ Str("=") # Str("CONTAINS") /\ Str("=") # Str("RANGE")
      /\ Str("BETWEEN") # Str("CONTAINS") /\ Str("BETWEEN") # Str("RANGE")
      /\ Str("CONTAINS") # Str("RANGE")
  BY Constructed
<1>2. ASSUME NEW op \in Ops PROVE NonEmpty(op)
  <2>1. PICK s \in {"=", "BETWEEN", "CONTAINS", "RANGE"} : op = Str(s)
    BY Zenon DEF Ops
  <2>2. s # ""
    BY Zenon
  <2>3. Str(s) # Str("") /\ isString(Str(s))
    BY <2>2, Constructed, Zenon
  <2> QED
    BY <2>1, <2>3, Zenon DEF NonEmpty
<1> QED
  BY <1>1, <1>2, Zenon

\* A predicate with one of the four operators never selects the whole set, and
\* its clause is on the bin that it names.
LEMMA FourOperators ==
    ASSUME NEW p, "bin" \in DOMAIN p, p.op \in Ops
    PROVE  /\ Answer(p).status # "all"
           /\ Answer(p).status = "clause" => Answer(p).bin = p.bin
<1>1. p # Null /\ p # Empty
  BY PredicateIsSomething
<1>2. CASE ~isPredicate(p)
  BY <1>1, <1>2 DEF Answer
<1>3. CASE isPredicate(p)
  <2>1. Answer(p) = initialize_where_predicate(p)
    BY <1>1, <1>3 DEF Answer
  <2>2. ASSUME NEW i, NEW lo, NEW hi
        PROVE  Clause(p, i, lo, hi).status = "clause" /\ Clause(p, i, lo, hi).bin = p.bin
    BY DEF Clause
  <2>3. RangeClause(p, toInt64(Key(p, "index_type"))).status = "clause"
        /\ RangeClause(p, toInt64(Key(p, "index_type"))).bin = p.bin
    BY <2>2 DEF RangeClause
  <2>4. [status |-> "refused"].status = "refused"
    OBVIOUS
  <2> QED
    BY <2>1, <2>2, <2>3, <2>4 DEF initialize_where_predicate, Ops
<1> QED
  BY <1>2, <1>3

\* A constructed predicate is NULL or has one of the four operators and the bin.
LEMMA HelpersUseFour ==
    ASSUME NEW a, BuiltBy(a), where # Null
    PROVE  "bin" \in DOMAIN where /\ where.bin = a.bin /\ where.op \in Ops
<1>1. CASE where = constructEquals(a.bin, a.min)
  BY <1>1 DEF constructEquals, Ops
<1>2. CASE where = constructContains(a.bin, a.index, a.min)
  BY <1>2 DEF constructContains, Ops
<1>3. CASE where = constructBetween(a.bin, a.min, a.max)
  BY <1>3 DEF constructBetween, Ops
<1>4. CASE where = constructRange(a.bin, a.index, a.min, a.max)
  BY <1>4 DEF constructRange, Ops
<1> QED
  BY <1>1, <1>2, <1>3, <1>4 DEF BuiltBy

\* The clause that the arguments of a helper ask for.
Meant(a) ==
    [status |-> "clause", bin |-> a.bin, index |-> a.index, lo |-> a.min, hi |-> a.max]

LEMMA EqualsMeant ==
    ASSUME NEW bin, NEW v, NonEmpty(bin), isInteger(v) \/ NonEmpty(v)
    PROVE  Answer(constructEquals(bin, v)) =
             [status |-> "clause", bin |-> bin, index |-> DEFAULT, lo |-> v, hi |-> v]
<1> DEFINE p == [bin |-> bin, op |-> Str("="), val |-> v]
<1>1. constructEquals(bin, v) = p
  BY DEF constructEquals
<1>2. p # Null /\ p # Empty
  BY PredicateIsSomething
<1>3. DOMAIN p = {"bin", "op", "val"} /\ p.bin = bin /\ p.op = Str("=") /\ p.val = v
  OBVIOUS
<1>4. ~isArray(v) /\ (isInteger(v) \/ isString(v)) /\ Scalar(v) = v
  BY ScalarsStay, Zenon DEF NonEmpty
<1> HIDE DEF p
<1>5. isPredicate(p)
  BY <1>3, <1>4, OpsDiffer DEF isPredicate, Ops
<1>6. Answer(p) = Clause(p, DEFAULT, v, v)
  BY <1>2, <1>3, <1>4, <1>5 DEF Answer, initialize_where_predicate
<1> QED
  BY <1>1, <1>3, <1>6 DEF Clause

LEMMA ElementIndex ==
    ASSUME NEW i \in ElementIndexes
    PROVE  isInteger(i) /\ IndexGiven(i) /\ toInt64(i) = i
<1>1. isInteger(i)
  BY Constructed DEF ElementIndexes
<1> QED
  BY <1>1 DEF IndexGiven, toInt64

LEMMA ContainsMeant ==
    ASSUME NEW bin, NEW i \in ElementIndexes, NEW v,
           NonEmpty(bin), isInteger(v) \/ NonEmpty(v)
    PROVE  Answer(constructContains(bin, i, v)) =
             [status |-> "clause", bin |-> bin, index |-> i, lo |-> v, hi |-> v]
<1> DEFINE p == [bin |-> bin, index_type |-> i, op |-> Str("CONTAINS"), val |-> v]
<1>1. constructContains(bin, i, v) = p
  BY ElementIndex DEF constructContains
<1>2. p # Null /\ p # Empty
  BY PredicateIsSomething
<1>3. /\ DOMAIN p = {"bin", "index_type", "op", "val"} /\ p.bin = bin
      /\ p.index_type = i /\ p.op = Str("CONTAINS") /\ p.val = v
      /\ p["index_type"] = i
  OBVIOUS
<1>4. ~isArray(v) /\ (isInteger(v) \/ isString(v)) /\ Scalar(v) = v
  BY ScalarsStay, Zenon DEF NonEmpty
<1> HIDE DEF p
<1>5. isPredicate(p)
  BY <1>3, <1>4, OpsDiffer, ElementIndex DEF isPredicate, Ops
<1>6. toInt64(Key(p, "index_type")) = i
  BY <1>3, ElementIndex DEF Key
<1>7. Answer(p) = Clause(p, i, v, v)
  BY <1>2, <1>3, <1>4, <1>5, <1>6, OpsDiffer DEF Answer, initialize_where_predicate
<1> QED
  BY <1>1, <1>3, <1>7 DEF Clause

LEMMA BetweenMeant ==
    ASSUME NEW bin, NEW min, NEW max, NonEmpty(bin), isInteger(min), isInteger(max)
    PROVE  Answer(constructBetween(bin, min, max)) =
             [status |-> "clause", bin |-> bin, index |-> DEFAULT, lo |-> min, hi |-> max]
<1> DEFINE v == Arr(<<min, max>>)
           p == [bin |-> bin, op |-> Str("BETWEEN"), val |-> v]
<1>0. toInt64(min) = min /\ toInt64(max) = max
  BY DEF toInt64
<1>1. constructBetween(bin, min, max) = p
  BY <1>0 DEF constructBetween
<1>2. p # Null /\ p # Empty
  BY PredicateIsSomething
<1>3. DOMAIN p = {"bin", "op", "val"} /\ p.bin = bin /\ p.op = Str("BETWEEN") /\ p.val = v
  OBVIOUS
<1>4. isArray(v) /\ v.array = <<min, max>>
  BY Constructed
<1> HIDE DEF p, v
<1>5. isPredicate(p)
  BY <1>3, <1>4, OpsDiffer, TwoItems DEF isPredicate, Ops
<1>6. At(Items(p.val), 1) = min /\ At(Items(p.val), 2) = max
  BY <1>3, <1>4, TwoItems DEF Items
<1>7. Answer(p) = Clause(p, DEFAULT, min, max)
  BY <1>0, <1>2, <1>3, <1>5, <1>6, OpsDiffer DEF Answer, initialize_where_predicate
<1> QED
  BY <1>1, <1>3, <1>7 DEF Clause

LEMMA RangeMeant ==
    ASSUME NEW bin, NEW i \in ElementIndexes, NEW min, NEW max,
           NonEmpty(bin), isInteger(min), isInteger(max)
    PROVE  Answer(constructRange(bin, i, min, max)) =
             [status |-> "clause", bin |-> bin, index |-> i, lo |-> min, hi |-> max]
<1> DEFINE v == Arr(<<min, max>>)
           p == [bin |-> bin, index_type |-> i, op |-> Str("RANGE"), val |-> v]
<1>0. toInt64(min) = min /\ toInt64(max) = max
  BY DEF toInt64
<1>1. constructRange(bin, i, min, max) = p
  BY ElementIndex DEF constructRange
<1>2. p # Null /\ p # Empty
  BY PredicateIsSomething
<1>3. /\ DOMAIN p = {"bin", "index_type", "op", "val"} /\ p.bin = bin
      /\ p.index_type = i /\ p.op = Str("RANGE") /\ p.val = v
      /\ p["index_type"] = i
  OBVIOUS
<1>4. isArray(v) /\ v.array = <<min, max>>
  BY Constructed
<1> HIDE DEF p, v
<1>5. isPredicate(p)
  BY <1>3, <1>4, OpsDiffer, TwoItems, ElementIndex DEF isPredicate, Ops
<1>6. At(Items(p.val), 1) = min /\ At(Items(p.val), 2) = max
  BY <1>3, <1>4, TwoItems DEF Items
<1>7. toInt64(Key(p, "index_type")) = i
  BY <1>3, ElementIndex DEF Key
<1>8. RangeClause(p, i) = Clause(p, i, min, max)
  BY <1>0, <1>6 DEF RangeClause
<1>9. Answer(p) = Clause(p, i, min, max)
  BY <1>2, <1>3, <1>5, <1>7, <1>8, OpsDiffer DEF Answer, initialize_where_predicate
<1> QED
  BY <1>1, <1>3, <1>9 DEF Clause

\* With documented arguments a predicate becomes the clause that is meant.
LEMMA DocumentedMeant ==
    ASSUME NEW a, BuiltBy(a), Documented(a)
    PROVE  Answer(where) = Meant(a)
<1>1. CASE a.helper = "Equals"
  BY <1>1, EqualsMeant DEF BuiltBy, Documented, Meant
<1>2. CASE a.helper = "Contains"
  BY <1>2, ContainsMeant, ElementIndex DEF BuiltBy, Documented, Meant
<1>3. CASE a.helper = "Between"
  BY <1>3, BetweenMeant DEF BuiltBy, Documented, Meant
<1>4. CASE a.helper = "Range"
  BY <1>4, RangeMeant, ElementIndex DEF BuiltBy, Documented, Meant
<1> QED
  BY <1>1, <1>2, <1>3, <1>4 DEF BuiltBy

-----------------------------------------------------------------------------
(* The invariant *)

\* A helper leaves a predicate or NULL, never the empty array: a script that
\* starts afresh has asked nothing.
LEMMA FreshAsksNothing == ASSUME PredicateInv, Fresh PROVE asked.helper = "none"
<1>1. SUFFICES ASSUME BuiltBy(asked) PROVE FALSE
  BY DEF PredicateInv
<1>2. where = Empty
  BY DEF Fresh
<1>3. where # Null
  BY <1>2 DEF Empty, Null
<1>4. "bin" \in DOMAIN where
  BY <1>1, <1>3, HelpersUseFour
<1> QED
  BY <1>2, <1>4 DEF Empty

LEMMA PredicateInit == ASSUME Init PROVE PredicateInv
BY DEF Init, NoAsk, PredicateInv

LEMMA PredicateNext == ASSUME PredicateInv, [Next]_vars PROVE PredicateInv'
<1>1. ASSUME NEW bin, NEW v, predicateEquals(bin, v) PROVE PredicateInv'
  BY <1>1 DEF predicateEquals, Built, Fresh, PredicateInv, BuiltBy
<1>2. ASSUME NEW bin, NEW i, NEW v, predicateContains(bin, i, v) PROVE PredicateInv'
  BY <1>2 DEF predicateContains, Built, Fresh, PredicateInv, BuiltBy
<1>3. ASSUME NEW bin, NEW min, NEW max, predicateBetween(bin, min, max) PROVE PredicateInv'
  BY <1>3 DEF predicateBetween, Built, Fresh, PredicateInv, BuiltBy
<1>4. ASSUME NEW bin, NEW i, NEW min, NEW max, predicateRange(bin, i, min, max)
      PROVE  PredicateInv'
  BY <1>4 DEF predicateRange, Built, Fresh, PredicateInv, BuiltBy
<1>5. ASSUME NEW keys, NEW bin, NEW i, NEW op, NEW v, WriteArray(keys, bin, i, op, v)
      PROVE  PredicateInv'
  BY <1>5, FreshAsksNothing DEF WriteArray, Fresh, PredicateInv
<1>6. ASSUME NEW x, WriteScalar(x) PROVE PredicateInv'
  BY <1>6, FreshAsksNothing DEF WriteScalar, Fresh, PredicateInv
<1>7. CASE Query
  BY <1>7 DEF Query, PredicateInv, BuiltBy, Answer
<1>8. CASE Again
  BY <1>8 DEF Again, NoAsk, PredicateInv
<1>9. CASE UNCHANGED vars
  BY <1>9 DEF vars, PredicateInv, BuiltBy, Answer
<1> QED
  BY <1>1, <1>2, <1>3, <1>4, <1>5, <1>6, <1>7, <1>8, <1>9 DEF Next

\* Whatever the arguments: with documented ones the query carries the clause that
\* the call of the helper described; with any others it is refused, or it is a
\* clause on the same bin, or the helper has returned NULL.
THEOREM HelpersAndQueryAgree == Spec => []PredicatesMeanWhatIsAsked
<1>1. ASSUME PredicateInv PROVE PredicatesMeanWhatIsAsked
  <2> SUFFICES ASSUME asked.helper # "none", query.status # "none"
               PROVE  /\ Documented(asked) => query = Meant(asked)
                      /\ query.status = "all" => where = Null
                      /\ query.status = "clause" => query.bin = asked.bin
    BY DEF PredicatesMeanWhatIsAsked, Meant
  <2>1. BuiltBy(asked) /\ query = Answer(where)
    BY <1>1 DEF PredicateInv
  <2>2. Documented(asked) => query = Meant(asked)
    BY <2>1, DocumentedMeant
  <2>3. CASE where = Null
    <3>1. query = [status |-> "all"]
      BY <2>1, <2>3 DEF Answer
    <3> QED
      BY <2>2, <2>3, <3>1
  <2>4. CASE where # Null
    BY <2>1, <2>2, <2>4, HelpersUseFour, FourOperators
  <2> QED
    BY <2>3, <2>4
<1> QED
  BY <1>1, PredicateInit, PredicateNext, PTL DEF Spec
=============================================================================
