------------------------- MODULE ConversionsProofs --------------------------
(***************************************************************************)
(* Proofs about Conversions: put and operate accept exactly what fits,     *)
(* lists stay lists, what was written is what get returns, and get never   *)
(* returns OK with a part of a record.  They hold for values of any shape  *)
(* and size, any strings and callbacks and any limits with SizeAssumption. *)
(*                                                                         *)
(* The invariant IInv has a part for each piece of state: EncOK what a     *)
(* conversion has made and taken from the pools so far, StoredOK how the   *)
(* record comes from what was written, KeysOK that no array has a key      *)
(* twice, DecOK how far get has read, OutOK what it has made.              *)
(***************************************************************************)
EXTENDS Conversions, FiniteSetTheorems, TLAPS

-----------------------------------------------------------------------------
(* The inductive invariants *)

\* The bins of a call are PHP values under different names.
BinsOK(bins) ==
    /\ DOMAIN bins = 1 .. Len(bins) /\ Len(bins) \in Nat
    /\ \A b \in DOMAIN bins : IsPhpValue(bins[b])
    /\ \A b, c \in DOMAIN bins : b # c => bins[b][1].key # bins[c][1].key

\* The arguments of put and operate.
ArgsOK(c) ==
    /\ BinsOK(c.bins) /\ c.type \in Serializers /\ c.op \in {"put", "operate"}
    /\ c.op = "operate" => \A b \in DOMAIN c.bins : c.bins[b][1].key[1] = "str"

CallOK ==
    /\ call.op \in {"none", "put", "operate", "get"}
    /\ call.op \in {"put", "operate"} => ArgsOK(call)

\* The arrays that is_assoc takes for lists, and those that are lists.
CodeLists(bins) == {x \in Places(bins) : ~IsAssoc(bins[x[1]], x[2])}
RefLists(bins) == {x \in Places(bins) : IsList(bins[x[1]], x[2])}

\* A conversion at e has made the value, the key of element x.
ValueDone(e, x) == x[1] < e.bin \/ (x[1] = e.bin /\ x[2] < e.pos)
KeyDone(e, x) == ValueDone(e, x) \/ (x = <<e.bin, e.pos>> /\ e.at = "value")

\* Where the conversion of call c can be.
EncAt(c, e) ==
    /\ DOMAIN e = {"bin", "pos", "at", "pool", "val", "record"}
    /\ e.bin \in 1 .. Len(c.bins) + 1 /\ e.pos \in Nat \ {0}
    /\ e.bin <= Len(c.bins) => e.pos <= Len(c.bins[e.bin]) + 1
    /\ e.at \in {"key", "value"}
    /\ e.at = "value" => e.bin <= Len(c.bins) /\ e.pos <= Len(c.bins[e.bin])

ValuesTaken(c, e, p) == {x \in ValuesFrom(c, CodeLists(c.bins), p) : ValueDone(e, x)}
KeysTaken(c, e, p) == {x \in KeysFrom(c, CodeLists(c.bins), p) : KeyDone(e, x)}

\* The pools have handed out one object for each value and each key made so far.
PoolsCount(c, e) ==
    /\ e.pool \in [Pools -> Nat]
    /\ \A p \in Pools :
        /\ e.pool[p] = Cardinality(ValuesTaken(c, e, p)) + Cardinality(KeysTaken(c, e, p))
        /\ e.pool[p] <= PoolMax

NameOK(bins, b) == bins[b][1].key[1] = "str" /\ Cut[bins[b][1].key[2]] \notin LongNames

\* What has been converted could be.
Checked(c, e) ==
    /\ c.op = "put" => \A b \in DOMAIN c.bins : KeyDone(e, <<b, 1>>) => NameOK(c.bins, b)
    /\ c.op = "operate" => \A b \in DOMAIN c.bins : b < e.bin => NameOK(c.bins, b)
    /\ \A x \in Places(c.bins) : ValueDone(e, x) => Serializable(c.bins[x[1]][x[2]].val, c)

\* t is what becomes of the first m elements of v: an element that no later one has
\* replaced is there.
Encoded(t, v, m) ==
    /\ DOMAIN t \subseteq 1 .. m
    /\ \A i \in DOMAIN t : \E type \in Serializers : t[i] = AsElement(v, i, type)
    /\ \A i \in 1 .. m :
        (\A j \in i + 1 .. m : v[j].up = v[i].up => AsKey(v, j) # AsKey(v, i))
        => i \in DOMAIN t

Name(bins, b) == bins[b][1].key[2]

\* The value of the current bin as far as it is made, and the bins before it.
ValOK(c, e) == e.bin <= Len(c.bins) => Encoded(e.val, c.bins[e.bin], e.pos - 1)

RecordOK(c, e) ==
    /\ DOMAIN e.record = {Cut[Name(c.bins, b)] : b \in 1 .. e.bin - 1}
    /\ \A b \in 1 .. e.bin - 1 :
        (\A d \in 1 .. e.bin - 1 : Cut[Name(c.bins, d)] = Cut[Name(c.bins, b)] => d = b)
        => Encoded(e.record[Cut[Name(c.bins, b)]], c.bins[b], Len(c.bins[b]))

EncState(c, e) ==
    EncAt(c, e) /\ PoolsCount(c, e) /\ Checked(c, e) /\ ValOK(c, e) /\ RecordOK(c, e)

EncOK == Encoding => EncState(call, enc)

\* is_assoc is right about all arrays in v.
Sized(v) == \A i \in DOMAIN v : IsAssoc(v, i) <=> ~IsList(v, i)

\* No other bin of w has the C string of this name.
AloneIn(w, b) == \A d \in DOMAIN w : Cut[d] = Cut[b] => d = b

\* The record s is what becomes of the PHP bins w.
StoredState(w, s) ==
    /\ w = [b \in DOMAIN w |-> w[b]]
    /\ DOMAIN w \subseteq Strings
    /\ DOMAIN s = {Cut[b] : b \in DOMAIN w}
    /\ \A b \in DOMAIN w :
        /\ IsPhpValue(w[b]) /\ w[b][1].key = <<"str", b>> /\ Sized(w[b])
        /\ AloneIn(w, b) => Encoded(s[Cut[b]], w[b], Len(w[b]))

StoredOK == written # Null => StoredState(written, stored)

Unreadable(t) == \E n \in DOMAIN t :
    \/ ~(t[n].key[1] \in {"int", "str", "list", "map", "nil", "PHP"})
    \/ ~(t[n].val[1] \in {"int", "str", "list", "map", "nil", "PHP"})

\* Element n of tree t is to be read once its container is.
Due(t, php, n) == t[n].up = 0 \/ (t[n].up \in DOMAIN php /\ Container(t[t[n].up].val))

\* No two elements of an array have the same key.
UniqueKeys(t) == \A i, j \in DOMAIN t : t[i].up = t[j].up /\ t[i].key = t[j].key => i = j

PhpKinds == {"int", "str", "obj", "arr"}

\* What has been made of t.
ReadOK(php, t) ==
    /\ php = [n \in DOMAIN php |-> php[n]]
    /\ \A n \in DOMAIN php :
        /\ n \in DOMAIN t
        /\ \E chance \in Chances :
            php[n] = PhpElement(t[n], chance) /\ PhpVal(t[n].val, chance)[1] \in PhpKinds

\* Element n of t is there, or has no place in a PHP array, or one that has its key
\* there has taken its place.
Accounted(t, php, n) ==
    \/ n \in DOMAIN php
    \/ t[n].key[1] \notin {"int", "str"}
    \/ \E m \in DOMAIN php : php[m].up = t[n].up /\ php[m].key = ArrayKey(t[n].key)

\* A container that is not on the stack has been read to its end.
DecState(d, s) ==
    /\ DOMAIN d = {"left", "bin", "stack", "read", "php", "out"} /\ d.left \subseteq DOMAIN s
    /\ d.stack # <<>> =>
        LET t == s[d.bin] IN
        /\ d.bin \in d.left /\ d.stack \in Seq({0} \cup DOMAIN t)
        /\ ReadOK(d.php, t) /\ DOMAIN d.php \subseteq d.read /\ d.read \subseteq DOMAIN t
        /\ \A n \in d.read : Accounted(t, d.php, n)
        /\ \A n \in DOMAIN t : Due(t, d.php, n) =>
            n \in d.read \/ \E k \in DOMAIN d.stack : d.stack[k] = t[n].up

DecOK == Decoding => DecState(dec, stored)

\* The bins that are read are read to their end.
OutState(d, s) ==
    /\ d.out = [b \in DOMAIN d.out |-> d.out[b]]
    /\ DOMAIN d.out = DOMAIN s \ d.left
    /\ \A b \in DOMAIN d.out :
        /\ ReadOK(d.out[b], s[b])
        /\ \A n \in DOMAIN s[b] : Due(s[b], d.out[b], n) => Accounted(s[b], d.out[b], n)

OutOK == call.op = "get" =>
    /\ status \in {"busy", "OK"} => OutState(dec, stored)
    /\ status = "OK" => dec.left = {}
    /\ status \notin {"busy", "OK"} => \E b \in DOMAIN stored : Unreadable(stored[b])

\* as_map_set and as_list_append keep the keys of an array different.
KeysOK ==
    /\ Encoding => /\ UniqueKeys(enc.val)
                   /\ \A b \in DOMAIN enc.record : UniqueKeys(enc.record[b])
    /\ \A b \in DOMAIN stored : UniqueKeys(stored[b])

IInv == CallOK /\ AcceptedExactly /\ EncOK /\ StoredOK /\ KeysOK /\ DecOK /\ OutOK

-----------------------------------------------------------------------------
(* Values and their elements *)

\* The elements of a PHP value, in terms of its length.
LEMMA ValueFacts ==
    ASSUME NEW v, IsPhpValue(v)
    PROVE  /\ Len(v) \in Nat \ {0} /\ DOMAIN v = 1 .. Len(v)
           /\ v = [i \in 1 .. Len(v) |-> v[i]]
           /\ \A i \in DOMAIN v :
                /\ v[i] = [up |-> v[i].up, key |-> v[i].key, val |-> v[i].val]
                /\ v[i].up \in Nat /\ v[i].key \in Keys /\ v[i].val \in Values
                /\ i = 1 <=> v[i].up = 0
                /\ i # 1 => v[i].up \in 1 .. i - 1 /\ v[v[i].up].val = <<"arr", Null>>
                /\ i # 1 => IsArrayKey(v[i].key)
                /\ \A j \in DOMAIN v : i # j /\ v[i].up = v[j].up => v[i].key # v[j].key
  <1>1. v \in Seq([up : Nat, key : Keys, val : Values]) /\ v # <<>>
    BY DEF IsPhpValue
  <1>2. Len(v) \in Nat \ {0} /\ DOMAIN v = 1 .. Len(v)
    BY <1>1
  <1>3. v = [i \in 1 .. Len(v) |-> v[i]]
    BY <1>1
  <1>4. ASSUME NEW i \in DOMAIN v
        PROVE  /\ v[i] = [up |-> v[i].up, key |-> v[i].key, val |-> v[i].val]
               /\ v[i].up \in Nat /\ v[i].key \in Keys /\ v[i].val \in Values
               /\ i = 1 <=> v[i].up = 0
               /\ i # 1 => v[i].up \in 1 .. i - 1 /\ v[v[i].up].val = <<"arr", Null>>
               /\ i # 1 => IsArrayKey(v[i].key)
               /\ \A j \in DOMAIN v : i # j /\ v[i].up = v[j].up => v[i].key # v[j].key
    <2>1. v[i] \in [up : Nat, key : Keys, val : Values]
      <3> DEFINE R == [up : Nat, key : Keys, val : Values]
      <3>1. v \in Seq(R)
        BY <1>1
      <3> HIDE DEF R
      <3>2. v[i] \in R
        BY <1>2, <3>1
      <3>3. QED
        BY <3>2 DEF R
    <2>2. /\ i = 1 <=> v[i].up = 0
          /\ i # 1 => v[i].up \in 1 .. i - 1 /\ v[v[i].up].val = <<"arr", Null>>
          /\ i # 1 => IsArrayKey(v[i].key)
      BY <1>2 DEF IsPhpValue
    <2>3. \A j \in DOMAIN v : i # j /\ v[i].up = v[j].up => v[i].key # v[j].key
      <3>1. TAKE j \in DOMAIN v
      <3>2. i \in Nat /\ j \in Nat /\ i >= 1 /\ j >= 1
        BY <1>2
      <3>3. \A m \in DOMAIN v : \A k \in 1 .. m - 1 : v[k].up = v[m].up => v[k].key # v[m].key
        BY Zenon DEF IsPhpValue
      <3>4. j \in 1 .. i - 1 \/ i \in 1 .. j - 1 \/ i = j
        BY <3>2
      <3>5. QED
        BY <3>3, <3>4
    <2>4. QED
      BY <2>1, <2>2, <2>3
  <1>5. QED
    BY <1>2, <1>3, <1>4

\* The kinds of keys and of values.
LEMMA KeyFacts ==
    ASSUME NEW k \in Keys
    PROVE  /\ k[1] \in {"int", "str"} /\ k[1] \in Pools
           /\ k = <<k[1], k[2]>>
           /\ k[1] = "str" => k[2] \in Strings
  BY DEF Keys, Pools

LEMMA ValFacts ==
    ASSUME NEW x \in Values
    PROVE  /\ x[1] \in {"int", "str", "obj", "arr"} /\ x = <<x[1], x[2]>>
           /\ x[1] = "str" => x[2] \in Strings
           /\ x[1] = "arr" => x = <<"arr", Null>>
           /\ \A list : PoolOf(x, list) \in Pools
  <1>1. /\ x[1] \in {"int", "str", "obj", "arr"} /\ x = <<x[1], x[2]>>
        /\ x[1] = "str" => x[2] \in Strings
        /\ x[1] = "arr" => x = <<"arr", Null>>
    BY DEF Values, Keys
  <1>2. \A list : PoolOf(x, list) \in Pools
    BY <1>1 DEF PoolOf, Pools
  <1>3. QED
    BY <1>1, <1>2

LEMMA BeforeFacts ==
    ASSUME NEW v, IsPhpValue(v), NEW i \in DOMAIN v
    PROVE  /\ Before(v, i) \in Nat
           /\ IsFiniteSet({j \in 1 .. i - 1 : v[j].up = v[i].up})
  <1>1. i \in Nat /\ i >= 1
    BY ValueFacts
  <1>2. IsFiniteSet(1 .. i - 1)
    BY <1>1, FS_Interval
  <1>3. IsFiniteSet({j \in 1 .. i - 1 : v[j].up = v[i].up})
    BY <1>2, FS_Subset
  <1>4. QED
    BY <1>3, FS_CardinalityType DEF Before

\* A later element of the same array has a greater position.
LEMMA BeforeGrows ==
    ASSUME NEW v, IsPhpValue(v), NEW i \in DOMAIN v, NEW j \in DOMAIN v, i < j, v[i].up = v[j].up
    PROVE  Before(v, i) < Before(v, j)
  <1> DEFINE S == {k \in 1 .. i - 1 : v[k].up = v[i].up}
             T == {k \in 1 .. j - 1 : v[k].up = v[j].up}
  <1>1. i \in Nat /\ j \in Nat /\ i >= 1
    BY ValueFacts
  <1>2. S \cup {i} \subseteq T /\ i \notin S
    BY <1>1
  <1>3. IsFiniteSet(S) /\ IsFiniteSet(T)
    BY BeforeFacts
  <1>4. Cardinality(S \cup {i}) = Cardinality(S) + 1 /\ IsFiniteSet(S \cup {i})
    <2> HIDE DEF S
    <2>1. QED
      BY <1>2, <1>3, FS_AddElement
  <1>5. Cardinality(S \cup {i}) <= Cardinality(T) /\ Cardinality(S) \in Nat /\ Cardinality(T) \in Nat
    <2> HIDE DEF S, T
    <2>1. QED
      BY <1>2, <1>3, FS_Subset, FS_CardinalityType
  <1>6. QED
    BY <1>4, <1>5 DEF Before

\* The position of an element is less than the size of its array.
LEMMA BeforeLess ==
    ASSUME NEW v, IsPhpValue(v), NEW i, NEW j \in Elements(v, i)
    PROVE  /\ IsFiniteSet(Elements(v, i)) /\ Cardinality(Elements(v, i)) \in Nat
           /\ Before(v, j) < Cardinality(Elements(v, i))
  <1> DEFINE S == {k \in 1 .. j - 1 : v[k].up = v[j].up}
  <1>1. j \in DOMAIN v /\ v[j].up = i /\ DOMAIN v = 1 .. Len(v) /\ Len(v) \in Nat
    BY ValueFacts DEF Elements
  <1>2. S \cup {j} \subseteq Elements(v, i) /\ j \notin S
    BY <1>1 DEF Elements
  <1>3. IsFiniteSet(S)
    BY <1>1, BeforeFacts
  <1>4. IsFiniteSet(Elements(v, i))
    <2>1. Elements(v, i) \subseteq 1 .. Len(v)
      BY <1>1 DEF Elements
    <2>2. IsFiniteSet(1 .. Len(v))
      BY <1>1, FS_Interval
    <2>3. QED
      BY <2>1, <2>2, FS_Subset
  <1>5. Cardinality(S \cup {j}) = Cardinality(S) + 1 /\ IsFiniteSet(S \cup {j})
    <2> HIDE DEF S
    <2>1. QED
      BY <1>2, <1>3, FS_AddElement
  <1>6. /\ Cardinality(S \cup {j}) <= Cardinality(Elements(v, i))
        /\ Cardinality(S) \in Nat /\ Cardinality(Elements(v, i)) \in Nat
    <2> HIDE DEF S
    <2>1. QED
      BY <1>2, <1>3, <1>4, FS_Subset, FS_CardinalityType
  <1>7. QED
    BY <1>4, <1>5, <1>6 DEF Before

\* is_assoc is right about an array of no more elements than its counter has values.
LEMMA SmallArrays ==
    ASSUME NEW v, IsPhpValue(v),
           NEW i, Cardinality(Elements(v, i)) <= CountModulus
    PROVE  IsAssoc(v, i) <=> ~IsList(v, i)
  <1>1. ASSUME NEW j \in Elements(v, i)
        PROVE  Before(v, j) % CountModulus = Before(v, j)
    <2>1. Before(v, j) < Cardinality(Elements(v, i)) /\ Cardinality(Elements(v, i)) \in Nat
      BY BeforeLess
    <2>2. Before(v, j) \in Nat
      BY BeforeFacts DEF Elements
    <2>3. QED
      BY <2>1, <2>2, SizeAssumption
  <1>2. QED
    BY <1>1 DEF IsAssoc, IsList

-----------------------------------------------------------------------------
(* What the pools have room for *)

LEMMA PlacesFinite ==
    ASSUME NEW bins, BinsOK(bins)
    PROVE  IsFiniteSet(Places(bins))
  <1> DEFINE f == [b \in DOMAIN bins |-> {b} \X DOMAIN bins[b]]
             T == {{b} \X DOMAIN bins[b] : b \in DOMAIN bins}
  <1>1. IsFiniteSet(DOMAIN bins)
    BY FS_Interval DEF BinsOK
  <1>2. f \in Surjection(DOMAIN bins, T)
    BY DEF Surjection
  <1>3. IsFiniteSet(T)
    <2> HIDE DEF f, T
    <2>1. QED
      BY <1>1, <1>2, FS_Surjection
  <1>4. ASSUME NEW b \in DOMAIN bins
        PROVE  IsFiniteSet({b} \X DOMAIN bins[b])
    <2>1. Len(bins[b]) \in Nat /\ DOMAIN bins[b] = 1 .. Len(bins[b])
      BY ValueFacts DEF BinsOK
    <2>2. IsFiniteSet(DOMAIN bins[b])
      BY <2>1, FS_Interval
    <2>3. QED
      BY <2>2, FS_Singleton, FS_Product
  <1>5. \A t \in T : IsFiniteSet(t)
    BY <1>4
  <1>6. QED
    <2> HIDE DEF T
    <2>1. IsFiniteSet(UNION T)
      BY <1>3, <1>5, FS_UNION
    <2>2. QED
      BY <2>1 DEF T, Places

LEMMA PlaceFacts ==
    ASSUME NEW bins, BinsOK(bins)
    PROVE  /\ \A x \in Places(bins) : /\ x[1] \in DOMAIN bins /\ x[2] \in DOMAIN bins[x[1]]
                                      /\ x = <<x[1], x[2]>>
                                      /\ x[1] \in Nat \ {0} /\ x[2] \in Nat \ {0}
           /\ \A b \in DOMAIN bins : /\ \A i \in DOMAIN bins[b] : <<b, i>> \in Places(bins)
                                     /\ 1 \in DOMAIN bins[b]
  <1>1. ASSUME NEW b \in DOMAIN bins
        PROVE  b \in Nat \ {0} /\ \A i \in DOMAIN bins[b] : i \in Nat \ {0}
    <2>1. Len(bins[b]) \in Nat /\ DOMAIN bins[b] = 1 .. Len(bins[b])
      BY ValueFacts DEF BinsOK
    <2>2. b \in Nat \ {0}
      BY DEF BinsOK
    <2>3. QED
      BY <2>1, <2>2
  <1>2. \A b \in DOMAIN bins : 1 \in DOMAIN bins[b]
    <2>1. TAKE b \in DOMAIN bins
    <2>2. Len(bins[b]) \in Nat \ {0} /\ DOMAIN bins[b] = 1 .. Len(bins[b])
      BY ValueFacts DEF BinsOK
    <2>3. QED
      BY <2>2
  <1>3. QED
    BY <1>1, <1>2 DEF Places

LEMMA UsesFinite ==
    ASSUME NEW c, BinsOK(c.bins), NEW lists, NEW p
    PROVE  /\ IsFiniteSet(ValuesFrom(c, lists, p)) /\ IsFiniteSet(KeysFrom(c, lists, p))
           /\ Cardinality(ValuesFrom(c, lists, p)) \in Nat
           /\ Cardinality(KeysFrom(c, lists, p)) \in Nat
  <1>1. /\ ValuesFrom(c, lists, p) \subseteq Places(c.bins)
        /\ KeysFrom(c, lists, p) \subseteq Places(c.bins)
    BY DEF ValuesFrom, KeysFrom
  <1>2. IsFiniteSet(ValuesFrom(c, lists, p)) /\ IsFiniteSet(KeysFrom(c, lists, p))
    BY <1>1, PlacesFinite, FS_Subset
  <1>3. QED
    BY <1>2, FS_CardinalityType

LEMMA UnionBound ==
    ASSUME NEW S, NEW T, IsFiniteSet(S), IsFiniteSet(T)
    PROVE  /\ IsFiniteSet(S \cup T)
           /\ Cardinality(S \cup T) <= Cardinality(S) + Cardinality(T)
           /\ Cardinality(S \cup T) \in Nat /\ Cardinality(S) \in Nat /\ Cardinality(T) \in Nat
  <1>1. IsFiniteSet(S \cup T) /\ IsFiniteSet(S \cap T)
    BY FS_Union, FS_Intersection
  <1>2. Cardinality(S \cup T) = Cardinality(S) + Cardinality(T) - Cardinality(S \cap T)
    BY FS_Union
  <1>3. /\ Cardinality(S \cup T) \in Nat /\ Cardinality(S) \in Nat /\ Cardinality(T) \in Nat
        /\ Cardinality(S \cap T) \in Nat
    BY <1>1, FS_CardinalityType
  <1>4. QED
    BY <1>1, <1>2, <1>3

\* The elements that take their value from some pool.
Pooled(c, lists) ==
    (ValuesFrom(c, lists, "int") \cup ValuesFrom(c, lists, "str"))
    \cup (ValuesFrom(c, lists, "list") \cup ValuesFrom(c, lists, "map"))
    \cup ValuesFrom(c, lists, "bytes")

\* What takes its value from some pool is no more than all pools hold.
LEMMA PooledBound ==
    ASSUME NEW c, BinsOK(c.bins), NEW lists,
           \A p \in Pools : Cardinality(ValuesFrom(c, lists, p)) <= PoolMax
    PROVE  /\ IsFiniteSet(Pooled(c, lists))
           /\ Cardinality(Pooled(c, lists)) \in Nat
           /\ Cardinality(Pooled(c, lists)) <= 5 * PoolMax
  <1> DEFINE V(p) == ValuesFrom(c, lists, p)
  <1>1. \A p : IsFiniteSet(V(p)) /\ Cardinality(V(p)) \in Nat
    BY UsesFinite
  <1>2. \A p \in Pools : Cardinality(V(p)) <= PoolMax
    OBVIOUS
  <1> HIDE DEF V
  <1>3. /\ IsFiniteSet(V("int") \cup V("str")) /\ Cardinality(V("int") \cup V("str")) \in Nat
        /\ Cardinality(V("int") \cup V("str")) <= 2 * PoolMax
    BY <1>1, <1>2, UnionBound, SizeAssumption DEF Pools
  <1>4. /\ IsFiniteSet(V("list") \cup V("map")) /\ Cardinality(V("list") \cup V("map")) \in Nat
        /\ Cardinality(V("list") \cup V("map")) <= 2 * PoolMax
    BY <1>1, <1>2, UnionBound, SizeAssumption DEF Pools
  <1> DEFINE A == V("int") \cup V("str")
             B == V("list") \cup V("map")
  <1>5. /\ IsFiniteSet(A \cup B) /\ Cardinality(A \cup B) \in Nat
        /\ Cardinality(A \cup B) <= 4 * PoolMax
    <2> HIDE DEF A, B
    <2>1. /\ IsFiniteSet(A) /\ IsFiniteSet(B) /\ Cardinality(A) <= 2 * PoolMax
          /\ Cardinality(B) <= 2 * PoolMax
      BY <1>3, <1>4 DEF A, B
    <2>2. QED
      BY <2>1, UnionBound, SizeAssumption
  <1>6. /\ IsFiniteSet((A \cup B) \cup V("bytes")) /\ Cardinality((A \cup B) \cup V("bytes")) \in Nat
        /\ Cardinality((A \cup B) \cup V("bytes")) <= 5 * PoolMax
    <2> DEFINE D == A \cup B
    <2>1. IsFiniteSet(D) /\ Cardinality(D) \in Nat /\ Cardinality(D) <= 4 * PoolMax
      BY <1>5
    <2>2. Cardinality(V("bytes")) <= PoolMax /\ IsFiniteSet(V("bytes"))
      BY <1>1, <1>2 DEF Pools
    <2> HIDE DEF D
    <2>3. IsFiniteSet(D \cup V("bytes")) /\ Cardinality(D \cup V("bytes")) \in Nat
          /\ Cardinality(D \cup V("bytes")) <= 5 * PoolMax
      BY <2>1, <2>2, UnionBound, SizeAssumption
    <2>4. QED
      BY <2>3 DEF D
  <1>7. QED
    BY <1>6 DEF V, Pooled

\* A value that fits into the pools has no array that is_assoc is wrong about: every
\* element of an array takes an object.
LEMMA PooledSized ==
    ASSUME NEW c, BinsOK(c.bins), NEW lists,
           \A p \in Pools : Cardinality(ValuesFrom(c, lists, p)) <= PoolMax,
           NEW b \in DOMAIN c.bins
    PROVE  Sized(c.bins[b])
  <1> DEFINE v == c.bins[b]
             U == Pooled(c, lists)
  <1>1. IsPhpValue(v)
    BY DEF BinsOK
  <1>2. IsFiniteSet(U) /\ Cardinality(U) \in Nat /\ Cardinality(U) <= 5 * PoolMax
    BY PooledBound
  <1>3. ASSUME NEW i \in DOMAIN v
        PROVE  Cardinality(Elements(v, i)) <= CountModulus
    <2> DEFINE E == Elements(v, i)
               f == [j \in E |-> <<b, j>>]
    <2>1. ASSUME NEW j \in E PROVE <<b, j>> \in U
      <3>1. j \in DOMAIN v /\ j # 1
        BY <1>1, ValueFacts DEF Elements
      <3>2. <<b, j>> \in Places(c.bins)
        BY <3>1, PlaceFacts
      <3>3. FromPool(c.op, v, j)
        BY <3>1 DEF FromPool
      <3>4. PoolOf(v[j].val, <<b, j>> \in lists) \in Pools
        BY <1>1, <3>1, ValueFacts, ValFacts
      <3>5. <<b, j>> \in ValuesFrom(c, lists, PoolOf(v[j].val, <<b, j>> \in lists))
        BY <3>2, <3>3 DEF ValuesFrom
      <3>6. QED
        BY <3>4, <3>5 DEF Pools, Pooled
    <2>2. f \in Injection(E, U)
      BY <2>1 DEF Injection, IsInjective
    <2>3. IsFiniteSet(E) /\ Cardinality(E) <= Cardinality(U)
      <3> HIDE DEF E, f, U
      <3>1. QED
        BY <1>2, <2>2, FS_Injection
    <2>4. Cardinality(E) \in Nat
      BY <2>3, FS_CardinalityType
    <2>5. QED
      BY <1>2, <2>3, <2>4, SizeAssumption
  <1>4. QED
    BY <1>1, <1>3, SmallArrays DEF Sized

\* Fits, with what is_assoc takes for lists.
CodeFits(c) ==
    /\ \A b \in DOMAIN c.bins : NameOK(c.bins, b)
    /\ \A x \in Places(c.bins) : Serializable(c.bins[x[1]][x[2]].val, c)
    /\ \A p \in Pools : Cardinality(ValuesFrom(c, CodeLists(c.bins), p))
                        + Cardinality(KeysFrom(c, CodeLists(c.bins), p)) <= PoolMax

LEMMA SizedLists ==
    ASSUME NEW bins, BinsOK(bins), \A b \in DOMAIN bins : Sized(bins[b])
    PROVE  CodeLists(bins) = RefLists(bins)
  BY PlaceFacts DEF Sized, CodeLists, RefLists

\* For the whole value it makes no difference whose lists are counted: where they
\* differ, neither count fits.
LEMMA FitsByCode ==
    ASSUME NEW c, BinsOK(c.bins)
    PROVE  /\ Fits(c) <=> CodeFits(c)
           /\ Fits(c) => \A b \in DOMAIN c.bins : Sized(c.bins[b])
  <1>1. Fits(c) <=>
            /\ \A b \in DOMAIN c.bins : NameOK(c.bins, b)
            /\ \A x \in Places(c.bins) : Serializable(c.bins[x[1]][x[2]].val, c)
            /\ \A p \in Pools : Cardinality(ValuesFrom(c, RefLists(c.bins), p))
                                + Cardinality(KeysFrom(c, RefLists(c.bins), p)) <= PoolMax
    BY DEF Fits, RefLists, NameOK
  <1>2. ASSUME NEW lists,
               \A p \in Pools : Cardinality(ValuesFrom(c, lists, p))
                                + Cardinality(KeysFrom(c, lists, p)) <= PoolMax
        PROVE  \A b \in DOMAIN c.bins : Sized(c.bins[b])
    <2>1. \A p \in Pools : Cardinality(ValuesFrom(c, lists, p)) <= PoolMax
      <3>1. TAKE p \in Pools
      <3>2. Cardinality(ValuesFrom(c, lists, p)) \in Nat /\ Cardinality(KeysFrom(c, lists, p)) \in Nat
        BY UsesFinite
      <3>3. QED
        BY <1>2, <3>2, SizeAssumption
    <2>2. QED
      BY <2>1, PooledSized
  <1>3. Fits(c) => \A b \in DOMAIN c.bins : Sized(c.bins[b])
    BY <1>1, <1>2
  <1>4. CodeFits(c) => \A b \in DOMAIN c.bins : Sized(c.bins[b])
    BY <1>2 DEF CodeFits
  <1>5. QED
    BY <1>1, <1>3, <1>4, SizedLists DEF CodeFits

LEMMA SubsetCard ==
    ASSUME NEW T, IsFiniteSet(T), NEW S, S \subseteq T
    PROVE  /\ IsFiniteSet(S) /\ Cardinality(S) \in Nat /\ Cardinality(T) \in Nat
           /\ Cardinality(S) <= Cardinality(T)
           /\ \A x \in T : x \notin S =>
                Cardinality(S \cup {x}) = Cardinality(S) + 1 /\ Cardinality(S) + 1 <= Cardinality(T)
  <1>1. /\ IsFiniteSet(S) /\ Cardinality(S) \in Nat /\ Cardinality(T) \in Nat
        /\ Cardinality(S) <= Cardinality(T)
    BY FS_Subset, FS_CardinalityType
  <1>2. ASSUME NEW x \in T, x \notin S
        PROVE  Cardinality(S \cup {x}) = Cardinality(S) + 1 /\ Cardinality(S) + 1 <= Cardinality(T)
    <2>1. Cardinality(S \cup {x}) = Cardinality(S) + 1
      BY <1>1, <1>2, FS_AddElement
    <2>2. S \cup {x} \subseteq T
      BY <1>2
    <2>3. Cardinality(S \cup {x}) <= Cardinality(T)
      BY <2>2, FS_Subset
    <2>4. QED
      BY <2>1, <2>3
  <1>3. QED
    BY <1>1, <1>2

-----------------------------------------------------------------------------
(* What the conversion of a value makes *)

LEMMA EncodedStep ==
    ASSUME NEW v, IsPhpValue(v), NEW i \in DOMAIN v, NEW t, Encoded(t, v, i - 1),
           NEW type \in Serializers
    PROVE  Encoded(Attach(t, i, AsElement(v, i, type)), v, i)
  <1> DEFINE e == AsElement(v, i, type)
             new == Attach(t, i, e)
             Kept == {k \in DOMAIN t : t[k].up # e.up \/ t[k].key # e.key}
  <1>1. i \in Nat /\ i >= 1 /\ DOMAIN v = 1 .. Len(v) /\ Len(v) \in Nat
    BY ValueFacts
  <1>2. DOMAIN t \subseteq 1 .. i - 1
    BY DEF Encoded
  <1>3. DOMAIN new = Kept \cup {i} /\ new[i] = e /\ \A k \in Kept : new[k] = t[k]
    BY <1>1, <1>2 DEF Attach, With
  <1>4. DOMAIN new \subseteq 1 .. i
    BY <1>1, <1>2, <1>3
  <1>5. ASSUME NEW k \in DOMAIN new
        PROVE  \E ty \in Serializers : new[k] = AsElement(v, k, ty)
    BY <1>3 DEF Encoded
  <1>6. ASSUME NEW k \in 1 .. i,
               \A j \in k + 1 .. i : v[j].up = v[k].up => AsKey(v, j) # AsKey(v, k)
        PROVE  k \in DOMAIN new
    <2>1. CASE k = i
      BY <2>1, <1>3
    <2>2. CASE k # i
      <3>1. k \in 1 .. i - 1 /\ i \in k + 1 .. i
        BY <2>2, <1>1
      <3>2. \A j \in k + 1 .. i - 1 : v[j].up = v[k].up => AsKey(v, j) # AsKey(v, k)
        BY <1>6, <1>1
      <3>3. k \in DOMAIN t
        BY <3>1, <3>2 DEF Encoded
      <3>4. t[k].up = v[k].up /\ t[k].key = AsKey(v, k)
        BY <3>3 DEF Encoded, AsElement
      <3>5. e.up = v[i].up /\ e.key = AsKey(v, i)
        BY DEF AsElement
      <3>6. t[k].up # e.up \/ t[k].key # e.key
        BY <3>1, <3>4, <3>5, <1>6
      <3>7. QED
        BY <3>3, <3>6, <1>3
    <2>3. QED
      BY <2>1, <2>2
  <1>7. QED
    BY <1>4, <1>5, <1>6 DEF Encoded

LEMMA EncodedEmpty ==
    ASSUME NEW v
    PROVE  Encoded(Empty, v, 0)
  BY DEF Encoded, Empty

-----------------------------------------------------------------------------
(* The steps of the conversion of a call c, from e to f *)

LEMMA EncStart ==
    ASSUME NEW c, ArgsOK(c)
    PROVE  EncState(c, NoEnc)
  <1>1. BinsOK(c.bins) /\ Len(c.bins) \in Nat /\ DOMAIN c.bins = 1 .. Len(c.bins)
    BY DEF ArgsOK, BinsOK
  <1>2. /\ NoEnc.bin = 1 /\ NoEnc.pos = 1 /\ NoEnc.at = "key" /\ NoEnc.pool = [p \in Pools |-> 0]
        /\ NoEnc.val = Empty /\ NoEnc.record = Empty
        /\ DOMAIN NoEnc = {"bin", "pos", "at", "pool", "val", "record"}
    BY DEF NoEnc
  <1>3. EncAt(c, NoEnc)
    <2>1. 1 <= Len(c.bins) => Len(c.bins[1]) \in Nat
      BY <1>1, ValueFacts DEF BinsOK
    <2>2. QED
      BY <1>1, <1>2, <2>1 DEF EncAt
  <1>4. \A x \in Places(c.bins) : ~ValueDone(NoEnc, x) /\ ~KeyDone(NoEnc, x)
    <2>1. TAKE x \in Places(c.bins)
    <2>2. x[1] \in Nat \ {0} /\ x[2] \in Nat \ {0}
      BY <1>1, PlaceFacts
    <2>3. QED
      BY <1>2, <2>2 DEF ValueDone, KeyDone
  <1>5. PoolsCount(c, NoEnc)
    <2>1. \A p : ValuesTaken(c, NoEnc, p) = {} /\ KeysTaken(c, NoEnc, p) = {}
      BY <1>4 DEF ValuesTaken, KeysTaken, ValuesFrom, KeysFrom
    <2>2. QED
      BY <1>2, <2>1, FS_EmptySet, SizeAssumption DEF PoolsCount
  <1>6. Checked(c, NoEnc)
    <2>1. \A b \in DOMAIN c.bins : <<b, 1>> \in Places(c.bins)
      BY <1>1, PlaceFacts
    <2>2. \A b \in DOMAIN c.bins : ~(b < NoEnc.bin)
      BY <1>1, <1>2
    <2>3. QED
      BY <1>4, <2>1, <2>2 DEF Checked
  <1>7. ValOK(c, NoEnc)
    BY <1>2, EncodedEmpty DEF ValOK
  <1>8. RecordOK(c, NoEnc)
    BY <1>2 DEF RecordOK, Empty
  <1>9. QED
    BY <1>3, <1>5, <1>6, <1>7, <1>8 DEF EncState

\* Taken values and keys are some of all values and keys.
LEMMA TakenFacts ==
    ASSUME NEW c, BinsOK(c.bins), NEW e, NEW p
    PROVE  LET V == ValuesFrom(c, CodeLists(c.bins), p)
               K == KeysFrom(c, CodeLists(c.bins), p)
           IN /\ IsFiniteSet(V) /\ IsFiniteSet(K)
              /\ ValuesTaken(c, e, p) \subseteq V /\ KeysTaken(c, e, p) \subseteq K
              /\ Cardinality(ValuesTaken(c, e, p)) \in Nat /\ Cardinality(KeysTaken(c, e, p)) \in Nat
              /\ Cardinality(V) \in Nat /\ Cardinality(K) \in Nat
              /\ Cardinality(ValuesTaken(c, e, p)) <= Cardinality(V)
              /\ Cardinality(KeysTaken(c, e, p)) <= Cardinality(K)
  <1> DEFINE V == ValuesFrom(c, CodeLists(c.bins), p)
             K == KeysFrom(c, CodeLists(c.bins), p)
  <1>1. IsFiniteSet(V) /\ IsFiniteSet(K)
    BY UsesFinite
  <1>2. ValuesTaken(c, e, p) \subseteq V /\ KeysTaken(c, e, p) \subseteq K
    BY DEF ValuesTaken, KeysTaken
  <1>3. QED
    <2> HIDE DEF V, K
    <2>1. /\ Cardinality(ValuesTaken(c, e, p)) \in Nat /\ Cardinality(V) \in Nat
          /\ Cardinality(ValuesTaken(c, e, p)) <= Cardinality(V)
      BY <1>1, <1>2, SubsetCard
    <2>2. /\ Cardinality(KeysTaken(c, e, p)) \in Nat /\ Cardinality(K) \in Nat
          /\ Cardinality(KeysTaken(c, e, p)) <= Cardinality(K)
      BY <1>1, <1>2, SubsetCard
    <2>3. QED
      BY <1>1, <1>2, <2>1, <2>2 DEF V, K

\* A value, or a key, that finds its pool exhausted is one too many for the call.
LEMMA ExhaustedNoFit ==
    ASSUME NEW c, BinsOK(c.bins), NEW e, PoolsCount(c, e), NEW p \in Pools,
           Exhausted(e.pool, p), NEW x,
           \/ x \in ValuesFrom(c, CodeLists(c.bins), p) /\ ~ValueDone(e, x)
           \/ x \in KeysFrom(c, CodeLists(c.bins), p) /\ ~KeyDone(e, x)
    PROVE  ~Fits(c)
  <1> DEFINE V == ValuesFrom(c, CodeLists(c.bins), p)
             K == KeysFrom(c, CodeLists(c.bins), p)
             VT == ValuesTaken(c, e, p)
             KT == KeysTaken(c, e, p)
  <1>1. /\ IsFiniteSet(V) /\ IsFiniteSet(K) /\ VT \subseteq V /\ KT \subseteq K
        /\ Cardinality(VT) \in Nat /\ Cardinality(KT) \in Nat
        /\ Cardinality(V) \in Nat /\ Cardinality(K) \in Nat
        /\ Cardinality(VT) <= Cardinality(V) /\ Cardinality(KT) <= Cardinality(K)
    BY TakenFacts
  <1>2. Cardinality(VT) + Cardinality(KT) >= PoolMax
    BY DEF PoolsCount, Exhausted
  <1>3. (x \in V /\ x \notin VT) \/ (x \in K /\ x \notin KT)
    BY DEF ValuesTaken, KeysTaken
  <1>4. Cardinality(V) + Cardinality(K) > PoolMax
    <2> HIDE DEF V, K, VT, KT
    <2>1. CASE x \in V /\ x \notin VT
      <3>1. Cardinality(VT) + 1 <= Cardinality(V)
        BY <1>1, <2>1, SubsetCard
      <3>2. QED
        BY <1>1, <1>2, <3>1, SizeAssumption
    <2>2. CASE x \in K /\ x \notin KT
      <3>1. Cardinality(KT) + 1 <= Cardinality(K)
        BY <1>1, <2>2, SubsetCard
      <3>2. QED
        BY <1>1, <1>2, <3>1, SizeAssumption
    <2>3. QED
      BY <1>3, <2>1, <2>2
  <1>5. ~CodeFits(c)
    BY <1>1, <1>4, SizeAssumption DEF CodeFits
  <1>6. QED
    BY <1>5, FitsByCode


\* The key of the current element is made.
LEMMA KeyStep ==
    ASSUME NEW c, ArgsOK(c), NEW e, EncState(c, e),
           e.bin <= Len(c.bins), e.pos <= Len(c.bins[e.bin]), e.at = "key",
           NEW f, DOMAIN f = DOMAIN e, f.bin = e.bin, f.pos = e.pos, f.at = "value",
           f.val = e.val, f.record = e.record,
           \A p \in Pools : <<e.bin, e.pos>> \in KeysFrom(c, CodeLists(c.bins), p)
                                => ~Exhausted(e.pool, p),
           f.pool = [p \in Pools |->
                        IF <<e.bin, e.pos>> \in KeysFrom(c, CodeLists(c.bins), p)
                        THEN e.pool[p] + 1 ELSE e.pool[p]],
           c.op = "put" /\ e.pos = 1 => NameOK(c.bins, e.bin)
    PROVE  EncState(c, f)
  <1> DEFINE x0 == <<e.bin, e.pos>>
             K(p) == KeysFrom(c, CodeLists(c.bins), p)
  <1>1. /\ BinsOK(c.bins) /\ EncAt(c, e) /\ PoolsCount(c, e) /\ Checked(c, e) /\ ValOK(c, e)
        /\ RecordOK(c, e)
    BY DEF EncState, ArgsOK
  <1>2. e.bin \in Nat /\ e.pos \in Nat
    BY <1>1 DEF EncAt
  <1>3. \A x : ValueDone(f, x) <=> ValueDone(e, x)
    BY DEF ValueDone
  <1>4. \A x : KeyDone(f, x) <=> KeyDone(e, x) \/ x = x0
    BY <1>3 DEF KeyDone
  <1>5. ~KeyDone(e, x0)
    BY <1>2 DEF KeyDone, ValueDone
  <1>6. EncAt(c, f)
    BY <1>1 DEF EncAt
  <1>7. PoolsCount(c, f)
    <2>1. f.pool \in [Pools -> Nat]
      BY <1>1 DEF PoolsCount
    <2>2. ASSUME NEW p \in Pools
          PROVE  /\ f.pool[p] = Cardinality(ValuesTaken(c, f, p)) + Cardinality(KeysTaken(c, f, p))
                 /\ f.pool[p] <= PoolMax
      <3>1. /\ e.pool[p] = Cardinality(ValuesTaken(c, e, p)) + Cardinality(KeysTaken(c, e, p))
            /\ e.pool[p] <= PoolMax /\ e.pool[p] \in Nat
        BY <1>1 DEF PoolsCount
      <3>2. ValuesTaken(c, f, p) = ValuesTaken(c, e, p)
        BY <1>3 DEF ValuesTaken
      <3>3. CASE x0 \in K(p)
        <4>1. KeysTaken(c, f, p) = KeysTaken(c, e, p) \cup {x0} /\ x0 \notin KeysTaken(c, e, p)
          BY <1>4, <1>5, <3>3 DEF KeysTaken
        <4>2. /\ Cardinality(KeysTaken(c, e, p) \cup {x0}) = Cardinality(KeysTaken(c, e, p)) + 1
          <5>1. IsFiniteSet(K(p)) /\ KeysTaken(c, e, p) \subseteq K(p)
            BY <1>1, TakenFacts
          <5> HIDE DEF K, x0
          <5>2. QED
            BY <5>1, <4>1, <3>3, SubsetCard
        <4>3. f.pool[p] = e.pool[p] + 1 /\ e.pool[p] < PoolMax
          BY <3>1, <3>3, SizeAssumption DEF Exhausted
        <4>4. Cardinality(ValuesTaken(c, e, p)) \in Nat /\ Cardinality(KeysTaken(c, e, p)) \in Nat
          BY <1>1, TakenFacts
        <4>5. QED
          BY <3>1, <3>2, <4>1, <4>2, <4>3, <4>4, SizeAssumption
      <3>4. CASE x0 \notin K(p)
        <4>1. KeysTaken(c, f, p) = KeysTaken(c, e, p)
          BY <1>4, <3>4 DEF KeysTaken
        <4>2. f.pool[p] = e.pool[p]
          BY <3>4
        <4>3. QED
          BY <3>1, <3>2, <4>1, <4>2
      <3>5. QED
        BY <3>3, <3>4
    <2>3. QED
      BY <2>1, <2>2 DEF PoolsCount
  <1>8. Checked(c, f)
    BY <1>1, <1>3, <1>4 DEF Checked
  <1>9. ValOK(c, f)
    BY <1>1 DEF ValOK
  <1>10. RecordOK(c, f)
    BY <1>1 DEF RecordOK
  <1>11. QED
    BY <1>6, <1>7, <1>8, <1>9, <1>10 DEF EncState

\* The value of the current element is made.
LEMMA ValueStep ==
    ASSUME NEW c, ArgsOK(c), NEW e, EncState(c, e),
           e.bin <= Len(c.bins), e.pos <= Len(c.bins[e.bin]), e.at = "value",
           NEW f, DOMAIN f = DOMAIN e, f.bin = e.bin, f.pos = e.pos + 1, f.at = "key",
           f.val = Attach(e.val, e.pos, AsElement(c.bins[e.bin], e.pos, c.type)),
           f.record = e.record,
           \A p \in Pools : <<e.bin, e.pos>> \in ValuesFrom(c, CodeLists(c.bins), p)
                                => ~Exhausted(e.pool, p),
           f.pool = [p \in Pools |->
                        IF <<e.bin, e.pos>> \in ValuesFrom(c, CodeLists(c.bins), p)
                        THEN e.pool[p] + 1 ELSE e.pool[p]],
           Serializable(c.bins[e.bin][e.pos].val, c)
    PROVE  EncState(c, f)
  <1> DEFINE x0 == <<e.bin, e.pos>>
             V(p) == ValuesFrom(c, CodeLists(c.bins), p)
  <1>1. /\ BinsOK(c.bins) /\ EncAt(c, e) /\ PoolsCount(c, e) /\ Checked(c, e) /\ ValOK(c, e)
        /\ RecordOK(c, e) /\ c.type \in Serializers
    BY DEF EncState, ArgsOK
  <1>2. e.bin \in Nat /\ e.pos \in Nat \ {0} /\ e.bin \in DOMAIN c.bins
    BY <1>1 DEF EncAt, BinsOK
  <1>3. \A x \in Places(c.bins) : ValueDone(f, x) <=> ValueDone(e, x) \/ x = x0
    <2>1. TAKE x \in Places(c.bins)
    <2>2. x[1] \in Nat /\ x[2] \in Nat /\ x = <<x[1], x[2]>>
      BY <1>1, PlaceFacts
    <2>3. QED
      BY <1>2, <2>2 DEF ValueDone
  <1>4. \A x \in Places(c.bins) : KeyDone(f, x) <=> KeyDone(e, x)
    BY <1>3 DEF KeyDone
  <1>5. ~ValueDone(e, x0)
    BY <1>2 DEF ValueDone
  <1>6. IsPhpValue(c.bins[e.bin]) /\ Len(c.bins[e.bin]) \in Nat
        /\ DOMAIN c.bins[e.bin] = 1 .. Len(c.bins[e.bin])
    BY <1>1, <1>2, ValueFacts DEF BinsOK
  <1>7. EncAt(c, f)
    BY <1>1, <1>2, <1>6 DEF EncAt
  <1>8. PoolsCount(c, f)
    <2>1. f.pool \in [Pools -> Nat]
      BY <1>1 DEF PoolsCount
    <2>2. ASSUME NEW p \in Pools
          PROVE  /\ f.pool[p] = Cardinality(ValuesTaken(c, f, p)) + Cardinality(KeysTaken(c, f, p))
                 /\ f.pool[p] <= PoolMax
      <3>1. /\ e.pool[p] = Cardinality(ValuesTaken(c, e, p)) + Cardinality(KeysTaken(c, e, p))
            /\ e.pool[p] <= PoolMax /\ e.pool[p] \in Nat
        BY SMTT(20), <1>1 DEF PoolsCount
      <3>2. KeysTaken(c, f, p) = KeysTaken(c, e, p)
        BY <1>4 DEF KeysTaken, KeysFrom
      <3>3. CASE x0 \in V(p)
        <4>1. ValuesTaken(c, f, p) = ValuesTaken(c, e, p) \cup {x0} /\ x0 \notin ValuesTaken(c, e, p)
          BY <1>3, <1>5, <3>3 DEF ValuesTaken, ValuesFrom
        <4>2. /\ Cardinality(ValuesTaken(c, e, p) \cup {x0}) = Cardinality(ValuesTaken(c, e, p)) + 1
          <5>1. IsFiniteSet(V(p)) /\ ValuesTaken(c, e, p) \subseteq V(p)
            BY <1>1, TakenFacts
          <5> HIDE DEF V, x0
          <5>2. QED
            BY <5>1, <4>1, <3>3, SubsetCard
        <4>3. f.pool[p] = e.pool[p] + 1 /\ e.pool[p] < PoolMax
          BY <3>1, <3>3, SizeAssumption DEF Exhausted
        <4>4. Cardinality(ValuesTaken(c, e, p)) \in Nat /\ Cardinality(KeysTaken(c, e, p)) \in Nat
          BY <1>1, TakenFacts
        <4>5. QED
          BY SMTT(20), <3>1, <3>2, <4>1, <4>2, <4>3, <4>4, SizeAssumption
      <3>4. CASE x0 \notin V(p)
        <4>1. ValuesTaken(c, f, p) = ValuesTaken(c, e, p)
          BY <1>3, <3>4 DEF ValuesTaken, ValuesFrom
        <4>2. f.pool[p] = e.pool[p]
          BY <3>4
        <4>3. QED
          BY SMTT(20), <3>1, <3>2, <4>1, <4>2
      <3>5. QED
        BY <3>3, <3>4
    <2>3. QED
      BY <2>1, <2>2 DEF PoolsCount
  <1>9. Checked(c, f)
    <2>1. \A b \in DOMAIN c.bins : <<b, 1>> \in Places(c.bins)
      BY <1>1, PlaceFacts
    <2>2. QED
      BY <1>1, <1>3, <1>4, <2>1 DEF Checked
  <1>10. ValOK(c, f)
    <2>1. Encoded(e.val, c.bins[e.bin], e.pos - 1)
      BY <1>1 DEF ValOK
    <2>2. Encoded(f.val, c.bins[e.bin], e.pos)
      BY <1>1, <1>2, <1>6, <2>1, EncodedStep
    <2>3. QED
      BY <1>2, <2>2 DEF ValOK
  <1>11. RecordOK(c, f)
    BY <1>1 DEF RecordOK
  <1>12. QED
    BY <1>7, <1>8, <1>9, <1>10, <1>11 DEF EncState

\* The value of the current bin is complete.
LEMMA BinStep ==
    ASSUME NEW c, ArgsOK(c), NEW e, EncState(c, e),
           e.bin <= Len(c.bins), e.pos > Len(c.bins[e.bin]),
           NEW f, DOMAIN f = DOMAIN e, f.bin = e.bin + 1, f.pos = 1, f.at = e.at,
           f.val = Empty, f.pool = e.pool,
           f.record = With(e.record, Cut[Name(c.bins, e.bin)], e.val),
           c.op = "operate" => NameOK(c.bins, e.bin)
    PROVE  EncState(c, f)
  <1>1. /\ BinsOK(c.bins) /\ EncAt(c, e) /\ PoolsCount(c, e) /\ Checked(c, e) /\ ValOK(c, e)
        /\ RecordOK(c, e)
    BY DEF EncState, ArgsOK
  <1>2. /\ e.bin \in Nat \ {0} /\ e.pos \in Nat \ {0} /\ e.bin \in DOMAIN c.bins
        /\ Len(c.bins) \in Nat /\ DOMAIN c.bins = 1 .. Len(c.bins)
    BY <1>1 DEF EncAt, BinsOK
  <1>3. \A b \in DOMAIN c.bins : /\ Len(c.bins[b]) \in Nat \ {0}
                                 /\ DOMAIN c.bins[b] = 1 .. Len(c.bins[b])
    BY <1>1, ValueFacts DEF BinsOK
  <1>4. e.at = "key" /\ e.pos = Len(c.bins[e.bin]) + 1
    BY <1>1, <1>2, <1>3 DEF EncAt
  <1>5. \A x \in Places(c.bins) : /\ ValueDone(f, x) <=> ValueDone(e, x)
                                  /\ KeyDone(f, x) <=> KeyDone(e, x)
    <2>1. TAKE x \in Places(c.bins)
    <2>2. /\ x[1] \in Nat \ {0} /\ x[2] \in Nat \ {0}
          /\ x[1] \in DOMAIN c.bins /\ x[2] \in DOMAIN c.bins[x[1]]
      BY <1>1, PlaceFacts
    <2>3. x[2] <= Len(c.bins[x[1]])
      BY <2>2, <1>3
    <2>4. ValueDone(f, x) <=> ValueDone(e, x)
      BY SMTT(20), <1>2, <1>3, <1>4, <2>2, <2>3 DEF ValueDone
    <2>5. QED
      BY <1>4, <2>4 DEF KeyDone
  <1>6. EncAt(c, f)
    <2>1. e.bin + 1 <= Len(c.bins) => Len(c.bins[e.bin + 1]) \in Nat
      BY <1>2, <1>3
    <2>2. QED
      BY <1>1, <1>2, <1>4, <2>1 DEF EncAt
  <1>7. PoolsCount(c, f)
    <2>1. \A p : ValuesTaken(c, f, p) = ValuesTaken(c, e, p) /\ KeysTaken(c, f, p) = KeysTaken(c, e, p)
      BY <1>5 DEF ValuesTaken, KeysTaken, ValuesFrom, KeysFrom
    <2>2. QED
      BY <1>1, <2>1 DEF PoolsCount
  <1>8. Checked(c, f)
    <2>1. \A b \in DOMAIN c.bins : <<b, 1>> \in Places(c.bins)
      BY <1>1, PlaceFacts
    <2>2. \A b \in DOMAIN c.bins : b < f.bin => b < e.bin \/ b = e.bin
      BY <1>2
    <2>3. QED
      BY <1>1, <1>5, <2>1, <2>2 DEF Checked
  <1>9. ValOK(c, f)
    BY EncodedEmpty DEF ValOK
  <1>10. RecordOK(c, f)
    <2> DEFINE N(b) == Cut[Name(c.bins, b)]
    <2>1. 1 .. f.bin - 1 = (1 .. e.bin - 1) \cup {e.bin}
      BY <1>2
    <2>2. /\ DOMAIN e.record = {N(b) : b \in 1 .. e.bin - 1}
          /\ \A b \in 1 .. e.bin - 1 :
                (\A d \in 1 .. e.bin - 1 : N(d) = N(b) => d = b)
                => Encoded(e.record[N(b)], c.bins[b], Len(c.bins[b]))
      BY <1>1 DEF RecordOK
    <2>3. /\ DOMAIN f.record = DOMAIN e.record \cup {N(e.bin)}
          /\ f.record[N(e.bin)] = e.val
          /\ \A n \in DOMAIN e.record : n # N(e.bin) => f.record[n] = e.record[n]
      BY DEF With
    <2>4. DOMAIN f.record = {N(b) : b \in 1 .. f.bin - 1}
      <3> HIDE DEF N
      <3>1. QED
        BY <2>1, <2>2, <2>3
    <2>5. ASSUME NEW b \in 1 .. f.bin - 1, \A d \in 1 .. f.bin - 1 : N(d) = N(b) => d = b
          PROVE  Encoded(f.record[N(b)], c.bins[b], Len(c.bins[b]))
      <3>1. CASE b = e.bin
        <4>1. Encoded(e.val, c.bins[e.bin], Len(c.bins[e.bin]))
          BY <1>1, <1>3, <1>4, <1>2 DEF ValOK
        <4>2. QED
          BY <3>1, <2>3, <4>1
      <3>2. CASE b # e.bin
        <4>1. b \in 1 .. e.bin - 1 /\ N(b) # N(e.bin)
          BY <2>1, <2>5, <3>2
        <4>2. N(b) \in DOMAIN e.record
          BY <2>2, <4>1
        <4>3. Encoded(e.record[N(b)], c.bins[b], Len(c.bins[b]))
          BY <2>1, <2>2, <2>5, <4>1
        <4>4. QED
          BY <2>3, <4>1, <4>2, <4>3
      <3>3. QED
        BY <3>1, <3>2
    <2>6. QED
      BY <2>4, <2>5 DEF RecordOK
  <1>11. QED
    BY <1>6, <1>7, <1>8, <1>9, <1>10 DEF EncState

\* Where x is the current element: the pools for its value and its key.
LEMMA PlaceUses ==
    ASSUME NEW c, BinsOK(c.bins), NEW b \in DOMAIN c.bins, NEW i \in DOMAIN c.bins[b]
    PROVE  /\ <<b, i>> \in CodeLists(c.bins) <=> ~IsAssoc(c.bins[b], i)
           /\ \A p : <<b, i>> \in ValuesFrom(c, CodeLists(c.bins), p) <=>
                FromPool(c.op, c.bins[b], i) /\ PoolOf(c.bins[b][i].val, ~IsAssoc(c.bins[b], i)) = p
           /\ \A p : <<b, i>> \in KeysFrom(c, CodeLists(c.bins), p) <=>
                i > 1 /\ IsAssoc(c.bins[b], c.bins[b][i].up) /\ c.bins[b][i].key[1] = p
  <1>1. <<b, i>> \in Places(c.bins)
    BY PlaceFacts
  <1>2. <<b, i>> \in CodeLists(c.bins) <=> ~IsAssoc(c.bins[b], i)
    BY <1>1 DEF CodeLists
  <1>3. ASSUME NEW p
        PROVE  <<b, i>> \in ValuesFrom(c, CodeLists(c.bins), p) <=>
                FromPool(c.op, c.bins[b], i) /\ PoolOf(c.bins[b][i].val, ~IsAssoc(c.bins[b], i)) = p
    <2>1. <<b, i>> \in ValuesFrom(c, CodeLists(c.bins), p) <=>
            FromPool(c.op, c.bins[b], i) /\ PoolOf(c.bins[b][i].val, <<b, i>> \in CodeLists(c.bins)) = p
      BY <1>1 DEF ValuesFrom
    <2>2. PoolOf(c.bins[b][i].val, <<b, i>> \in CodeLists(c.bins))
            = PoolOf(c.bins[b][i].val, ~IsAssoc(c.bins[b], i))
      BY <1>2 DEF PoolOf
    <2>3. QED
      BY <2>1, <2>2
  <1>4. ASSUME NEW p
        PROVE  <<b, i>> \in KeysFrom(c, CodeLists(c.bins), p) <=>
                i > 1 /\ IsAssoc(c.bins[b], c.bins[b][i].up) /\ c.bins[b][i].key[1] = p
    <2>1. <<b, i>> \in KeysFrom(c, CodeLists(c.bins), p) <=>
            i > 1 /\ <<b, c.bins[b][i].up>> \notin CodeLists(c.bins) /\ c.bins[b][i].key[1] = p
      BY <1>1 DEF KeysFrom
    <2>2. CASE i > 1
      <3>1. IsPhpValue(c.bins[b])
        BY DEF BinsOK
      <3>2. c.bins[b][i].up \in DOMAIN c.bins[b]
        BY <2>2, <3>1, ValueFacts
      <3>3. <<b, c.bins[b][i].up>> \in Places(c.bins)
        BY <3>2, PlaceFacts
      <3>4. QED
        BY <2>1, <3>3 DEF CodeLists
    <2>3. QED
      BY <2>1, <2>2
  <1>5. QED
    BY <1>2, <1>3, <1>4

\* The error for a value is right: it means that the argument does not fit.
LEMMA ValueErrors ==
    ASSUME NEW c, ArgsOK(c), NEW e, EncState(c, e),
           e.bin <= Len(c.bins), e.pos <= Len(c.bins[e.bin])
    PROVE  LET v == c.bins[e.bin]
               code == ValueError(v, e.pos, c, e.pool)
           IN /\ code = "OK" => /\ Serializable(v[e.pos].val, c)
                                /\ FromPool(c.op, v, e.pos) =>
                                    ~Exhausted(e.pool, PoolOf(v[e.pos].val, ~IsAssoc(v, e.pos)))
              /\ code # "OK" => ~Fits(c)
              /\ code # "busy"
  <1> DEFINE v == c.bins[e.bin]
             i == e.pos
             p == PoolOf(v[i].val, ~IsAssoc(v, i))
             code == ValueError(v, i, c, e.pool)
  <1>1. /\ BinsOK(c.bins) /\ EncAt(c, e) /\ PoolsCount(c, e)
    BY DEF EncState, ArgsOK
  <1>2. e.bin \in DOMAIN c.bins /\ e.bin \in Nat /\ i \in Nat \ {0}
    BY <1>1 DEF EncAt, BinsOK
  <1>3. IsPhpValue(v) /\ i \in DOMAIN v
    BY <1>1, <1>2, ValueFacts DEF BinsOK
  <1>4. v[i].val \in Values
    BY <1>3, ValueFacts
  <1>5. p \in Pools
    BY <1>4, ValFacts
  <1>6. FromPool(c.op, v, i) => <<e.bin, i>> \in ValuesFrom(c, CodeLists(c.bins), p)
    <2>1. \A q : <<e.bin, i>> \in ValuesFrom(c, CodeLists(c.bins), q) <=>
                FromPool(c.op, v, i) /\ p = q
      BY <1>1, <1>2, <1>3, PlaceUses
    <2>2. QED
      BY <2>1
  <1>7. ~ValueDone(e, <<e.bin, i>>)
    BY <1>2 DEF ValueDone
  <1>8. FromPool(c.op, v, i) /\ Exhausted(e.pool, p) => ~Fits(c)
    BY <1>1, <1>5, <1>6, <1>7, ExhaustedNoFit
  <1>9. ~Serializable(v[i].val, c) => ~Fits(c)
    <2>1. <<e.bin, i>> \in Places(c.bins)
      BY <1>1, <1>2, <1>3, PlaceFacts
    <2>2. QED
      BY <2>1 DEF Fits
  <1>10. CASE v[i].val[1] = "obj"
    <2>1. FromPool(c.op, v, i) /\ p = "bytes"
      BY <1>10 DEF FromPool, PoolOf
    <2>2. code = SerializeError(v[i].val[2], e.pool, c.type, c.has)
      BY <1>10 DEF ValueError
    <2>3. code = "OK" => Serializable(v[i].val, c) /\ ~Exhausted(e.pool, "bytes")
      BY <2>2 DEF SerializeError, Serializable
    <2>4. code # "OK" => ~Serializable(v[i].val, c) \/ Exhausted(e.pool, "bytes")
      BY <1>10, <2>2 DEF SerializeError, Serializable
    <2>5. code # "busy"
      BY <2>2 DEF SerializeError
    <2>6. QED
      BY <1>8, <1>9, <2>1, <2>3, <2>4, <2>5
  <1>11. CASE v[i].val[1] # "obj"
    <2>1. Serializable(v[i].val, c)
      BY <1>11 DEF Serializable
    <2>2. code = IF FromPool(c.op, v, i) /\ Exhausted(e.pool, p) THEN "ERR_CLIENT" ELSE "OK"
      BY <1>11 DEF ValueError
    <2>3. QED
      BY <1>8, <2>1, <2>2
  <1>12. QED
    BY <1>10, <1>11

\* A conversion that has come to its end has been of something that fits.
LEMMA EncDone ==
    ASSUME NEW c, ArgsOK(c), NEW e, EncState(c, e), e.bin > Len(c.bins)
    PROVE  /\ Fits(c) /\ \A b \in DOMAIN c.bins : Sized(c.bins[b])
           /\ e.bin - 1 = Len(c.bins)
  <1>1. /\ BinsOK(c.bins) /\ EncAt(c, e) /\ PoolsCount(c, e) /\ Checked(c, e)
    BY DEF EncState, ArgsOK
  <1>2. /\ e.bin \in Nat /\ e.bin = Len(c.bins) + 1 /\ Len(c.bins) \in Nat
        /\ DOMAIN c.bins = 1 .. Len(c.bins)
    BY <1>1 DEF EncAt, BinsOK
  <1>3. \A x \in Places(c.bins) : ValueDone(e, x) /\ KeyDone(e, x)
    <2>1. TAKE x \in Places(c.bins)
    <2>2. x[1] \in DOMAIN c.bins
      BY <1>1, PlaceFacts
    <2>3. QED
      BY <1>2, <2>2 DEF ValueDone, KeyDone
  <1>4. CodeFits(c)
    <2>1. \A b \in DOMAIN c.bins : <<b, 1>> \in Places(c.bins)
      BY <1>1, PlaceFacts
    <2>2. \A p : /\ ValuesTaken(c, e, p) = ValuesFrom(c, CodeLists(c.bins), p)
                 /\ KeysTaken(c, e, p) = KeysFrom(c, CodeLists(c.bins), p)
      BY <1>3 DEF ValuesTaken, KeysTaken, ValuesFrom, KeysFrom
    <2>3. \A p \in Pools : Cardinality(ValuesFrom(c, CodeLists(c.bins), p))
                            + Cardinality(KeysFrom(c, CodeLists(c.bins), p)) <= PoolMax
      BY <1>1, <2>2 DEF PoolsCount
    <2>4. \A b \in DOMAIN c.bins : b < e.bin
      BY <1>2
    <2>5. \A b \in DOMAIN c.bins : NameOK(c.bins, b)
      BY <1>1, <1>3, <2>1, <2>4 DEF Checked, ArgsOK
    <2>6. QED
      BY <1>1, <1>3, <2>3, <2>5 DEF CodeFits, Checked
  <1>5. QED
    BY <1>1, <1>2, <1>4, FitsByCode

-----------------------------------------------------------------------------
(* The actions of put and operate *)

LEMMA CheckNameStep ==
    ASSUME CallOK, EncOK, CheckName
    PROVE  EncOK' /\ AcceptedExactly'
  <1> DEFINE b == enc.bin
             name == Value[1].key
  <1>1. /\ status = "busy" /\ call.op \in {"put", "operate"} /\ ArgsOK(call) /\ EncState(call, enc)
        /\ b <= Len(call.bins) /\ enc.pos <= Len(call.bins[b]) /\ enc.pos = 1 /\ enc.at = "key"
    BY DEF CheckName, InBin, Encoding, EncOK, CallOK, Value
  <1>2. /\ BinsOK(call.bins) /\ EncAt(call, enc) /\ enc.pool \in [Pools -> Nat] /\ b \in DOMAIN call.bins
    BY <1>1 DEF ArgsOK, EncState, EncAt, BinsOK, PoolsCount
  <1>3. CASE call.op = "put" /\ ~NameOK(call.bins, b)
    <2>1. ~Fits(call)
      BY <1>2, <1>3 DEF Fits, NameOK
    <2>2. status' \in {"ERR_PARAM", "ERR_BIN_NAME"} /\ call' = call
      BY <1>3 DEF CheckName, Fail, NameOK, Value
    <2>3. QED
      BY <2>1, <2>2 DEF EncOK, Encoding, AcceptedExactly, Returned
  <1>4. CASE ~(call.op = "put" /\ ~NameOK(call.bins, b))
    <2>1. /\ enc' = [enc EXCEPT !.at = "value"] /\ status' = status /\ call' = call
      BY <1>4 DEF CheckName, Proceed, NameOK, Value
    <2>2. /\ DOMAIN enc' = DOMAIN enc /\ enc'.bin = b /\ enc'.pos = enc.pos /\ enc'.at = "value"
          /\ enc'.val = enc.val /\ enc'.record = enc.record /\ enc'.pool = enc.pool
      BY <1>2, <2>1 DEF EncAt
    <2>3. \A p : <<b, enc.pos>> \notin KeysFrom(call, CodeLists(call.bins), p)
      BY <1>1 DEF KeysFrom
    <2>4. enc'.pool = [p \in Pools |->
                        IF <<enc.bin, enc.pos>> \in KeysFrom(call, CodeLists(call.bins), p)
                        THEN enc.pool[p] + 1 ELSE enc.pool[p]]
      BY <1>2, <2>2, <2>3
    <2>5. EncState(call, enc')
      BY <1>1, <1>4, <2>2, <2>3, <2>4, KeyStep
    <2>6. QED
      BY <1>1, <2>1, <2>5 DEF EncOK, AcceptedExactly, Returned
  <1>5. QED
    BY <1>3, <1>4

LEMMA ConvertKeyStep ==
    ASSUME CallOK, EncOK, ConvertKey
    PROVE  EncOK' /\ AcceptedExactly'
  <1> DEFINE b == enc.bin
             i == enc.pos
             v == call.bins[b]
             p0 == v[i].key[1]
             K(p) == KeysFrom(call, CodeLists(call.bins), p)
  <1>1. /\ status = "busy" /\ call.op \in {"put", "operate"} /\ ArgsOK(call) /\ EncState(call, enc)
        /\ b <= Len(call.bins) /\ i <= Len(v) /\ i > 1 /\ enc.at = "key"
    BY DEF ConvertKey, InBin, Encoding, EncOK, CallOK, Value
  <1>2. /\ BinsOK(call.bins) /\ EncAt(call, enc) /\ PoolsCount(call, enc)
        /\ enc.pool \in [Pools -> Nat] /\ b \in DOMAIN call.bins /\ b \in Nat /\ i \in Nat
    BY <1>1 DEF ArgsOK, EncState, EncAt, BinsOK, PoolsCount
  <1>3. IsPhpValue(v) /\ i \in DOMAIN v
    BY <1>1, <1>2, ValueFacts DEF BinsOK
  <1>4. p0 \in Pools
    BY <1>3, ValueFacts, KeyFacts
  <1>5. \A p : <<b, i>> \in K(p) <=> IsAssoc(v, v[i].up) /\ p0 = p
    <2>1. \A p : <<b, i>> \in K(p) <=> i > 1 /\ IsAssoc(v, v[i].up) /\ p0 = p
      BY <1>2, <1>3, PlaceUses
    <2>2. QED
      BY <1>1, <2>1
  <1>6. CASE IsAssoc(v, v[i].up) /\ Exhausted(enc.pool, p0)
    <2>1. ~KeyDone(enc, <<b, i>>)
      BY <1>1, <1>2 DEF KeyDone, ValueDone
    <2>2. ~Fits(call)
      BY <1>2, <1>4, <1>5, <1>6, <2>1, ExhaustedNoFit
    <2>3. status' = "ERR_CLIENT" /\ call' = call
      BY <1>6 DEF ConvertKey, Fail, Value
    <2>4. QED
      BY <2>2, <2>3 DEF EncOK, Encoding, AcceptedExactly, Returned
  <1>7. CASE ~(IsAssoc(v, v[i].up) /\ Exhausted(enc.pool, p0))
    <2> DEFINE new == IF IsAssoc(v, v[i].up) THEN Take(enc.pool, p0) ELSE enc.pool
    <2>1. /\ enc' = IF IsAssoc(v, v[i].up) THEN [enc EXCEPT !.at = "value", !.pool = Take(@, p0)]
                    ELSE [enc EXCEPT !.at = "value"]
          /\ status' = status /\ call' = call
      BY <1>7 DEF ConvertKey, Proceed, Value
    <2>2. /\ DOMAIN enc' = DOMAIN enc /\ enc'.bin = b /\ enc'.pos = i /\ enc'.at = "value"
          /\ enc'.val = enc.val /\ enc'.record = enc.record /\ enc'.pool = new
      BY <1>2, <2>1 DEF EncAt
    <2>3. new = [p \in Pools |-> IF <<b, i>> \in K(p) THEN enc.pool[p] + 1 ELSE enc.pool[p]]
      <3> HIDE DEF K, p0
      <3>1. QED
        BY <1>2, <1>4, <1>5 DEF Take
    <2>4. \A p \in Pools : <<b, i>> \in K(p) => ~Exhausted(enc.pool, p)
      BY <1>5, <1>7
    <2>5. EncState(call, enc')
      BY <1>1, <2>2, <2>3, <2>4, KeyStep
    <2>6. QED
      BY <1>1, <2>1, <2>5 DEF EncOK, AcceptedExactly, Returned
  <1>8. QED
    BY <1>6, <1>7

LEMMA ConvertValueStep ==
    ASSUME CallOK, EncOK, ConvertValue
    PROVE  EncOK' /\ AcceptedExactly'
  <1> DEFINE b == enc.bin
             i == enc.pos
             v == call.bins[b]
             code == ValueError(v, i, call, enc.pool)
             p0 == PoolOf(v[i].val, ~IsAssoc(v, i))
             V(p) == ValuesFrom(call, CodeLists(call.bins), p)
  <1>1. /\ status = "busy" /\ call.op \in {"put", "operate"} /\ ArgsOK(call) /\ EncState(call, enc)
        /\ b <= Len(call.bins) /\ i <= Len(v) /\ enc.at = "value"
    BY DEF ConvertValue, InBin, Encoding, EncOK, CallOK, Value
  <1>2. /\ BinsOK(call.bins) /\ EncAt(call, enc) /\ PoolsCount(call, enc)
        /\ enc.pool \in [Pools -> Nat] /\ b \in DOMAIN call.bins /\ i \in Nat \ {0}
    BY <1>1 DEF ArgsOK, EncState, EncAt, BinsOK, PoolsCount
  <1>3. IsPhpValue(v) /\ i \in DOMAIN v
    BY <1>1, <1>2, ValueFacts DEF BinsOK
  <1>4. p0 \in Pools
    BY <1>3, ValueFacts, ValFacts
  <1>5. \A p : <<b, i>> \in V(p) <=> FromPool(call.op, v, i) /\ p0 = p
    BY <1>2, <1>3, PlaceUses
  <1>6. /\ code = "OK" => /\ Serializable(v[i].val, call)
                          /\ FromPool(call.op, v, i) => ~Exhausted(enc.pool, p0)
        /\ code # "OK" => ~Fits(call)
        /\ code # "busy"
    BY <1>1, ValueErrors
  <1>7. CASE code # "OK"
    <2>1. status' = code /\ call' = call
      BY <1>7 DEF ConvertValue, Fail, Value
    <2>2. QED
      BY <1>6, <1>7, <2>1 DEF EncOK, Encoding, AcceptedExactly, Returned
  <1>8. CASE code = "OK"
    <2> DEFINE new == IF FromPool(call.op, v, i) THEN Take(enc.pool, p0) ELSE enc.pool
               val == Attach(enc.val, i, AsElement(v, i, call.type))
    <2>1. /\ enc' = [enc EXCEPT !.at = "key", !.pos = i + 1, !.pool = new, !.val = val]
          /\ status' = status /\ call' = call
      BY <1>8 DEF ConvertValue, Proceed, Value
    <2>2. /\ DOMAIN enc' = DOMAIN enc /\ enc'.bin = b /\ enc'.pos = i + 1 /\ enc'.at = "key"
          /\ enc'.val = val /\ enc'.record = enc.record /\ enc'.pool = new
      <3> HIDE DEF new, val
      <3>1. QED
        BY <1>2, <2>1 DEF EncAt
    <2>3. new = [p \in Pools |-> IF <<b, i>> \in V(p) THEN enc.pool[p] + 1 ELSE enc.pool[p]]
      <3> HIDE DEF V, p0
      <3>1. QED
        BY <1>2, <1>4, <1>5 DEF Take
    <2>4. \A p \in Pools : <<b, i>> \in V(p) => ~Exhausted(enc.pool, p)
      BY <1>5, <1>6, <1>8
    <2>5. EncState(call, enc')
      BY <1>1, <1>6, <1>8, <2>2, <2>3, <2>4, ValueStep
    <2>6. QED
      BY <1>1, <2>1, <2>5 DEF EncOK, AcceptedExactly, Returned
  <1>9. QED
    BY <1>7, <1>8

LEMMA SetBinStep ==
    ASSUME CallOK, EncOK, SetBin
    PROVE  EncOK' /\ AcceptedExactly'
  <1> DEFINE b == enc.bin
             record == With(enc.record, Cut[Name(call.bins, b)], enc.val)
  <1>1. /\ status = "busy" /\ call.op \in {"put", "operate"} /\ ArgsOK(call) /\ EncState(call, enc)
        /\ b <= Len(call.bins) /\ enc.pos > Len(call.bins[b])
    BY DEF SetBin, Encoding, EncOK, CallOK, Value
  <1>2. b \in DOMAIN call.bins /\ (call.op = "operate" => call.bins[b][1].key[1] = "str")
    BY <1>1 DEF ArgsOK, EncState, EncAt, BinsOK
  <1>3. CASE call.op = "operate" /\ ~NameOK(call.bins, b)
    <2>1. ~Fits(call)
      BY <1>2, <1>3 DEF Fits, NameOK
    <2>2. status' = "ERR_PARAM" /\ call' = call
      BY <1>2, <1>3 DEF SetBin, Fail, NameOK, Value
    <2>3. QED
      BY <2>1, <2>2 DEF EncOK, Encoding, AcceptedExactly, Returned
  <1>4. CASE ~(call.op = "operate" /\ ~NameOK(call.bins, b))
    <2>1. /\ enc' = [enc EXCEPT !.bin = b + 1, !.pos = 1, !.val = Empty, !.record = record]
          /\ status' = status /\ call' = call
      BY <1>2, <1>4 DEF SetBin, Proceed, Value, Name, NameOK
    <2>2. /\ DOMAIN enc' = DOMAIN enc /\ enc'.bin = b + 1 /\ enc'.pos = 1 /\ enc'.at = enc.at
          /\ enc'.val = Empty /\ enc'.record = record /\ enc'.pool = enc.pool
      <3> HIDE DEF record
      <3>1. DOMAIN enc = {"bin", "pos", "at", "pool", "val", "record"}
        BY <1>1 DEF EncState, EncAt
      <3>2. QED
        BY <2>1, <3>1
    <2>3. EncState(call, enc')
      BY <1>1, <1>4, <2>2, BinStep
    <2>4. QED
      BY <1>1, <2>1, <2>3 DEF EncOK, AcceptedExactly, Returned
  <1>5. QED
    BY <1>3, <1>4

\* The bins of an accepted call by their names.
LEMMA PhpBinsFacts ==
    ASSUME NEW c, ArgsOK(c), \A b \in DOMAIN c.bins : c.bins[b][1].key[1] = "str"
    PROVE  /\ DOMAIN PhpBins(c.bins) = {Name(c.bins, b) : b \in DOMAIN c.bins}
           /\ \A b \in DOMAIN c.bins :
                /\ c.bins[b][1].key = <<"str", Name(c.bins, b)>> /\ Name(c.bins, b) \in Strings
                /\ PhpBins(c.bins)[Name(c.bins, b)] = c.bins[b]
           /\ \A b, d \in DOMAIN c.bins : Name(c.bins, b) = Name(c.bins, d) => b = d
  <1>1. BinsOK(c.bins)
    BY DEF ArgsOK
  <1>2. ASSUME NEW b \in DOMAIN c.bins
        PROVE  c.bins[b][1].key = <<"str", Name(c.bins, b)>> /\ Name(c.bins, b) \in Strings
    <2>1. IsPhpValue(c.bins[b]) /\ 1 \in DOMAIN c.bins[b]
      BY <1>1, PlaceFacts DEF BinsOK
    <2>2. c.bins[b][1].key \in Keys
      BY <2>1, ValueFacts
    <2>3. QED
      BY <2>2, KeyFacts DEF Name
  <1>3. \A b, d \in DOMAIN c.bins : Name(c.bins, b) = Name(c.bins, d) => b = d
    BY <1>1, <1>2 DEF BinsOK
  <1>4. DOMAIN PhpBins(c.bins) = {Name(c.bins, b) : b \in DOMAIN c.bins}
    BY DEF PhpBins, Name
  <1>5. ASSUME NEW b \in DOMAIN c.bins
        PROVE  PhpBins(c.bins)[Name(c.bins, b)] = c.bins[b]
    <2> DEFINE d == CHOOSE d \in DOMAIN c.bins : c.bins[d][1].key[2] = Name(c.bins, b)
    <2>1. d \in DOMAIN c.bins /\ Name(c.bins, d) = Name(c.bins, b)
      BY DEF Name
    <2>2. d = b
      BY <1>3, <2>1
    <2>3. PhpBins(c.bins)[Name(c.bins, b)] = c.bins[d]
      <3>1. Name(c.bins, b) \in {c.bins[k][1].key[2] : k \in DOMAIN c.bins}
        BY DEF Name
      <3>2. QED
        BY <3>1 DEF PhpBins
    <2>4. QED
      BY <2>2, <2>3
  <1>6. QED
    BY <1>2, <1>3, <1>4, <1>5

\* The record after the server has set the bins of a converted call.
LEMMA MergeStep ==
    ASSUME NEW c, ArgsOK(c), NEW e, EncState(c, e), e.bin > Len(c.bins),
           NEW w, NEW s, StoredState(w, s)
    PROVE  StoredState(Merge(w, PhpBins(c.bins)), Merge(s, e.record))
  <1> DEFINE P == PhpBins(c.bins)
             R == e.record
             new == Merge(w, P)
             st == Merge(s, R)
             N(b) == Name(c.bins, b)
  <1>1. /\ Fits(c) /\ \A b \in DOMAIN c.bins : Sized(c.bins[b])
        /\ e.bin - 1 = Len(c.bins)
    BY EncDone
  <1>2. \A b \in DOMAIN c.bins : c.bins[b][1].key[1] = "str"
    BY <1>1 DEF Fits, ArgsOK
  <1>3. /\ DOMAIN P = {N(b) : b \in DOMAIN c.bins}
        /\ \A b \in DOMAIN c.bins :
            c.bins[b][1].key = <<"str", N(b)>> /\ N(b) \in Strings /\ P[N(b)] = c.bins[b]
        /\ \A b, d \in DOMAIN c.bins : N(b) = N(d) => b = d
    BY <1>2, PhpBinsFacts
  <1>4. DOMAIN c.bins = 1 .. e.bin - 1 /\ \A b \in DOMAIN c.bins : IsPhpValue(c.bins[b])
    BY <1>1 DEF ArgsOK, BinsOK
  <1>5. /\ DOMAIN R = {Cut[N(b)] : b \in DOMAIN c.bins}
        /\ \A b \in DOMAIN c.bins :
            (\A d \in DOMAIN c.bins : Cut[N(d)] = Cut[N(b)] => d = b)
            => Encoded(R[Cut[N(b)]], c.bins[b], Len(c.bins[b]))
    BY <1>4 DEF EncState, RecordOK
  <1> HIDE DEF P, R, N
  <1>6. /\ DOMAIN new = DOMAIN w \cup DOMAIN P /\ new = [b \in DOMAIN new |-> new[b]]
        /\ \A b \in DOMAIN P : new[b] = P[b]
        /\ \A b \in DOMAIN w : b \notin DOMAIN P => new[b] = w[b]
    BY DEF Merge
  <1>7. /\ DOMAIN st = DOMAIN s \cup DOMAIN R
        /\ \A b \in DOMAIN R : st[b] = R[b]
        /\ \A b \in DOMAIN s : b \notin DOMAIN R => st[b] = s[b]
    BY DEF Merge
  <1>8. /\ DOMAIN w \subseteq Strings /\ DOMAIN s = {Cut[b] : b \in DOMAIN w}
        /\ \A b \in DOMAIN w :
            /\ IsPhpValue(w[b]) /\ w[b][1].key = <<"str", b>> /\ Sized(w[b])
            /\ AloneIn(w, b) => Encoded(s[Cut[b]], w[b], Len(w[b]))
    BY DEF StoredState
  <1> HIDE DEF new, st
  <1>9. DOMAIN new \subseteq Strings
    BY <1>3, <1>6, <1>8
  <1>10. DOMAIN st = {Cut[b] : b \in DOMAIN new}
    BY <1>3, <1>5, <1>6, <1>7, <1>8
  <1>11. ASSUME NEW b \in DOMAIN new
         PROVE  /\ IsPhpValue(new[b]) /\ new[b][1].key = <<"str", b>> /\ Sized(new[b])
                /\ AloneIn(new, b) => Encoded(st[Cut[b]], new[b], Len(new[b]))
    <2>1. CASE b \in DOMAIN P
      <3>1. PICK d \in DOMAIN c.bins : b = N(d)
        BY <2>1, <1>3
      <3>2. new[b] = c.bins[d]
        BY <3>1, <2>1, <1>3, <1>6
      <3>3. ASSUME AloneIn(new, b)
            PROVE  Encoded(st[Cut[b]], new[b], Len(new[b]))
        <4>1. \A d2 \in DOMAIN c.bins : Cut[N(d2)] = Cut[N(d)] => d2 = d
          BY <3>1, <3>3, <1>3, <1>6 DEF AloneIn
        <4>2. Encoded(R[Cut[N(d)]], c.bins[d], Len(c.bins[d]))
          BY <4>1, <1>5
        <4>3. st[Cut[b]] = R[Cut[b]]
          BY <3>1, <1>5, <1>7
        <4>4. QED
          BY <3>1, <3>2, <4>2, <4>3
      <3>4. QED
        BY <3>1, <3>2, <3>3, <1>1, <1>3, <1>4
    <2>2. CASE b \notin DOMAIN P
      <3>1. b \in DOMAIN w /\ new[b] = w[b]
        BY <2>2, <1>6
      <3>2. ASSUME AloneIn(new, b)
            PROVE  Encoded(st[Cut[b]], new[b], Len(new[b]))
        <4>1. AloneIn(w, b)
          BY <3>2, <1>6 DEF AloneIn
        <4>2. Cut[b] \notin DOMAIN R
          BY <3>2, <2>2, <1>3, <1>5, <1>6 DEF AloneIn
        <4>3. st[Cut[b]] = s[Cut[b]]
          BY <3>1, <4>2, <1>7, <1>8
        <4>4. QED
          BY <3>1, <4>1, <4>3, <1>8
      <3>3. QED
        BY <3>1, <3>2, <1>8
    <2>3. QED
      BY <2>1, <2>2
  <1>12. StoredState(new, st)
    BY <1>6, <1>9, <1>10, <1>11 DEF StoredState
  <1>13. QED
    BY <1>12 DEF new, st, P, R

LEMMA EndWriteStep ==
    ASSUME CallOK, EncOK, StoredOK, EndWrite
    PROVE  EncOK' /\ AcceptedExactly' /\ StoredOK'
  <1>1. /\ call.op \in {"put", "operate"} /\ ArgsOK(call) /\ EncState(call, enc)
        /\ enc.bin > Len(call.bins) /\ status' = "OK" /\ call' = call
        /\ stored' = Merge(stored, enc.record)
        /\ written' = IF written = Null THEN Null ELSE Merge(written, PhpBins(call.bins))
    BY DEF EndWrite, Encoding, EncOK, CallOK
  <1>2. Fits(call)
    BY <1>1, EncDone
  <1>3. StoredOK'
    <2>1. CASE written = Null
      BY <1>1, <2>1 DEF StoredOK
    <2>2. CASE written # Null
      BY <1>1, <2>2, MergeStep DEF StoredOK
    <2>3. QED
      BY <2>1, <2>2
  <1>4. QED
    BY <1>1, <1>2, <1>3 DEF EncOK, Encoding, AcceptedExactly, Returned

-----------------------------------------------------------------------------
(* The actions of get *)

LEMMA DecodeErrors ==
    ASSUME NEW v, NEW has, NEW chance \in Chances
    PROVE  LET code == DecodeError(v, has, chance) IN
           /\ code = "OK" => PhpVal(v, chance)[1] \in PhpKinds
           /\ code # "OK" => v[1] \notin {"int", "str", "list", "map", "nil", "PHP"}
           /\ code # "busy"
  <1>1. chance.reply # Null => chance.reply[1] = "obj"
    BY DEF Chances
  <1>2. \A x : Deserialized(x, chance) # Null => Deserialized(x, chance)[1] = "obj"
    BY <1>1 DEF Deserialized, DeserializerReturns
  <1>3. QED
    BY <1>2 DEF DecodeError, PhpVal, PhpKinds

\* Integers and strings are keys of a PHP array, whatever else is left open.
LEMMA OffsetFacts ==
    ASSUME NEW e, NEW chance, e.key[1] \in {"int", "str"}
    PROVE  /\ IsOffset(PhpVal(e.key, chance), chance)
           /\ PhpElement(e, chance).key = ArrayKey(e.key)
  <1>1. PhpVal(e.key, chance) = e.key
    BY DEF PhpVal
  <1>2. QED
    BY <1>1 DEF IsOffset, PhpElement

LEMMA GetStep ==
    ASSUME NEW r \in Requests, Get(r)
    PROVE  DecOK' /\ OutOK'
  <1>1. /\ dec' = [NoDec EXCEPT !.left = DOMAIN stored] /\ status' = "busy" /\ stored' = stored
        /\ call'.op = "get"
    BY DEF Get
  <1>2. /\ dec'.left = DOMAIN stored /\ dec'.stack = <<>> /\ dec'.out = Empty
        /\ DOMAIN dec' = {"left", "bin", "stack", "read", "php", "out"}
    BY <1>1 DEF NoDec
  <1>3. DecState(dec', stored)
    BY <1>2 DEF DecState
  <1>4. OutState(dec', stored)
    BY <1>2 DEF OutState, Empty
  <1>5. QED
    BY <1>1, <1>3, <1>4 DEF DecOK, OutOK

LEMMA NextBinStep ==
    ASSUME DecOK, OutOK, NEW b \in dec.left, NextBin(b)
    PROVE  DecOK' /\ OutOK'
  <1>1. /\ status = "busy" /\ call.op = "get" /\ b \in dec.left
        /\ dec' = [dec EXCEPT !.bin = b, !.stack = <<0>>, !.read = {}, !.php = Empty]
        /\ stored' = stored /\ call' = call /\ status' = status
    BY DEF NextBin, Decoding
  <1>2. DecState(dec, stored) /\ OutState(dec, stored)
    BY <1>1 DEF DecOK, OutOK, Decoding
  <1>3. /\ dec'.left = dec.left /\ dec'.bin = b /\ dec'.stack = <<0>> /\ dec'.php = Empty
        /\ dec'.read = {} /\ dec'.out = dec.out /\ DOMAIN dec' = {"left", "bin", "stack", "read", "php", "out"}
    BY <1>1, <1>2 DEF DecState
  <1>4. DecState(dec', stored)
    <2> DEFINE t == stored[b]
    <2>1. ReadOK(Empty, t) /\ DOMAIN Empty = {}
      BY DEF ReadOK, Empty
    <2>2. \A n \in DOMAIN t : Due(t, Empty, n) => \E k \in DOMAIN <<0>> : <<0>>[k] = t[n].up
      BY DEF Due, Empty
    <2>3. <<0>> \in Seq({0} \cup DOMAIN t)
      OBVIOUS
    <2>4. QED
      BY <1>1, <1>2, <1>3, <2>1, <2>2, <2>3 DEF DecState
  <1>5. OutState(dec', stored)
    BY <1>2, <1>3 DEF OutState
  <1>6. QED
    BY <1>1, <1>4, <1>5 DEF DecOK, OutOK

\* What one more element makes of a PHP array.
LEMMA SetElementStep ==
    ASSUME NEW t, NEW php, ReadOK(php, t), NEW n \in DOMAIN t, n \notin DOMAIN php,
           NEW chance \in Chances, PhpVal(t[n].val, chance)[1] \in PhpKinds,
           NEW q, q = SetElement(php, n, t[n], chance)
    PROVE  /\ ReadOK(q, t) /\ DOMAIN q \subseteq DOMAIN php \cup {n}
           /\ Accounted(t, q, n)
           /\ \A m \in DOMAIN t : Accounted(t, php, m) => Accounted(t, q, m)
  <1> DEFINE e == PhpElement(t[n], chance)
             kept == {m \in DOMAIN php : php[m].up # e.up \/ php[m].key # e.key}
  <1>1. CASE ~IsOffset(PhpVal(t[n].key, chance), chance)
    <2>1. q = php
      BY <1>1 DEF SetElement
    <2>2. t[n].key[1] \notin {"int", "str"}
      BY <1>1, OffsetFacts
    <2>3. QED
      BY <2>1, <2>2 DEF Accounted
  <1>2. CASE IsOffset(PhpVal(t[n].key, chance), chance)
    <2>1. q = With([m \in kept |-> php[m]], n, e)
      BY <1>2 DEF SetElement, Attach
    <2>2. /\ DOMAIN q = kept \cup {n} /\ q[n] = e
          /\ \A m \in kept : q[m] = php[m]
          /\ q = [m \in DOMAIN q |-> q[m]]
      <3> HIDE DEF e, kept
      <3>1. \A m \in kept : m # n
        BY DEF kept
      <3>2. QED
        BY <2>1, <3>1 DEF With
    <2>3. e.up = t[n].up
      BY DEF PhpElement
    <2>4. ReadOK(q, t)
      <3>1. ASSUME NEW m \in DOMAIN q
            PROVE  /\ m \in DOMAIN t
                   /\ \E ch \in Chances :
                        q[m] = PhpElement(t[m], ch) /\ PhpVal(t[m].val, ch)[1] \in PhpKinds
        <4>1. CASE m = n
          BY <4>1, <2>2
        <4>2. CASE m # n
          <5>1. m \in DOMAIN php /\ q[m] = php[m]
            BY <4>2, <2>2
          <5>2. QED
            BY <5>1 DEF ReadOK
        <4>3. QED
          BY <4>1, <4>2
      <3>2. QED
        BY <2>2, <3>1 DEF ReadOK
    <2>5. ASSUME NEW m \in DOMAIN t, Accounted(t, php, m), m \notin DOMAIN q,
                 t[m].key[1] \in {"int", "str"}
          PROVE  \E k \in DOMAIN q : q[k].up = t[m].up /\ q[k].key = ArrayKey(t[m].key)
      <3>1. PICK k \in DOMAIN php : php[k].up = t[m].up /\ php[k].key = ArrayKey(t[m].key)
        <4>1. CASE m \in DOMAIN php
          <5>1. PICK ch \in Chances : php[m] = PhpElement(t[m], ch)
            BY <4>1 DEF ReadOK
          <5>2. php[m].up = t[m].up /\ php[m].key = ArrayKey(t[m].key)
            BY <5>1, <2>5, OffsetFacts DEF PhpElement
          <5>3. QED
            BY <4>1, <5>2
        <4>2. CASE m \notin DOMAIN php
          BY <4>2, <2>5 DEF Accounted
        <4>3. QED
          BY <4>1, <4>2
      <3> HIDE DEF e
      <3>2. CASE k \in kept
        BY <3>1, <3>2, <2>2
      <3>3. CASE k \notin kept
        <4>1. e.up = php[k].up /\ e.key = php[k].key
          BY <3>1, <3>3
        <4>2. QED
          BY <3>1, <4>1, <2>2
      <3>4. QED
        BY <3>2, <3>3
    <2>6. \A m \in DOMAIN t : Accounted(t, php, m) => Accounted(t, q, m)
      BY <2>5 DEF Accounted
    <2>7. Accounted(t, q, n)
      BY <2>2 DEF Accounted
    <2>8. QED
      BY <2>2, <2>4, <2>6, <2>7
  <1>3. QED
    BY <1>1, <1>2

\* One more element is read.
LEMMA ElementStep ==
    ASSUME NEW d, NEW s, DecState(d, s), d.stack # <<>>,
           NEW n \in DOMAIN s[d.bin], n \notin d.read,
           NEW chance \in Chances, PhpVal(s[d.bin][n].val, chance)[1] \in PhpKinds,
           NEW f, DOMAIN f = DOMAIN d, f.left = d.left, f.bin = d.bin,
           f.read = d.read \cup {n},
           f.php = SetElement(d.php, n, s[d.bin][n], chance),
           f.stack = IF Container(s[d.bin][n].val) THEN Append(d.stack, n) ELSE d.stack
    PROVE  DecState(f, s)
  <1> DEFINE t == s[d.bin]
  <1>1. /\ DOMAIN d = {"left", "bin", "stack", "read", "php", "out"} /\ d.left \subseteq DOMAIN s
        /\ d.bin \in d.left /\ d.stack \in Seq({0} \cup DOMAIN t)
        /\ ReadOK(d.php, t) /\ DOMAIN d.php \subseteq d.read /\ d.read \subseteq DOMAIN t
        /\ \A m \in d.read : Accounted(t, d.php, m)
        /\ \A m \in DOMAIN t : Due(t, d.php, m) =>
            m \in d.read \/ \E k \in DOMAIN d.stack : d.stack[k] = t[m].up
    BY DEF DecState
  <1>2. /\ ReadOK(f.php, t) /\ DOMAIN f.php \subseteq DOMAIN d.php \cup {n}
        /\ Accounted(t, f.php, n)
        /\ \A m \in DOMAIN t : Accounted(t, d.php, m) => Accounted(t, f.php, m)
    <2>1. n \notin DOMAIN d.php
      BY <1>1
    <2>2. QED
      BY <1>1, <2>1, SetElementStep
  <1> DEFINE S == {0} \cup DOMAIN t
  <1>3. /\ f.stack \in Seq(S) /\ f.stack # <<>>
        /\ \A k \in DOMAIN d.stack : k \in DOMAIN f.stack /\ f.stack[k] = d.stack[k]
        /\ Container(t[n].val) => \E k \in DOMAIN f.stack : f.stack[k] = n
    <2>1. d.stack \in Seq(S) /\ n \in S
      BY <1>1
    <2> HIDE DEF S
    <2>2. CASE Container(t[n].val)
      <3>1. f.stack = Append(d.stack, n)
        BY <2>2
      <3>2. /\ f.stack \in Seq(S) /\ Len(f.stack) = Len(d.stack) + 1 /\ Len(d.stack) \in Nat
            /\ DOMAIN f.stack = 1 .. Len(d.stack) + 1 /\ DOMAIN d.stack = 1 .. Len(d.stack)
            /\ f.stack[Len(d.stack) + 1] = n
            /\ \A k \in 1 .. Len(d.stack) : f.stack[k] = d.stack[k]
        BY <2>1, <3>1
      <3>3. Len(d.stack) + 1 \in DOMAIN f.stack /\ \A k \in DOMAIN d.stack : k \in DOMAIN f.stack
        BY <3>2
      <3>4. QED
        BY <3>2, <3>3
    <2>3. CASE ~Container(t[n].val)
      BY <2>1, <2>3
    <2>4. QED
      BY <2>2, <2>3
  <1>4. /\ DOMAIN f.php \subseteq f.read /\ f.read \subseteq DOMAIN t
        /\ \A m \in f.read : Accounted(t, f.php, m)
    BY <1>1, <1>2
  <1>5. ASSUME NEW m \in DOMAIN t, Due(t, f.php, m)
        PROVE  m \in f.read \/ \E k \in DOMAIN f.stack : f.stack[k] = t[m].up
    <2>1. CASE t[m].up = n /\ Container(t[n].val)
      BY <2>1, <1>3
    <2>2. CASE ~(t[m].up = n /\ Container(t[n].val))
      <3>1. Due(t, d.php, m)
        BY <2>2, <1>2, <1>5 DEF Due
      <3>2. QED
        BY <3>1, <1>1, <1>3
    <2>3. QED
      BY <2>1, <2>2
  <1>6. QED
    BY <1>1, <1>2, <1>3, <1>4, <1>5 DEF DecState

LEMMA ReadElementStep ==
    ASSUME DecOK, OutOK, NEW n, NEW chance \in Chances, ReadElement(n, chance)
    PROVE  DecOK' /\ OutOK'
  <1> DEFINE t == stored[dec.bin]
             keyCode == DecodeError(t[n].key, call.has, chance)
             valCode == DecodeError(t[n].val, call.has, chance)
  <1>1. /\ status = "busy" /\ call.op = "get" /\ dec.stack # <<>>
        /\ n \in DOMAIN t /\ n \notin dec.read
    BY DEF ReadElement, Decoding, Unread, Tree
  <1>2. DecState(dec, stored) /\ OutState(dec, stored)
    BY <1>1 DEF DecOK, OutOK, Decoding
  <1>3. /\ dec.bin \in DOMAIN stored /\ dec.read \subseteq DOMAIN t
        /\ DOMAIN dec = {"left", "bin", "stack", "read", "php", "out"}
    BY <1>1, <1>2 DEF DecState
  <1>4. CASE keyCode # "OK" \/ valCode # "OK"
    <2>1. /\ status' \in {keyCode, valCode} /\ status' # "OK" /\ call' = call /\ stored' = stored
      BY <1>4 DEF ReadElement, FailRead, Tree
    <2>2. status' # "busy"
      BY <2>1, DecodeErrors
    <2>3. Unreadable(t)
      BY <1>1, <1>4, DecodeErrors DEF Unreadable
    <2>4. QED
      BY <1>3, <2>1, <2>2, <2>3 DEF DecOK, Decoding, OutOK
  <1>5. CASE keyCode = "OK" /\ valCode = "OK"
    <2> DEFINE php == SetElement(dec.php, n, t[n], chance)
               read == dec.read \cup {n}
               stack == IF Container(t[n].val) THEN Append(dec.stack, n) ELSE dec.stack
    <2>1. /\ dec' = [dec EXCEPT !.read = read, !.php = php, !.stack = stack]
          /\ status' = status /\ call' = call /\ stored' = stored
      BY <1>5 DEF ReadElement, Tree
    <2>2. /\ DOMAIN dec' = DOMAIN dec /\ dec'.left = dec.left /\ dec'.bin = dec.bin
          /\ dec'.read = read /\ dec'.php = php /\ dec'.stack = stack /\ dec'.out = dec.out
      <3> HIDE DEF php, read, stack
      <3>1. QED
        BY <1>3, <2>1
    <2>3. PhpVal(t[n].val, chance)[1] \in PhpKinds
      BY <1>5, DecodeErrors
    <2>4. DecState(dec', stored)
      <3>1. /\ DOMAIN dec' = DOMAIN dec /\ dec'.left = dec.left /\ dec'.bin = dec.bin
            /\ dec'.read = dec.read \cup {n}
            /\ dec'.php = SetElement(dec.php, n, stored[dec.bin][n], chance)
            /\ dec'.stack = IF Container(stored[dec.bin][n].val) THEN Append(dec.stack, n)
                            ELSE dec.stack
        BY <2>2
      <3> HIDE DEF php, read, stack
      <3>2. QED
        BY <1>1, <1>2, <2>3, <3>1, ElementStep
    <2>5. OutState(dec', stored)
      BY <1>2, <2>2 DEF OutState
    <2>6. QED
      BY <1>1, <2>1, <2>4, <2>5 DEF DecOK, OutOK
  <1>6. QED
    BY <1>4, <1>5

LEMMA LeaveContainerStep ==
    ASSUME DecOK, OutOK, LeaveContainer
    PROVE  DecOK' /\ OutOK'
  <1> DEFINE t == stored[dec.bin]
             S == {0} \cup DOMAIN t
             last == Len(dec.stack)
  <1>1. /\ status = "busy" /\ call.op = "get" /\ dec.stack # <<>>
        /\ \A n \in DOMAIN t : t[n].up = dec.stack[last] => n \in dec.read
        /\ status' = status /\ call' = call /\ stored' = stored
    BY DEF LeaveContainer, Decoding, Unread, Tree, Top
  <1>2. DecState(dec, stored) /\ OutState(dec, stored)
    BY <1>1 DEF DecOK, OutOK, Decoding
  <1>3. /\ DOMAIN dec = {"left", "bin", "stack", "read", "php", "out"} /\ dec.left \subseteq DOMAIN stored
        /\ dec.bin \in dec.left /\ dec.stack \in Seq(S)
        /\ ReadOK(dec.php, t) /\ DOMAIN dec.php \subseteq dec.read /\ dec.read \subseteq DOMAIN t
        /\ \A n \in dec.read : Accounted(t, dec.php, n)
        /\ \A n \in DOMAIN t : Due(t, dec.php, n) =>
            n \in dec.read \/ \E k \in DOMAIN dec.stack : dec.stack[k] = t[n].up
    BY <1>1, <1>2 DEF DecState
  <1>4. last \in Nat \ {0} /\ DOMAIN dec.stack = 1 .. last
    <2> HIDE DEF S
    <2>1. QED
      BY <1>1, <1>3
  <1>5. CASE last > 1
    <2> DEFINE stack == SubSeq(dec.stack, 1, last - 1)
    <2>1. dec' = [dec EXCEPT !.stack = stack]
      BY <1>5 DEF LeaveContainer
    <2>2. /\ stack \in Seq(S) /\ DOMAIN stack = 1 .. last - 1 /\ Len(stack) = last - 1
          /\ \A k \in 1 .. last - 1 : stack[k] = dec.stack[k]
      <3> HIDE DEF S
      <3>1. QED
        BY <1>3, <1>4, <1>5
    <2>3. stack # <<>>
      <3>1. last \in Nat /\ last > 1 /\ Len(stack) = last - 1
        BY <2>2, <1>4, <1>5
      <3> HIDE DEF stack, last
      <3>2. QED
        BY <3>1
    <2> HIDE DEF stack
    <2>4. /\ DOMAIN dec' = DOMAIN dec /\ dec'.left = dec.left /\ dec'.bin = dec.bin
          /\ dec'.read = dec.read /\ dec'.php = dec.php /\ dec'.stack = stack
          /\ dec'.out = dec.out
      BY <1>3, <2>1
    <2>5. ASSUME NEW n \in DOMAIN t, Due(t, dec.php, n)
          PROVE  n \in dec.read \/ \E k \in DOMAIN stack : stack[k] = t[n].up
      <3>1. CASE n \notin dec.read
        <4>1. PICK k \in DOMAIN dec.stack : dec.stack[k] = t[n].up
          BY <1>3, <2>5, <3>1
        <4>2. k # last
          BY <1>1, <3>1, <4>1
        <4>3. k \in 1 .. last - 1
          BY <1>4, <4>1, <4>2
        <4>4. QED
          BY <2>2, <4>1, <4>3
      <3>2. QED
        BY <3>1
    <2>6. DecState(dec', stored)
      BY <1>3, <2>2, <2>3, <2>4, <2>5 DEF DecState
    <2>7. OutState(dec', stored)
      BY <1>2, <2>4 DEF OutState
    <2>8. QED
      BY <1>1, <2>6, <2>7 DEF DecOK, OutOK
  <1>6. CASE ~(last > 1)
    <2> DEFINE out == With(dec.out, dec.bin, dec.php)
               left == dec.left \ {dec.bin}
    <2>1. dec' = [dec EXCEPT !.stack = <<>>, !.left = left, !.read = {}, !.php = Empty,
                               !.out = out]
      BY <1>6 DEF LeaveContainer
    <2>2. last = 1
      <3>1. last \in Nat \ {0} /\ ~(last > 1)
        BY <1>4, <1>6
      <3> HIDE DEF last
      <3>2. QED
        BY <3>1
    <2>3. \A n \in DOMAIN t : Due(t, dec.php, n) => Accounted(t, dec.php, n)
      BY <1>1, <1>3, <1>4, <2>2
    <2>4. /\ DOMAIN dec' = DOMAIN dec /\ dec'.left = left /\ dec'.stack = <<>> /\ dec'.out = out
      <3> HIDE DEF out, left
      <3>1. QED
        BY <1>3, <2>1
    <2>5. DecState(dec', stored)
      BY <1>3, <2>4 DEF DecState
    <2>6. /\ DOMAIN dec.out = DOMAIN stored \ dec.left
          /\ \A b \in DOMAIN dec.out :
                /\ ReadOK(dec.out[b], stored[b])
                /\ \A n \in DOMAIN stored[b] :
                    Due(stored[b], dec.out[b], n) => Accounted(stored[b], dec.out[b], n)
      BY <1>2 DEF OutState
    <2>7. /\ DOMAIN out = DOMAIN dec.out \cup {dec.bin} /\ out[dec.bin] = dec.php
          /\ \A b \in DOMAIN dec.out : b # dec.bin => out[b] = dec.out[b]
          /\ out = [b \in DOMAIN out |-> out[b]]
      BY DEF With
    <2> HIDE DEF out
    <2>8. DOMAIN out = DOMAIN stored \ left
      BY <1>3, <2>6, <2>7
    <2>9. ASSUME NEW b \in DOMAIN out
          PROVE  /\ ReadOK(out[b], stored[b])
                 /\ \A n \in DOMAIN stored[b] :
                        Due(stored[b], out[b], n) => Accounted(stored[b], out[b], n)
      <3>1. CASE b = dec.bin
        BY <3>1, <2>3, <2>7, <1>3
      <3>2. CASE b # dec.bin
        <4>1. b \in DOMAIN dec.out /\ out[b] = dec.out[b]
          BY <3>2, <2>7
        <4>2. QED
          BY <4>1, <2>6
      <3>3. QED
        BY <3>1, <3>2
    <2>10. OutState(dec', stored)
      BY <2>4, <2>7, <2>8, <2>9 DEF OutState
    <2>11. QED
      BY <1>1, <2>5, <2>10 DEF DecOK, OutOK
  <1>7. QED
    BY <1>5, <1>6

LEMMA EndGetStep ==
    ASSUME DecOK, OutOK, EndGet
    PROVE  DecOK' /\ OutOK'
  BY DEF EndGet, Decoding, DecOK, OutOK

-----------------------------------------------------------------------------
(* The keys of an array stay different *)

LEMMA AttachUnique ==
    ASSUME NEW t, UniqueKeys(t), NEW i, NEW e
    PROVE  UniqueKeys(Attach(t, i, e))
  <1> DEFINE kept == {k \in DOMAIN t : t[k].up # e.up \/ t[k].key # e.key}
             q == Attach(t, i, e)
  <1>1. /\ DOMAIN q = kept \cup {i} /\ q[i] = e
        /\ \A k \in kept : k # i => q[k] = t[k]
    BY DEF Attach, With
  <1>2. ASSUME NEW j \in DOMAIN q, NEW k \in DOMAIN q, q[j].up = q[k].up, q[j].key = q[k].key
        PROVE  j = k
    <2> HIDE DEF q
    <2>1. CASE j # i /\ k # i
      <3>1. j \in DOMAIN t /\ k \in DOMAIN t /\ q[j] = t[j] /\ q[k] = t[k]
        BY <1>1, <2>1
      <3>2. QED
        BY <1>2, <3>1 DEF UniqueKeys
    <2>2. CASE j = i /\ k # i
      BY <1>1, <1>2, <2>2
    <2>3. CASE j # i /\ k = i
      BY <1>1, <1>2, <2>3
    <2>4. QED
      BY <2>1, <2>2, <2>3
  <1>3. QED
    BY <1>2 DEF UniqueKeys

LEMMA EmptyUnique == UniqueKeys(Empty) /\ \A b \in DOMAIN Empty : UniqueKeys(Empty[b])
  BY DEF UniqueKeys, Empty

LEMMA NoEncUnique ==
    ASSUME KeysOK, stored' = stored, enc' = NoEnc
    PROVE  KeysOK'
  <1>1. enc'.val = Empty /\ enc'.record = Empty
    BY DEF NoEnc
  <1>2. QED
    BY <1>1, EmptyUnique DEF KeysOK

\* A step of a conversion that has not failed.
LEMMA ProceedKeys ==
    ASSUME KeysOK, EncOK, Encoding, NEW e, Proceed(e),
           UniqueKeys(e.val), \A b \in DOMAIN e.record : UniqueKeys(e.record[b])
    PROVE  KeysOK'
  BY DEF KeysOK, Proceed

LEMMA WriteKeys ==
    ASSUME KeysOK, EncOK, CheckName \/ ConvertKey \/ ConvertValue \/ SetBin
    PROVE  KeysOK'
  <1>1. Encoding /\ UniqueKeys(enc.val) /\ \A b \in DOMAIN enc.record : UniqueKeys(enc.record[b])
    BY DEF CheckName, ConvertKey, ConvertValue, SetBin, InBin, KeysOK
  <1>2. DOMAIN enc = {"bin", "pos", "at", "pool", "val", "record"}
    BY <1>1 DEF EncOK, EncState, EncAt
  <1>3. ASSUME NEW code, Fail(code)
        PROVE  KeysOK'
    BY <1>3, NoEncUnique DEF Fail
  <1>4. CASE CheckName
    <2> DEFINE e == [enc EXCEPT !.at = "value"]
    <2>1. (\E code : Fail(code)) \/ Proceed(e)
      BY <1>4 DEF CheckName
    <2>2. e.val = enc.val /\ e.record = enc.record
      BY <1>2
    <2>3. QED
      BY <1>1, <1>3, <2>1, <2>2, ProceedKeys
  <1>5. CASE ConvertKey
    <2> DEFINE e == [enc EXCEPT !.at = "value"]
               f == [enc EXCEPT !.at = "value", !.pool = Take(@, Value[enc.pos].key[1])]
    <2>1. (\E code : Fail(code)) \/ Proceed(e) \/ Proceed(f)
      BY <1>5 DEF ConvertKey
    <2>2. e.val = enc.val /\ e.record = enc.record /\ f.val = enc.val /\ f.record = enc.record
      BY <1>2
    <2> HIDE DEF e, f
    <2>3. QED
      BY <1>1, <1>3, <2>1, <2>2, ProceedKeys
  <1>6. CASE ConvertValue
    <2> DEFINE i == enc.pos
               val == Attach(enc.val, i, AsElement(Value, i, call.type))
               p == PoolOf(Value[i].val, ~IsAssoc(Value, i))
               e == [enc EXCEPT !.at = "key", !.pos = i + 1,
                        !.pool = IF FromPool(call.op, Value, i) THEN Take(@, p) ELSE @,
                        !.val = val]
    <2>1. (\E code : Fail(code)) \/ Proceed(e)
      BY <1>6 DEF ConvertValue
    <2>2. UniqueKeys(val)
      BY <1>1, AttachUnique
    <2> HIDE DEF val
    <2>3. e.val = val /\ e.record = enc.record
      BY <1>2
    <2> HIDE DEF e
    <2>4. QED
      BY <1>1, <1>3, <2>1, <2>2, <2>3, ProceedKeys
  <1>7. CASE SetBin
    <2> DEFINE record == With(enc.record, Cut[Value[1].key[2]], enc.val)
               e == [enc EXCEPT !.bin = @ + 1, !.pos = 1, !.val = Empty, !.record = record]
    <2>1. (\E code : Fail(code)) \/ Proceed(e)
      BY <1>7 DEF SetBin
    <2>2. \A b \in DOMAIN record : UniqueKeys(record[b])
      BY <1>1 DEF With
    <2> HIDE DEF record
    <2>3. e.val = Empty /\ e.record = record
      BY <1>2
    <2> HIDE DEF e
    <2>4. QED
      BY <1>1, <1>3, <2>1, <2>2, <2>3, ProceedKeys, EmptyUnique
  <1>8. QED
    BY <1>4, <1>5, <1>6, <1>7

LEMMA EndWriteKeys ==
    ASSUME KeysOK, EndWrite
    PROVE  KeysOK'
  <1>1. /\ \A b \in DOMAIN enc.record : UniqueKeys(enc.record[b])
        /\ \A b \in DOMAIN stored : UniqueKeys(stored[b])
    BY DEF EndWrite, KeysOK
  <1>2. \A b \in DOMAIN stored' : UniqueKeys(stored'[b])
    <2>1. stored' = Merge(stored, enc.record)
      BY DEF EndWrite
    <2>2. QED
      BY <1>1, <2>1 DEF Merge
  <1>3. ~Encoding'
    BY DEF EndWrite, Encoding
  <1>4. QED
    BY <1>2, <1>3 DEF KeysOK

LEMMA ForeignKeys ==
    ASSUME ForeignPut
    PROVE  KeysOK'
  <1>1. ~Encoding'
    BY DEF ForeignPut, Encoding
  <1>2. ASSUME NEW t \in Foreign, NEW b \in DOMAIN t
        PROVE  UniqueKeys(t[b])
    BY ValueAssumption, Zenon DEF UniqueKeys
  <1>3. stored' \in Foreign \/ stored' = Empty
    BY DEF ForeignPut
  <1>4. QED
    BY <1>1, <1>2, <1>3, EmptyUnique DEF KeysOK

-----------------------------------------------------------------------------
(* The induction *)

LEMMA StartWriteStep ==
    ASSUME NEW r \in Requests, NEW op, NEW bins, NEW type, StartWrite(r, op, bins, type),
           ArgsOK([op |-> op, bins |-> bins, type |-> type, has |-> registered[r]]),
           StoredOK, KeysOK
    PROVE  IInv'
  <1> DEFINE c == [op |-> op, bins |-> bins, type |-> type, has |-> registered[r]]
  <1>1. /\ call' = c /\ status' = "busy" /\ enc' = NoEnc /\ stored' = stored
        /\ written' = written
    BY DEF StartWrite
  <1>2. ArgsOK(c)
    OBVIOUS
  <1> HIDE DEF c
  <1>3. c.op \in {"put", "operate"} /\ EncState(c, NoEnc)
    BY <1>2, EncStart DEF ArgsOK
  <1>4. CallOK' /\ EncOK'
    BY <1>1, <1>2, <1>3 DEF CallOK, EncOK
  <1>5. StoredOK' /\ KeysOK'
    BY <1>1, NoEncUnique DEF StoredOK
  <1>6. AcceptedExactly' /\ DecOK' /\ OutOK'
    BY <1>1, <1>3 DEF AcceptedExactly, Returned, DecOK, Decoding, OutOK
  <1>7. QED
    BY <1>4, <1>5, <1>6 DEF IInv

LEMMA PutStep ==
    ASSUME IInv, NEW r \in Requests, NEW bins \in Records, NEW type \in Serializers,
           Put(r, bins, type)
    PROVE  IInv'
  <1> DEFINE c == [op |-> "put", bins |-> bins, type |-> type, has |-> registered[r]]
  <1>1. BinsOK(bins)
    BY ValueAssumption DEF BinsOK
  <1>2. ArgsOK(c)
    BY <1>1 DEF ArgsOK
  <1>3. QED
    BY <1>2, StartWriteStep DEF Put, IInv

LEMMA OperateStep ==
    ASSUME IInv, NEW r \in Requests, NEW v \in Writes, NEW type \in Serializers,
           Operate(r, v, type)
    PROVE  IInv'
  <1> DEFINE bins == <<v>>
             c == [op |-> "operate", bins |-> bins, type |-> type, has |-> registered[r]]
  <1>1. IsPhpValue(v) /\ v[1].key[1] = "str"
    BY ValueAssumption
  <1>2. Len(bins) = 1 /\ DOMAIN bins = 1 .. 1 /\ bins[1] = v
    OBVIOUS
  <1>3. \A b \in 1 .. 1 : b = 1
    OBVIOUS
  <1>4. StartWrite(r, "operate", bins, type)
    BY DEF Operate
  <1> HIDE DEF bins
  <1>5. BinsOK(bins)
    BY <1>1, <1>2, <1>3 DEF BinsOK
  <1>6. ArgsOK(c)
    BY <1>1, <1>2, <1>3, <1>5 DEF ArgsOK
  <1>7. QED
    BY <1>4, <1>6, StartWriteStep DEF IInv

LEMMA ForeignPutStep ==
    ASSUME IInv, ForeignPut
    PROVE  IInv'
  <1>1. call' = NoCall /\ status' = "none"
    BY DEF ForeignPut
  <1>2. call'.op = "none"
    BY <1>1 DEF NoCall
  <1>3. CallOK' /\ AcceptedExactly' /\ EncOK' /\ DecOK' /\ OutOK'
    BY <1>1, <1>2 DEF CallOK, AcceptedExactly, Returned, EncOK, Encoding, DecOK, Decoding, OutOK
  <1>4. StoredState(Empty, Empty)
    BY DEF StoredState, Empty
  <1>5. StoredOK'
    BY <1>4 DEF ForeignPut, StoredOK
  <1>6. QED
    BY <1>3, <1>5, ForeignKeys DEF IInv

\* A step that changes nothing but the callbacks of the requests.
LEMMA SameStep ==
    ASSUME IInv, UNCHANGED <<stored, written, call, status, enc, dec>>
    PROVE  IInv'
  BY DEF IInv, CallOK, AcceptedExactly, Returned, EncOK, Encoding, StoredOK, KeysOK,
         DecOK, Decoding, OutOK

\* A step of put or operate leaves the record and what get has made.
LEMMA WriteStep ==
    ASSUME IInv, CheckName \/ ConvertKey \/ ConvertValue \/ SetBin
    PROVE  IInv'
  <1>1. /\ call.op \in {"put", "operate"} /\ call' = call
        /\ stored' = stored /\ written' = written
    BY DEF CheckName, ConvertKey, ConvertValue, SetBin, InBin, Encoding, Fail, Proceed
  <1>2. EncOK' /\ AcceptedExactly'
    BY CheckNameStep, ConvertKeyStep, ConvertValueStep, SetBinStep DEF IInv
  <1>3. CallOK' /\ StoredOK' /\ DecOK' /\ OutOK'
    BY <1>1 DEF IInv, CallOK, StoredOK, DecOK, Decoding, OutOK
  <1>4. KeysOK'
    BY WriteKeys DEF IInv
  <1>5. QED
    BY <1>2, <1>3, <1>4 DEF IInv

LEMMA WriteEndStep ==
    ASSUME IInv, EndWrite
    PROVE  IInv'
  <1>1. call.op \in {"put", "operate"} /\ call' = call
    BY DEF EndWrite, Encoding
  <1>2. EncOK' /\ AcceptedExactly' /\ StoredOK'
    BY EndWriteStep DEF IInv
  <1>3. CallOK' /\ DecOK' /\ OutOK'
    BY <1>1 DEF IInv, CallOK, DecOK, Decoding, OutOK
  <1>4. KeysOK'
    BY EndWriteKeys DEF IInv
  <1>5. QED
    BY <1>2, <1>3, <1>4 DEF IInv

\* A step of get leaves the record.
LEMMA ReadStep ==
    ASSUME IInv, stored' = stored, written' = written, call'.op = "get", DecOK', OutOK'
    PROVE  IInv'
  BY DEF IInv, CallOK, StoredOK, KeysOK, EncOK, Encoding, AcceptedExactly, Returned

GetFrame == call.op = "get" /\ call' = call /\ stored' = stored /\ written' = written

LEMMA NextBinFrame ==
    ASSUME NEW b, NextBin(b)
    PROVE  GetFrame
  BY DEF NextBin, Decoding, GetFrame

LEMMA ReadElementFrame ==
    ASSUME NEW n, NEW chance, ReadElement(n, chance)
    PROVE  GetFrame
  BY DEF ReadElement, FailRead, Decoding, GetFrame

LEMMA GetEndFrame ==
    ASSUME LeaveContainer \/ EndGet
    PROVE  GetFrame
  BY DEF LeaveContainer, EndGet, Decoding, GetFrame

LEMMA GetSteps ==
    ASSUME IInv,
           \/ \E r \in Requests : Get(r)
           \/ \E b \in dec.left : NextBin(b)
           \/ \E n \in Unread(Top), chance \in Chances : ReadElement(n, chance)
           \/ LeaveContainer
           \/ EndGet
    PROVE  IInv'
  <1>1. DecOK' /\ OutOK'
    BY GetStep, NextBinStep, ReadElementStep, LeaveContainerStep, EndGetStep DEF IInv
  <1>2. stored' = stored /\ written' = written /\ call'.op = "get"
    <2>1. CASE \E r \in Requests : Get(r)
      BY <2>1 DEF Get
    <2>2. CASE ~(\E r \in Requests : Get(r))
      <3>1. GetFrame
        BY <2>2, NextBinFrame, ReadElementFrame, GetEndFrame
      <3>2. QED
        BY <3>1 DEF GetFrame
    <2>3. QED
      BY <2>1, <2>2
  <1>3. QED
    BY <1>1, <1>2, ReadStep

\* The invariant holds at first and every step keeps it.
LEMMA IInvInit ==
    ASSUME Init
    PROVE  IInv
  <1>1. call.op = "none" /\ status = "none" /\ stored = Empty /\ written = Empty
    BY DEF Init, NoCall
  <1>2. StoredState(Empty, Empty)
    BY DEF StoredState, Empty
  <1>3. KeysOK
    BY <1>1, EmptyUnique DEF KeysOK, Encoding
  <1>4. QED
    BY <1>1, <1>2, <1>3
    DEF IInv, CallOK, AcceptedExactly, Returned, EncOK, Encoding, StoredOK, DecOK, Decoding, OutOK

LEMMA IInvNext ==
    ASSUME IInv, [Next]_vars
    PROVE  IInv'
  <1>1. CASE UNCHANGED vars
    BY <1>1, SameStep DEF vars
  <1>2. ASSUME NEW r \in Requests, SetSerializer(r) \/ SetDeserializer(r) \/ EndRequest(r)
        PROVE  IInv'
    BY <1>2, SameStep DEF SetSerializer, SetDeserializer, EndRequest
  <1>3. ASSUME NEW r \in Requests, Get(r)
        PROVE  IInv'
    BY <1>3, GetSteps
  <1>4. ASSUME NEW r \in Requests, NEW type \in Serializers, NEW bins \in Records, Put(r, bins, type)
        PROVE  IInv'
    BY <1>4, PutStep
  <1>5. ASSUME NEW r \in Requests, NEW type \in Serializers, NEW v \in Writes, Operate(r, v, type)
        PROVE  IInv'
    BY <1>5, OperateStep
  <1>6. CASE CheckName \/ ConvertKey \/ ConvertValue \/ SetBin
    BY <1>6, WriteStep
  <1>7. CASE EndWrite
    BY <1>7, WriteEndStep
  <1>8. CASE (\E b \in dec.left : NextBin(b)) \/ LeaveContainer \/ EndGet
    BY <1>8, GetSteps
  <1>9. ASSUME NEW n \in (IF dec.stack = <<>> THEN {} ELSE Unread(Top)), NEW chance \in Chances,
               ReadElement(n, chance)
        PROVE  IInv'
    <2>1. n \in Unread(Top)
      BY <1>9
    <2>2. QED
      BY <1>9, <2>1, GetSteps
  <1>10. CASE ForeignPut
    BY <1>10, ForeignPutStep
  <1>11. QED
    BY <1>1, <1>2, <1>3, <1>4, <1>5, <1>6, <1>7, <1>8, <1>9, <1>10 DEF Next

-----------------------------------------------------------------------------
(* What the invariant says of arrays, and of a value that was read back    *)

\* A set of natural numbers that is not empty has a smallest element.
LEMMA LeastElement ==
    ASSUME NEW T, T \subseteq Nat, T # {}
    PROVE  \E x \in T : \A y \in T : x <= y
  <1> DEFINE R == {ss \in Nat \X Nat : ss[1] < ss[2]}
  <1>1. \A x, y \in Nat : <<y, x>> \in R <=> y < x
    OBVIOUS
  <1>2. IsWellFoundedOn(R, Nat)
    BY NatLessThanWellFounded, Zenon DEF OpToRel
  <1> HIDE DEF R
  <1>3. PICK x \in T : \A y \in T : ~(<<y, x>> \in R)
    BY <1>2, WFMin
  <1>4. \A y \in T : x \in Nat /\ y \in Nat /\ ~(y < x)
    BY <1>1, <1>3
  <1>5. \A y \in T : x <= y
    BY <1>4
  <1>6. QED
    BY <1>5

\* The elements of an array that becomes a list.
LEMMA ListKeys ==
    ASSUME NEW v, IsPhpValue(v), NEW i \in DOMAIN v, ~IsAssoc(v, i), NEW j \in Elements(v, i)
    PROVE  j \in DOMAIN v /\ AsKey(v, j) = <<"int", Before(v, j)>>
  <1>1. j \in DOMAIN v /\ v[j].up = i
    BY DEF Elements
  <1>2. DOMAIN v = 1 .. Len(v) /\ Len(v) \in Nat /\ v[1].up = 0
    BY ValueFacts
  <1>3. j > 1
    BY <1>1, <1>2
  <1>4. QED
    BY <1>1, <1>3 DEF AsKey

\* ... are all there.
LEMMA ListComplete ==
    ASSUME NEW v, IsPhpValue(v), NEW t, Encoded(t, v, Len(v)),
           NEW i \in DOMAIN v, ~IsAssoc(v, i), NEW j \in Elements(v, i)
    PROVE  j \in DOMAIN t /\ t[j].key = <<"int", Before(v, j)>>
  <1>1. DOMAIN v = 1 .. Len(v) /\ Len(v) \in Nat
    BY ValueFacts
  <1>2. j \in DOMAIN v /\ v[j].up = i /\ AsKey(v, j) = <<"int", Before(v, j)>>
    BY ListKeys DEF Elements
  <1>3. ASSUME NEW k \in j + 1 .. Len(v), v[k].up = v[j].up
        PROVE  AsKey(v, k) # AsKey(v, j)
    <2>1. k \in DOMAIN v /\ j < k
      BY <1>1, <1>2
    <2>2. k \in Elements(v, i)
      BY <2>1, <1>2, <1>3 DEF Elements
    <2>3. AsKey(v, k) = <<"int", Before(v, k)>>
      BY <2>2, ListKeys
    <2>4. Before(v, j) < Before(v, k) /\ Before(v, j) \in Nat /\ Before(v, k) \in Nat
      BY <1>2, <1>3, <2>1, BeforeGrows, BeforeFacts
    <2>5. Before(v, j) # Before(v, k)
      BY <2>4
    <2>6. QED
      BY <1>2, <2>3, <2>5
  <1>4. j \in DOMAIN t
    BY <1>1, <1>2, <1>3 DEF Encoded
  <1>5. PICK type \in Serializers : t[j] = AsElement(v, j, type)
    BY <1>4 DEF Encoded
  <1>6. QED
    BY <1>2, <1>4, <1>5 DEF AsElement

\* A plain value has its own keys in the as_val.
LEMMA OwnKeys ==
    ASSUME NEW v, IsPhpValue(v), Sized(v), Plain(v), NEW i \in DOMAIN v
    PROVE  AsKey(v, i) = v[i].key
  <1>1. /\ DOMAIN v = 1 .. Len(v) /\ Len(v) \in Nat /\ v[i].key \in Keys
        /\ i # 1 => v[i].up \in 1 .. i - 1
    BY ValueFacts
  <1>2. v[i].key = <<v[i].key[1], v[i].key[2]>>
    BY <1>1, KeyFacts
  <1>3. CASE i > 1 /\ ~IsAssoc(v, v[i].up)
    <2>1. v[i].up \in DOMAIN v
      BY <1>1, <1>3
    <2>2. IsList(v, v[i].up)
      BY <1>3, <2>1 DEF Sized
    <2>3. v[i].key = <<"int", Before(v, i)>>
      BY <2>2 DEF IsList, Elements
    <2>4. QED
      BY <1>3, <2>3 DEF AsKey
  <1>4. CASE ~(i > 1 /\ ~IsAssoc(v, v[i].up))
    BY <1>2, <1>4 DEF AsKey, Plain, PlainString
  <1>5. QED
    BY <1>3, <1>4

\* ... so that nothing replaces an element of it,
LEMMA PlainComplete ==
    ASSUME NEW v, IsPhpValue(v), Sized(v), Plain(v), NEW t, Encoded(t, v, Len(v))
    PROVE  DOMAIN t = DOMAIN v
  <1>1. /\ DOMAIN v = 1 .. Len(v) /\ Len(v) \in Nat
        /\ \A i, j \in DOMAIN v : i # j /\ v[i].up = v[j].up => v[i].key # v[j].key
    BY ValueFacts
  <1>2. ASSUME NEW i \in 1 .. Len(v)
        PROVE  i \in DOMAIN t
    <2>1. ASSUME NEW j \in i + 1 .. Len(v), v[j].up = v[i].up
          PROVE  AsKey(v, j) # AsKey(v, i)
      <3>1. i \in DOMAIN v /\ j \in DOMAIN v /\ i # j
        BY <1>1
      <3>2. AsKey(v, i) = v[i].key /\ AsKey(v, j) = v[j].key
        BY <3>1, OwnKeys
      <3>3. QED
        BY <1>1, <2>1, <3>1, <3>2
    <2>2. QED
      BY <2>1 DEF Encoded
  <1>3. QED
    BY <1>1, <1>2 DEF Encoded

LEMMA OwnArrayKey ==
    ASSUME NEW k, k[1] \in {"int", "str"}, IsArrayKey(k)
    PROVE  ArrayKey(k) = k
  <1>1. CASE k[1] = "int"
    BY <1>1 DEF ArrayKey
  <1>2. CASE k[1] = "str"
    <2>1. k[2] \notin DOMAIN Decimal
      BY <1>2 DEF IsArrayKey
    <2>2. QED
      BY <1>2, <2>1 DEF ArrayKey
  <1>3. QED
    BY <1>1, <1>2

\* ... and each element reads as it was, unless a callback has serialized it.
LEMMA PlainElement ==
    ASSUME NEW v, IsPhpValue(v), Sized(v), Plain(v), NEW i \in DOMAIN v,
           NEW type, NEW chance, AsElement(v, i, type).val[1] # "BLOB"
    PROVE  LET e == AsElement(v, i, type) IN
           /\ e.up = v[i].up /\ PhpElement(e, chance) = v[i]
           /\ e.key[1] \in {"int", "str"} /\ ArrayKey(e.key) = v[i].key
           /\ e.val[1] \in {"int", "str", "list", "map", "PHP"}
           /\ v[i].val = <<"arr", Null>> => Container(e.val)
  <1> DEFINE e == AsElement(v, i, type)
             x == v[i].val
  <1>1. /\ v[i] = [up |-> v[i].up, key |-> v[i].key, val |-> v[i].val]
        /\ v[i].key \in Keys /\ x \in Values
    BY ValueFacts
  <1>2. e.up = v[i].up /\ e.key = v[i].key /\ e.val = AsVal(v, i, type)
    BY OwnKeys DEF AsElement
  <1> HIDE DEF e
  <1>3. /\ v[i].key[1] \in {"int", "str"} /\ PhpVal(v[i].key, chance) = v[i].key
        /\ ArrayKey(v[i].key) = v[i].key
    <2>1. v[i].key[1] \in {"int", "str"}
      BY <1>1, KeyFacts
    <2>2. IsArrayKey(v[i].key)
      <3>1. CASE i = 1
        BY <3>1 DEF Plain
      <3>2. CASE i # 1
        BY <3>2, ValueFacts
      <3>3. QED
        BY <3>1, <3>2
    <2>3. PhpVal(v[i].key, chance) = v[i].key
      BY <2>1 DEF PhpVal
    <2>4. ArrayKey(v[i].key) = v[i].key
      BY <2>1, <2>2, OwnArrayKey
    <2>5. QED
      BY <2>1, <2>3, <2>4
  <1>4. /\ x[1] \in {"int", "str", "obj", "arr"} /\ x = <<x[1], x[2]>>
        /\ x[1] = "arr" => x = <<"arr", Null>>
    BY <1>1, ValFacts
  <1>5. /\ PhpVal(e.val, chance) = x /\ e.val[1] \in {"int", "str", "list", "map", "PHP"}
        /\ x = <<"arr", Null>> => Container(e.val)
    <2>1. CASE x[1] = "int"
      <3>1. e.val = x
        BY <1>2, <2>1 DEF AsVal
      <3>2. QED
        BY <2>1, <3>1 DEF PhpVal, Container
    <2>2. CASE x[1] = "str"
      <3>1. e.val = <<"str", Cut[x[2]]>>
        BY <1>2, <2>2 DEF AsVal
      <3>2. e.val = x
        BY <1>4, <2>2, <3>1 DEF Plain, PlainString
      <3>3. QED
        BY <2>2, <3>2 DEF PhpVal, Container
    <2>3. CASE x[1] = "arr"
      <3>1. e.val = <<IF IsAssoc(v, i) THEN "map" ELSE "list", Null>>
        BY <1>2, <2>3 DEF AsVal
      <3>2. e.val[1] \in {"list", "map"}
        BY <3>1
      <3>3. QED
        BY <1>4, <2>3, <3>2 DEF PhpVal, Container
    <2>4. CASE x[1] = "obj"
      <3>1. e.val = IF type = "PHP" THEN <<"PHP", x[2]>> ELSE <<"BLOB", UserString[x[2]]>>
        BY <1>2, <2>4 DEF AsVal
      <3>2. e.val[1] # "BLOB"
        BY DEF e
      <3>3. e.val = <<"PHP", x[2]>>
        BY <3>1, <3>2
      <3>4. QED
        BY <1>4, <2>4, <3>3 DEF PhpVal, Container
    <2>5. QED
      BY <1>4, <2>1, <2>2, <2>3, <2>4
  <1>6. PhpElement(e, chance) = v[i]
    BY <1>1, <1>2, <1>3, <1>5 DEF PhpElement
  <1>7. QED
    BY <1>2, <1>3, <1>5, <1>6 DEF e

\* A plain value that was read to its end is the value that was written.
LEMMA PlainRead ==
    ASSUME NEW v, IsPhpValue(v), Sized(v), Plain(v), NEW t, Encoded(t, v, Len(v)),
           \A i \in DOMAIN t : t[i].val[1] # "BLOB",
           NEW php, ReadOK(php, t),
           \A n \in DOMAIN t : Due(t, php, n) => Accounted(t, php, n)
    PROVE  php = v
  <1>1. /\ DOMAIN v = 1 .. Len(v) /\ Len(v) \in Nat /\ v = [i \in 1 .. Len(v) |-> v[i]]
        /\ \A i, j \in DOMAIN v : i # j /\ v[i].up = v[j].up => v[i].key # v[j].key
        /\ \A i \in DOMAIN v : /\ i = 1 => v[i].up = 0
                               /\ i # 1 => v[i].up \in 1 .. i - 1 /\ v[v[i].up].val = <<"arr", Null>>
    BY ValueFacts
  <1>2. DOMAIN t = DOMAIN v
    BY PlainComplete
  <1>3. ASSUME NEW i \in DOMAIN v
        PROVE  /\ t[i].up = v[i].up /\ \A chance : PhpElement(t[i], chance) = v[i]
               /\ t[i].key[1] \in {"int", "str"} /\ ArrayKey(t[i].key) = v[i].key
               /\ v[i].val = <<"arr", Null>> => Container(t[i].val)
    <2>1. PICK type \in Serializers : t[i] = AsElement(v, i, type)
      BY <1>2 DEF Encoded
    <2>2. AsElement(v, i, type).val[1] # "BLOB"
      BY <1>2, <2>1
    <2>3. QED
      BY <2>1, <2>2, PlainElement
  <1>4. /\ php = [n \in DOMAIN php |-> php[n]] /\ DOMAIN php \subseteq DOMAIN v
        /\ \A n \in DOMAIN php : php[n] = v[n]
    BY <1>2, <1>3 DEF ReadOK
  <1>5. DOMAIN v \subseteq DOMAIN php
    <2> DEFINE T == DOMAIN v \ DOMAIN php
    <2>1. SUFFICES ASSUME T # {} PROVE FALSE
      OBVIOUS
    <2>2. T \subseteq Nat
      BY <1>1
    <2> HIDE DEF T
    <2>3. PICK n \in T : \A m \in T : n <= m
      BY <2>1, <2>2, LeastElement
    <2>4. n \in DOMAIN v /\ n \notin DOMAIN php /\ n \in Nat
      BY <2>2, <2>3 DEF T
    <2>5. ~Due(t, php, n)
      <3>1. SUFFICES ASSUME Due(t, php, n) PROVE FALSE
        OBVIOUS
      <3>2. Accounted(t, php, n) /\ t[n].key[1] \in {"int", "str"}
        BY <1>2, <1>3, <2>4, <3>1
      <3>3. PICK m \in DOMAIN php : php[m].up = t[n].up /\ php[m].key = ArrayKey(t[n].key)
        BY <2>4, <3>2 DEF Accounted
      <3>4. m \in DOMAIN v /\ v[m].up = v[n].up /\ v[m].key = v[n].key
        BY <1>3, <1>4, <2>4, <3>3
      <3>5. QED
        BY <1>1, <2>4, <3>3, <3>4
    <2>6. CASE n # 1
      <3> DEFINE u == v[n].up
      <3>1. u \in 1 .. n - 1 /\ v[u].val = <<"arr", Null>>
        BY <1>1, <2>4, <2>6
      <3> HIDE DEF u
      <3>2. u \in DOMAIN v /\ ~(n <= u)
        BY <1>1, <2>4, <3>1
      <3>3. u \in DOMAIN php
        BY <2>3, <3>2 DEF T
      <3>4. t[n].up = u /\ Container(t[u].val)
        BY <1>3, <2>4, <3>1, <3>2 DEF u
      <3>5. QED
        BY <2>5, <3>3, <3>4 DEF Due
    <2>7. CASE n = 1
      BY <1>1, <1>3, <2>4, <2>5, <2>7 DEF Due
    <2>8. QED
      BY <2>6, <2>7
  <1>6. QED
    BY <1>1, <1>4, <1>5

\* Nothing in a plain value keeps get from reading it.
LEMMA PlainReadable ==
    ASSUME NEW v, IsPhpValue(v), Sized(v), Plain(v), NEW t, Encoded(t, v, Len(v)),
           \A i \in DOMAIN t : t[i].val[1] # "BLOB"
    PROVE  ~Unreadable(t)
  <1>1. ASSUME NEW i \in DOMAIN t
        PROVE  /\ t[i].key[1] \in {"int", "str"}
               /\ t[i].val[1] \in {"int", "str", "list", "map", "PHP"}
    <2>1. PICK type \in Serializers : t[i] = AsElement(v, i, type)
      BY DEF Encoded
    <2>2. AsElement(v, i, type).val[1] # "BLOB" /\ i \in DOMAIN v
      BY <2>1, PlainComplete
    <2>3. QED
      BY <2>1, <2>2, PlainElement
  <1>2. QED
    BY <1>1 DEF Unreadable

-----------------------------------------------------------------------------
(* The properties *)

LEMMA ListsFromIInv ==
    ASSUME IInv
    PROVE  ListsStayLists
  <1>1. SUFFICES ASSUME written # Null, NEW b \in DOMAIN written, Alone(b)
                 PROVE  LET v == written[b]
                            t == stored[Cut[b]]
                        IN /\ 1 \in DOMAIN t
                           /\ \A i \in DOMAIN t : v[i].val[1] = "arr" =>
                                /\ t[i].val[1] = IF IsList(v, i) THEN "list" ELSE "map"
                                /\ IsList(v, i) => \A j \in Elements(v, i) :
                                                    j \in DOMAIN t /\ t[j].key = v[j].key
    BY DEF ListsStayLists
  <1> DEFINE v == written[b]
             t == stored[Cut[b]]
  <1>2. IsPhpValue(v) /\ Sized(v) /\ Encoded(t, v, Len(v))
    BY <1>1 DEF IInv, StoredOK, StoredState, Alone, AloneIn
  <1>3. /\ DOMAIN v = 1 .. Len(v) /\ Len(v) \in Nat \ {0}
        /\ \A i \in DOMAIN v : i = 1 <=> v[i].up = 0
    BY <1>2, ValueFacts
  <1> HIDE DEF v, t
  <1>4. 1 \in DOMAIN t
    <2>1. 1 \in 1 .. Len(v) /\ \A j \in 1 + 1 .. Len(v) : j \in DOMAIN v /\ j # 1
      BY <1>3
    <2>2. \A j \in 1 + 1 .. Len(v) : v[j].up # v[1].up
      BY <1>3, <2>1
    <2>3. QED
      BY <1>2, <2>1, <2>2 DEF Encoded
  <1>5. ASSUME NEW i \in DOMAIN t, v[i].val[1] = "arr"
        PROVE  /\ t[i].val[1] = IF IsList(v, i) THEN "list" ELSE "map"
               /\ IsList(v, i) => \A j \in Elements(v, i) :
                                    j \in DOMAIN t /\ t[j].key = v[j].key
    <2>1. i \in DOMAIN v
      BY <1>2, <1>3 DEF Encoded
    <2>2. PICK type \in Serializers : t[i] = AsElement(v, i, type)
      BY <1>2 DEF Encoded
    <2>3. t[i].val = <<IF IsAssoc(v, i) THEN "map" ELSE "list", Null>>
      BY <1>5, <2>2 DEF AsElement, AsVal
    <2>4. IsAssoc(v, i) <=> ~IsList(v, i)
      BY <1>2, <2>1 DEF Sized
    <2>5. t[i].val[1] = IF IsList(v, i) THEN "list" ELSE "map"
      BY <2>3, <2>4
    <2>6. ASSUME IsList(v, i), NEW j \in Elements(v, i)
          PROVE  j \in DOMAIN t /\ t[j].key = v[j].key
      <3>1. j \in DOMAIN t /\ t[j].key = <<"int", Before(v, j)>>
        BY <1>2, <2>1, <2>4, <2>6, ListComplete
      <3>2. QED
        BY <2>6, <3>1 DEF IsList
    <2>7. QED
      BY <2>5, <2>6
  <1>6. QED
    BY <1>4, <1>5 DEF v, t

LEMMA WholeFromIInv ==
    ASSUME IInv
    PROVE  OkIsWhole
  <1> DEFINE there(t, php, n) ==
                \/ n \in DOMAIN php
                \/ t[n].key[1] \notin {"int", "str"}
                \/ \E m \in DOMAIN php : /\ php[m].up = t[n].up /\ t[m].key # t[n].key
                                         /\ php[m].key = ArrayKey(t[n].key)
  <1>1. SUFFICES ASSUME call.op = "get", status = "OK"
                 PROVE  /\ DOMAIN dec.out = DOMAIN stored
                        /\ \A b \in DOMAIN stored :
                            LET t == stored[b]
                                php == dec.out[b]
                            IN /\ \A n \in DOMAIN t : Due(t, php, n) => there(t, php, n)
                               /\ \A n \in DOMAIN php :
                                    /\ php[n].up = t[n].up /\ php[n].val[1] \in PhpKinds
                                    /\ t[n].val[1] \in {"int", "str"} => php[n].val = t[n].val
                                    /\ Container(t[n].val) => php[n].val = <<"arr", Null>>
    BY DEF OkIsWhole, Returned, Due, PhpKinds
  <1>2. OutState(dec, stored) /\ dec.left = {}
    BY <1>1 DEF IInv, OutOK
  <1>3. DOMAIN dec.out = DOMAIN stored
    BY <1>2 DEF OutState
  <1>4. ASSUME NEW b \in DOMAIN stored, NEW n \in DOMAIN dec.out[b]
        PROVE  LET t == stored[b] IN
               /\ n \in DOMAIN t
               /\ dec.out[b][n].up = t[n].up /\ dec.out[b][n].val[1] \in PhpKinds
               /\ t[n].val[1] \in {"int", "str"} => dec.out[b][n].val = t[n].val
               /\ Container(t[n].val) => dec.out[b][n].val = <<"arr", Null>>
    <2>1. ReadOK(dec.out[b], stored[b])
      BY <1>2, <1>3 DEF OutState
    <2>2. PICK chance \in Chances : /\ dec.out[b][n] = PhpElement(stored[b][n], chance)
                                    /\ PhpVal(stored[b][n].val, chance)[1] \in PhpKinds
      BY <2>1 DEF ReadOK
    <2>3. /\ Container(stored[b][n].val) => PhpVal(stored[b][n].val, chance) = <<"arr", Null>>
          /\ stored[b][n].val[1] \in {"int", "str"} =>
                PhpVal(stored[b][n].val, chance) = stored[b][n].val
      BY DEF Container, PhpVal
    <2>4. QED
      BY <2>1, <2>2, <2>3 DEF ReadOK, PhpElement
  <1>5. ASSUME NEW b \in DOMAIN stored, NEW n \in DOMAIN stored[b],
               Due(stored[b], dec.out[b], n)
        PROVE  there(stored[b], dec.out[b], n)
    <2> DEFINE t == stored[b]
               php == dec.out[b]
    <2>1. Accounted(t, php, n)
      BY <1>2, <1>3, <1>5 DEF OutState
    <2>2. UniqueKeys(t)
      BY DEF IInv, KeysOK
    <2>3. ASSUME NEW m \in DOMAIN php, php[m].up = t[n].up, n \notin DOMAIN php
          PROVE  t[m].key # t[n].key
      <3>1. m \in DOMAIN t /\ t[m].up = t[n].up /\ m # n
        BY <1>4, <2>3
      <3>2. QED
        BY <2>2, <3>1 DEF UniqueKeys
    <2>4. QED
      BY <2>1, <2>3 DEF Accounted
  <1>6. QED
    BY <1>3, <1>4, <1>5

LEMMA RoundTripFromIInv ==
    ASSUME IInv
    PROVE  RoundTrip
  <1>1. SUFFICES ASSUME call.op = "get", status # "busy", written # Null,
                        \A b \in DOMAIN written : Plain(written[b]),
                        \A b \in DOMAIN stored : \A i \in DOMAIN stored[b] :
                            stored[b][i].val[1] # "BLOB"
                 PROVE  status = "OK" /\ dec.out = written
    BY DEF RoundTrip, Returned
  <1>2. StoredState(written, stored)
    BY <1>1 DEF IInv, StoredOK
  <1>3. ASSUME NEW b \in DOMAIN written
        PROVE  Cut[b] = b
    <2>1. IsPhpValue(written[b]) /\ written[b][1].key = <<"str", b>>
      BY <1>2 DEF StoredState
    <2>2. 1 \in DOMAIN written[b]
      BY <2>1, ValueFacts
    <2>3. PlainString(written[b][1].key)
      BY <1>1, <2>2 DEF Plain
    <2>4. QED
      BY <2>1, <2>3 DEF PlainString
  <1>4. DOMAIN stored = DOMAIN written
    <2>1. DOMAIN stored = {Cut[b] : b \in DOMAIN written}
      BY <1>2 DEF StoredState
    <2>2. \A x : x \in {Cut[b] : b \in DOMAIN written} <=> x \in DOMAIN written
      BY <1>3
    <2>3. QED
      BY <2>1, <2>2
  <1>5. ASSUME NEW b \in DOMAIN written
        PROVE  /\ IsPhpValue(written[b]) /\ Sized(written[b]) /\ Plain(written[b])
               /\ Encoded(stored[b], written[b], Len(written[b]))
               /\ \A i \in DOMAIN stored[b] : stored[b][i].val[1] # "BLOB"
    <2>1. AloneIn(written, b)
      BY <1>3 DEF AloneIn
    <2>2. QED
      BY <1>1, <1>2, <1>3, <1>4, <2>1 DEF StoredState
  <1>6. status = "OK"
    <2>1. \A b \in DOMAIN stored : ~Unreadable(stored[b])
      BY <1>4, <1>5, PlainReadable
    <2>2. QED
      BY <1>1, <2>1 DEF IInv, OutOK
  <1>7. OutState(dec, stored) /\ dec.left = {}
    BY <1>1, <1>6 DEF IInv, OutOK
  <1>8. DOMAIN dec.out = DOMAIN written /\ dec.out = [b \in DOMAIN dec.out |-> dec.out[b]]
    BY <1>4, <1>7 DEF OutState
  <1>9. ASSUME NEW b \in DOMAIN written
        PROVE  dec.out[b] = written[b]
    <2>1. /\ ReadOK(dec.out[b], stored[b])
          /\ \A n \in DOMAIN stored[b] :
                Due(stored[b], dec.out[b], n) => Accounted(stored[b], dec.out[b], n)
      BY <1>7, <1>8 DEF OutState
    <2>2. QED
      BY <1>5, <2>1, PlainRead
  <1>10. written = [b \in DOMAIN written |-> written[b]]
    BY <1>2 DEF StoredState
  <1>11. QED
    BY <1>6, <1>8, <1>9, <1>10

\* The states of the program satisfy the invariant: a conversion that has come to
\* an element has taken one object for each key and each value before it, what is
\* stored is the conversion of what was written, and get has read to its end
\* whatever is not on the stack of containers.
THEOREM Invariant == Spec => []IInv
  <1>1. Init => IInv
    BY IInvInit
  <1>2. IInv /\ [Next]_vars => IInv'
    BY IInvNext
  <1>3. QED
    BY <1>1, <1>2, PTL DEF Spec

\* put and operate accept exactly the values that they can convert completely.
THEOREM Accepted == Spec => []AcceptedExactly
  <1>1. IInv => AcceptedExactly
    BY DEF IInv
  <1>2. QED
    BY <1>1, Invariant, PTL

\* A list that is accepted becomes a list with its elements in place, and nothing
\* else does: the 16-bit counter of is_assoc never wraps in a value that fits.
THEOREM Lists == Spec => []ListsStayLists
  <1>1. IInv => ListsStayLists
    BY ListsFromIInv
  <1>2. QED
    BY <1>1, Invariant, PTL

\* get returns what put and operate have written, of whatever shape it is.
THEOREM Trip == Spec => []RoundTrip
  <1>1. IInv => RoundTrip
    BY RoundTripFromIInv
  <1>2. QED
    BY <1>1, Invariant, PTL

\* get returns OK only with the whole record, but for elements of maps whose keys are
\* one key, or none, in a PHP array.
THEOREM Whole == Spec => []OkIsWhole
  <1>1. IInv => OkIsWhole
    BY WholeFromIInv
  <1>2. QED
    BY <1>1, Invariant, PTL
=============================================================================
