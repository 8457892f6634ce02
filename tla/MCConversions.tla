--------------------------- MODULE MCConversions ----------------------------
EXTENDS Conversions, SequencesExt

CONSTANTS r1, r2

MCSymmetry == Permutations(Requests)

\* "aNx" stands for a string with a NUL after its first character.
MCCut == [s \in {"a", "b", "aNx", "5", "5Nx", "long", "user"} |->
            CASE s = "aNx" -> "a" [] s = "5Nx" -> "5" [] OTHER -> s]
MCDecimal == [s \in {"5"} |-> 5]

\* The user's serializer returns null for x2 and a binary string for x3.
MCUserString == [x \in {"x1", "x2", "x3"} |->
                    CASE x = "x1" -> "user" [] x = "x2" -> Null [] x = "x3" -> "aNx"]

IntV(n) == <<"int", n>>
StrV(s) == <<"str", s>>
ObjV(x) == <<"obj", x>>
Arr(pairs) == <<"arr", pairs>>
List(seq) == Arr([i \in DOMAIN seq |-> <<IntV(i - 1), seq[i]>>])

\* The value with this key, in array up, as the sequence of its elements from index i.
RECURSIVE Flat(_, _, _, _)
Flat(key, v, up, i) ==
    IF v[1] # "arr" THEN <<[up |-> up, key |-> key, val |-> v]>>
    ELSE FoldLeft(LAMBDA acc, pair : acc \o Flat(pair[1], pair[2], i, i + Len(acc)),
                  <<[up |-> up, key |-> key, val |-> <<"arr", Null>>]>>, v[2])

Scalars == {IntV(7), StrV("a"), ObjV("x1")}
Others == {StrV("aNx"), ObjV("x2"), ObjV("x3")}

\* Lists of up to 3 elements: more than a pool of 2 has room for.
Lists == UNION {{List(s) : s \in [1 .. n -> Scalars]} : n \in 0 .. 2}
         \cup {List(s) : s \in [1 .. 3 -> {IntV(7), ObjV("x1")}]}

\* Arrays of two elements with other keys, in every order.
Maps == {Arr(<< <<k, v>>, <<l, w>> >>) :
            k \in {IntV(1), StrV("a")}, l \in {IntV(0), StrV("b")}, v \in Scalars, w \in {StrV("a"), ObjV("x1")}}
        \cup {Arr(<< <<StrV("a"), IntV(7)>>, <<StrV(s), IntV(8)>> >>) : s \in {"aNx", "5Nx"}}
        \cup {Arr(<< <<StrV("5Nx"), List(<<IntV(7)>>)>>, <<IntV(5), StrV("5")>> >>)}

Small == {List(<<>>), List(<<StrV("a")>>), List(<<ObjV("x2"), IntV(7)>>),
          Arr(<< <<IntV(1), ObjV("x1")>> >>)}
Tails == {List(<<ObjV("x2"), IntV(7)>>), Arr(<< <<IntV(1), ObjV("x1")>> >>)}
Nested == {List(<<v, w>>) : v \in Small \cup {IntV(7)}, w \in Tails}
          \cup {Arr(<< <<StrV("a"), v>>, <<IntV(0), w>> >>) : v \in Small, w \in Tails}

\* As many elements as the pools hold, and more than is_assoc counts.
Long == {List([i \in 1 .. n |->
            CASE i <= 2 -> IntV(i) [] i <= 4 -> StrV("a") [] OTHER -> ObjV("x1")]) :
                n \in {6, 7}}
        \cup {List([i \in 1 .. 11 |-> StrV("a")])}

Bin(name, v) == Flat(StrV(name), v, 0, 1)

MCRecords ==
    {<<Bin("b", v)>> : v \in Scalars \cup Others \cup Lists \cup Maps \cup Nested \cup Long}
    \cup {<<Bin("a", List(<<v>>)), Bin("b", List(<<w, StrV("a")>>))>> :
            v \in {IntV(7), ObjV("x1")}, w \in {StrV("a"), ObjV("x1"), ObjV("x3")}}
    \cup {<<Bin("aNx", IntV(1))>>, <<Bin("a", IntV(1)), Bin("long", IntV(1))>>,
          <<Bin("a", IntV(1)), Bin("aNx", List(<<>>))>>,
          <<Flat(IntV(0), IntV(1), 0, 1)>>}

MCWrites == {Bin("b", v) : v \in {ObjV("x1"), StrV("aNx"), ObjV("x2"), List(<<ObjV("x1")>>),
                                    List(<<IntV(1), IntV(2), StrV("a")>>)}}
            \cup {Bin("long", v) : v \in {IntV(7), ObjV("x1")}} \cup {Bin("5", StrV("5"))}

AsBin(val) == <<[up |-> 0, key |-> StrV("b"), val |-> val]>>
In(key, val) == [up |-> 1, key |-> key, val |-> val]

\* Doubles, nil, as_bytes of another language, and maps with keys that PHP arrays do
\* not have: a double, 5 next to "5", null, a serialized object, a list.
MCForeign ==
    {[b |-> t] : t \in {AsBin(<<"double", 1>>), AsBin(<<"nil", Null>>),
                        AsBin(<<"other bytes", "a">>),
                        AsBin(<<"list", Null>>) \o <<In(IntV(0), <<"double", 1>>), In(IntV(1), IntV(1))>>,
                        AsBin(<<"list", Null>>) \o <<In(IntV(0), IntV(1)), In(IntV(1), <<"BLOB", "user">>)>>,
                        AsBin(<<"map", Null>>) \o <<In(IntV(5), <<"nil", Null>>), In(StrV("5"), StrV("5"))>>,
                        AsBin(<<"map", Null>>) \o <<In(<<"nil", Null>>, IntV(1)), In(<<"PHP", "x1">>, IntV(0)),
                                                     In(<<"list", Null>>, <<"nil", Null>>), In(IntV(0), IntV(1))>>,
                        AsBin(<<"map", Null>>) \o <<In(<<"double", 5>>, IntV(1)), In(IntV(5), IntV(1))>>}}
    \cup {[a |-> <<[up |-> 0, key |-> StrV("a"), val |-> <<"double", 1>>]>>,
           b |-> AsBin(IntV(1))]}
=============================================================================
