---------------------------- MODULE MCPredicates ----------------------------
EXTENDS Predicates

MCBinArgs == {Str("b"), Str(""), Null, Int(1)}
MCIndexArgs == {Null, DEFAULT, Str("x")} \cup ElementIndexes
MCValueArgs == {Null, Bool(1), Int(3), Int(5), Str("s"), Str("t"), Str(""), Arr(<<Int(3)>>),
               Arr(<<Int(3), Int(5)>>)}

MCOpArgs == {Null, Str("="), Str("=="), Str("BETWEEN"), Str("CONTAINS"), Str("RANGE")}
=============================================================================
