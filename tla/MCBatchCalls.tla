---------------------------- MODULE MCBatchCalls ----------------------------
(* Instances of BatchCalls for TLC. *)
EXTENDS BatchCalls, TLC

CONSTANTS k1, k2, k3

\* k1 and k2 have the same value in different sets.
TwoLabels == k1 :> "a" @@ k2 :> "a" @@ k3 :> "b"

Arg(m, ks, b) == [method |-> m, keys |-> ks, bad |-> b]

\* All key lists up to the longest that the index can count, and for the shorter
\* ones every defect by itself and two together.
KeyLists(n) == UNION {[1 .. m -> Keys \cup {BadKey}] : m \in 0 .. n}

AllRequests ==
    {Arg(m, ks, {}) : m \in {"getMany", "existsMany"}, ks \in KeyLists(IndexModulus - 1)}
        \cup {Arg(m, ks, b) : m \in {"getMany", "existsMany"}, ks \in KeyLists(1),
                              b \in {{d} : d \in Defects} \cup {{"options", "filter"}}}
=============================================================================
