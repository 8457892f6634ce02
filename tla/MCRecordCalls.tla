--------------------------- MODULE MCRecordCalls ----------------------------
(* Instances of RecordCalls for TLC. *)
EXTENDS RecordCalls, TLC

Gen(p, v) == [policy |-> p, value |-> v]

Plain == Gen("ignore", 0)

Arg(m, g, r, b) == [method |-> m, gen |-> g, retry |-> r, bad |-> b]

\* Well-formed calls: reads, unguarded and guarded writes, with and without a
\* retry, a generation value above the modulus and one that is no integer.
Good ==
    { Arg("get", Plain, FALSE, {}),
      Arg("exists", Plain, FALSE, {}),
      Arg("put", Gen("eq", GenModulus + 1), TRUE, {}),
      Arg("put", Gen("eq", BadValue), FALSE, {}),
      Arg("operate", Plain, TRUE, {}),
      Arg("remove", Gen("gt", 2), FALSE, {}),
      Arg("removeBin", Gen("eq", 1), FALSE, {}) }

\* Calls with one of the defects their method looks for, and with all of them,
\* which shows the order of the checks.  The common checks are tried with get.
Checked(m) == {ArgumentChecks(m)[i].defect : i \in DOMAIN ArgumentChecks(m)}

Tried(m) == IF m = "get" THEN Checked(m) ELSE Checked(m) \ Checked("exists")

Defective ==
    UNION {{Arg(m, Plain, FALSE, b) : b \in {Checked(m)} \cup {{d} : d \in Tried(m)}} : m \in Methods}

AllInputs == Good \cup Defective

ClientSymmetry == Permutations(Clients)
=============================================================================
