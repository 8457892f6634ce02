CONSTANTS
    r1 = r1
    r2 = r2
    Requests = {r1, r2}
    Records <- MCRecords
    Writes <- MCWrites
    Foreign <- MCForeign
    Cut <- MCCut
    Decimal <- MCDecimal
    UserString <- MCUserString
    LongNames = {"long"}
    PoolMax = 2
    CountModulus = 10
    Null = Null
SPECIFICATION Spec
SYMMETRY MCSymmetry
INVARIANTS
    AcceptedExactly
    ListsStayLists
    RoundTrip
    OkIsWhole
