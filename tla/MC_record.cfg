CONSTANTS
    Clients = {c1, c2}
    Inputs <- AllInputs
    GenModulus = 3
    BadValue = BadValue
    MaxDelayed = 1
SYMMETRY ClientSymmetry
SPECIFICATION Spec
INVARIANT TypeOK
INVARIANT OneWinner
PROPERTY ReportAgrees
PROPERTY NoStaleRecord
