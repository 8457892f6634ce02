CONSTANTS
    r1 = r1  r2 = r2  n1 = n1  n2 = n2
    Requests = {r1, r2}
    Uses <- MCUses
    Nodes = {n1, n2}
    Modules = {"m"}
    Files = {"f"}
    Scans = {1, 2}
    BadName = BadName
    Freed = Freed
    None = None
SPECIFICATION Spec
SYMMETRY Sym
INVARIANT ScanApplyHonest
PROPERTY RegisteredIsFound
