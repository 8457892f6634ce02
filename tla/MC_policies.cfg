CONSTANTS
    r1 = r1
    r2 = r2
    Requests = {r1, r2}
    Methods <- MCMethods
    Handles = {h1, h2}
    Options <- MCOptions
    IniValues <- MCIniValues
    PhpIni <- MCPhpIni
    Default = 99
    Wrong = Wrong
    NULL = NULL
    NoArray = NoArray
    None = None
SPECIFICATION Spec
INVARIANT
    CallPolicies
PROPERTY HandlePoliciesFixed
SYMMETRY MCSymmetry
