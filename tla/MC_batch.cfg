CONSTANTS
    k1 = k1
    k2 = k2
    k3 = k3
    Keys = {k1, k2, k3}
    Labels = {"a", "b"}
    Label <- TwoLabels
    BadKey = BadKey
    Null = Null
    Garbage = Garbage
    Requests <- AllRequests
    IndexModulus = 4
SPECIFICATION FairSpec
INVARIANT AnswersMatchKeys
INVARIANT OkIsComplete
INVARIANT BadRecordReported
PROPERTY CallReturns
