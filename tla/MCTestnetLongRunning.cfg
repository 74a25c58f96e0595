CONSTANTS
    Nodes = {n1, n2}
    Domains = {d1}
    Requests <- AllRequests
SPECIFICATION Spec
INVARIANT LongRunningUntilCancelled
