CONSTANTS
    Nodes = {n1, n2}
    Domains = {d1}
    Requests <- DigitalOceanRequests
SPECIFICATION Spec
INVARIANT TeardownDeletesRecords
