CONSTANTS
    Nodes = {n1, n2}
    Domains = {d1}
    Requests <- DockerRequests
SPECIFICATION Spec
INVARIANT TeardownDeletesContainers
