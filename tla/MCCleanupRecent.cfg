CONSTANTS
    Runs = {r1, r2}
    Foreign = {other}
    Nodes = {n1}
    PerPage = 4
    DryRun = FALSE
SPECIFICATION Spec
INVARIANT
    OnlyOldDropletsDeleted
