CONSTANTS
    Workflows = {w1, w2}
    Templates = {t1}
    None = None
    Reports = {nodes}
    EvmReports = {nodes}
    Outcomes = {"completed", "failed"}
    Limit = 1
SPECIFICATION FairSpec
INVARIANTS
    TypeOK
    TerminalRowsAreTrue
    AcknowledgedReportsKept
    RowsAreRuns
PROPERTIES
    StatusConverges
