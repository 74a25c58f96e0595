CONSTANTS
    Templates = {t1}
    Requests <- MCRequests
    Shas = {"a"}
    None = None
    MaxRuns = 2
    MaxRows = 4
    HistoryLimit = 1
SPECIFICATION Spec
INVARIANTS
    TemplateRunsAsWritten
    TemplatesStayRunnable
    ClonesMatch
