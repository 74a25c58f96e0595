SPECIFICATION FairSpec
CONSTANTS
  Nodes = {n1}
  Activities <- MCActivities
  Configs <- MCConfigs
  MaxTime = 3
  MaxTxs = 2
  None = None
INVARIANTS StoppedRunsReportTheirWindow MeasuredAndTornDown WindowAccountingExact
PROPERTIES ScenarioReported
