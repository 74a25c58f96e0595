CONSTANTS
    Validators = {v1, v2}
    FullNodes = {f1}
    Configs <- MCConfigs
SPECIFICATION FairSpec
INVARIANTS WalletsMatchValidators StartedNodesAgree SupplyIsSumOfBalances
    StartedNodesConfigured OneSeed
PROPERTY InitReturns
