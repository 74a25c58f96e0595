CONSTANT Pulls = 5
SPECIFICATION FairSpec
INVARIANTS StartedTaskRuns NoExecutorLeft StatusFollowsContainer ForgottenMeansGone
PROPERTY CallReturns
CHECK_DEADLOCK FALSE
