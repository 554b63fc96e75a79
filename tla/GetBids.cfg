SPECIFICATION FairSpec
CONSTANT Configs <- ConfigType
INVARIANT GetBidsLifeCycle
INVARIANT AnswerMatchesTasks
PROPERTY ReactorSafety
PROPERTY EventuallyReleased
CHECK_DEADLOCK FALSE
