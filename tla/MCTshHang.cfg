SPECIFICATION FairSpec
CONSTANT MaxPid = 1
PROPERTY
    PromptComesBack
CHECK_DEADLOCK FALSE
