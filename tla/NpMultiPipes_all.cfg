SPECIFICATION FairSpec
CONSTANTS
    Users = {1, 2, 11}
    MaxBusy = 2
CONSTRAINT Undisturbed
INVARIANT PipesAgree
PROPERTY PromptComesBack
CHECK_DEADLOCK FALSE
