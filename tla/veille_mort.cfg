SPECIFICATION Spec
CONSTANTS
    Ensembles <- MCService
    MaxFile = 1
    MaxMontees = 2
INVARIANT TermineVeutDireFerme
CHECK_DEADLOCK FALSE
