SPECIFICATION FairSpec
CONSTANTS
    Ensembles <- MCEnsembles
    MaxFile = 1
    MaxMontees = 2
INVARIANTS
    PasDeReveilPerdu
    FermeAvantTermine
PROPERTY MortRapportee
CHECK_DEADLOCK FALSE
