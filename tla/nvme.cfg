SPECIFICATION FairSpec
CONSTANTS
    a = a
    b = b
    Taches <- MCTaches
    NbEmplacements = 2
    NbCid = 2
    EntreesSq = 3
    EntreesCq = 3
    Lot = 2
    DelaisMax = 2
    MaxCommandes = 4
    Aucun = Aucun
INVARIANTS
    AchevementASonEmetteur
    TamponSur
    SansFuite
PROPERTIES
    RequeteFinit
CHECK_DEADLOCK FALSE
