SPECIFICATION FairSpec
CONSTANTS
    Fichiers <- MCFichiers
    Valeurs <- MCValeurs
    Departs <- MCDeparts
    Absent = Absent
    Dechire = Dechire
    Vierge = Vierge
    EnteteV1 = EnteteV1
    TableV1 = TableV1
    Rien = Rien
    Fautes <- MCAucune
    EchecEcrit = FALSE
    MaxModifs = 2
    MaxFsync = 1
    MaxCoupures = 1
    MaxEchecs = 1
INVARIANTS
    DiffereeDurable
PROPERTIES
    Implemente
    
CHECK_DEADLOCK FALSE
