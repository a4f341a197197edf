SPECIFICATION SpecEquitable
CONSTANTS
    v1 = v1
    v2 = v2
    p1 = p1
    p2 = p2
    Images <- MCImages
    Pids <- MCDeuxPids
    Presentes <- MCSansRecovery
    ImageInitiale = v1
    AucuneImage = AucuneImage
    Illisible = Illisible
    Aucun = Aucun
    Dechirable = FALSE
    AppelantLibre = FALSE
    MaxSequence = 2
    MaxPannes = 1
    MaxCoupures = 1
    EssaisMax = 1
    SEUIL = 2
    NbMorceaux = 1
INVARIANTS
    ImageConforme
PROPERTY CandidatTranche
