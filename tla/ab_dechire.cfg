SPECIFICATION Spec
CONSTANTS
    v1 = v1
    v2 = v2
    p1 = p1
    p2 = p2
    Images <- MCImages
    Pids <- MCPids
    Presentes <- MCToutes
    ImageInitiale = v1
    AucuneImage = AucuneImage
    Illisible = Illisible
    Aucun = Aucun
    Dechirable = TRUE
    AppelantLibre = FALSE
    MaxSequence = 5
    MaxPannes = 0
    MaxCoupures = 1
    EssaisMax = 1
    SEUIL = 2
    NbMorceaux = 2
INVARIANTS
    TypeOK
    CopiesValides
    AccuseDurable
    ImageConforme
    BonAEteSain
    EssaisBornes
    EchecsBornes
PROPERTY SlotVivantIntact
