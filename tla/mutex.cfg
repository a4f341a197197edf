SPECIFICATION MSpecEquitable
CONSTANTS
    m = m
    N = 3
    FilsNoyau <- MCAucun
    Condamnables <- MCAucun
    Files <- MCFiles
    Mutex = m
    Nulle = Nulle
    Reveilleurs <- MCReveilleurs
    Bruit <- MCBruit
    Modes <- MCNon
    Bornes <- MCNon
    MaxSignaux = 0
    MaxAttentes = 0
    MaxPrises = 3
INVARIANTS
    PasDAttenteVaine
    Exclusion
PROPERTY VerrouObtenu
CHECK_DEADLOCK FALSE
