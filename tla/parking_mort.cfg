SPECIFICATION SpecEquitable
CONSTANTS
    f1 = f1
    f2 = f2
    r1 = r1
    r2 = r2
    N = 1
    FilsNoyau <- MCAucun
    Condamnables <- MCUnFil
    Files <- MCFile
    Nulle = Nulle
    Reveilleurs <- MCUnReveilleur
    Modes <- MCTous
    Bornes <- MCTous
    MaxSignaux = 2
    MaxAttentes = 2
PROPERTIES
    ZombieAbsorbant
    CondamneeMeurt
    ReveilTousAboutit
