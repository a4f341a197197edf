SPECIFICATION Spec
CONSTANTS
    f1 = f1
    f2 = f2
    r1 = r1
    r2 = r2
    N = 1
    FilsNoyau <- MCUnFil
    Condamnables <- MCAucun
    Files <- MCFile
    Nulle = Nulle
    Reveilleurs <- MCUnReveilleur
    Modes <- MCNon
    Bornes <- MCNon
    MaxSignaux = 2
    MaxAttentes = 2
INVARIANT AucunReveilPerdu
