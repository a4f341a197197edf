SPECIFICATION Spec
CONSTANTS
    f1 = f1
    f2 = f2
    r1 = r1
    r2 = r2
    N = 2
    FilsNoyau <- MCUnFil
    Condamnables <- MCAucun
    Files <- MCFile
    Nulle = Nulle
    Reveilleurs <- MCReveilleurs
    Modes <- MCNon
    Bornes <- MCNon
    MaxSignaux = 2
    MaxAttentes = 1
INVARIANTS
    ReveilTousArrive
    PasOrpheline
    ReveilUnUtile
    SourceDeReveil
SYMMETRY MCSymetrie
